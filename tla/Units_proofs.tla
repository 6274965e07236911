---------------------------- MODULE Units_proofs ----------------------------
(***************************************************************************)
(* Lemmas about Total: how it changes when a set of orders gains or loses   *)
(* one of them.                                                             *)
(***************************************************************************)
EXTENDS Units, FiniteSetTheorems, TLAPS

\* No orders, no units.
LEMMA TotalEmpty ==
  ASSUME NEW q
  PROVE  IsFiniteSet(UnitsOf(q, {})) /\ Total(q, {}) = 0
<1>1. UnitsOf(q, {}) = {}
  BY DEF UnitsOf
<1> QED BY <1>1, FS_EmptySet DEF Total

\* The units of one order.
LEMMA OneOrder ==
  ASSUME NEW q, NEW o, q[o] \in Nat
  PROVE  IsFiniteSet({o} \X (1..q[o])) /\ Cardinality({o} \X (1..q[o])) = q[o]
<1> DEFINE I == 1..q[o]
           f == [k \in I |-> <<o, k>>]
<1>1. IsFiniteSet(I) /\ Cardinality(I) = q[o]
  BY FS_Interval
<1>2. f \in Bijection(I, {o} \X I)
  <2>1. f \in [I -> {o} \X I]
    OBVIOUS
  <2>2. \A a, b \in I : f[a] = f[b] => a = b
    OBVIOUS
  <2>3. \A u \in {o} \X I : \E k \in I : f[k] = u
    OBVIOUS
  <2> QED BY <2>1, <2>2, <2>3 DEF Bijection, Injection, Surjection, IsInjective
<1>3. ExistsBijection(I, {o} \X I)
  BY <1>2, Zenon DEF ExistsBijection
<1> HIDE DEF I
<1> QED BY <1>1, <1>3, FS_Bijection DEF I

\* An order that joins the set adds its quantity.
LEMMA TotalAdd ==
  ASSUME NEW q, NEW S, NEW o, o \notin S, q[o] \in Nat, IsFiniteSet(UnitsOf(q, S))
  PROVE  IsFiniteSet(UnitsOf(q, S \union {o})) /\ Total(q, S \union {o}) = Total(q, S) + q[o]
<1> DEFINE U == UnitsOf(q, S)
           W == {o} \X (1..q[o])
<1>1. UnitsOf(q, S \union {o}) = U \union W
  BY DEF UnitsOf
<1>2. U \cap W = {}
  BY DEF UnitsOf
<1>3. IsFiniteSet(W) /\ Cardinality(W) = q[o]
  BY OneOrder
<1> HIDE DEF U, W
<1>4. IsFiniteSet(U) /\ Cardinality(U) \in Nat /\ Cardinality({}) = 0
  BY FS_CardinalityType, FS_EmptySet DEF U
<1>5. IsFiniteSet(U \union W) /\ Cardinality(U \union W) = Cardinality(U) + Cardinality(W) - Cardinality(U \cap W)
  BY <1>3, <1>4, FS_Union, Zenon
<1>6. Cardinality(U \union W) = Cardinality(U) + q[o]
  <2>1. Cardinality(U \cap W) = 0
    BY <1>2, <1>4, Zenon
  <2> QED BY <1>3, <1>4, <1>5, <2>1
<1> QED BY <1>1, <1>5, <1>6 DEF Total, U

\* A part of a set of orders has no more units than the set.
LEMMA TotalSubset ==
  ASSUME NEW q, NEW S, NEW T \in SUBSET S, IsFiniteSet(UnitsOf(q, S))
  PROVE  IsFiniteSet(UnitsOf(q, T)) /\ Total(q, T) <= Total(q, S)
<1>1. UnitsOf(q, T) \in SUBSET UnitsOf(q, S)
  BY DEF UnitsOf
<1> QED BY <1>1, FS_Subset DEF Total

\* An order that leaves the set takes its quantity along.
LEMMA TotalRemove ==
  ASSUME NEW q, NEW S, NEW o \in S, q[o] \in Nat, IsFiniteSet(UnitsOf(q, S))
  PROVE  IsFiniteSet(UnitsOf(q, S \ {o})) /\ Total(q, S \ {o}) = Total(q, S) - q[o]
<1>1. IsFiniteSet(UnitsOf(q, S \ {o}))
  BY TotalSubset
<1>2. (S \ {o}) \union {o} = S
  OBVIOUS
<1>3. Total(q, S) = Total(q, S \ {o}) + q[o]
  BY <1>1, <1>2, TotalAdd
<1>4. Total(q, S \ {o}) \in Nat
  BY <1>1, FS_CardinalityType DEF Total
<1> QED BY <1>1, <1>3, <1>4

\* The total is a number.
LEMMA TotalNat ==
  ASSUME NEW q, NEW S, IsFiniteSet(UnitsOf(q, S))
  PROVE  Total(q, S) \in Nat
BY FS_CardinalityType DEF Total
=============================================================================
