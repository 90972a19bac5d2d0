---------------------------- MODULE NumberLemmas ----------------------------
(***************************************************************************)
(* What the proofs about rings and queues need of sets of numbers and of   *)
(* sequences: a smallest and a greatest element, the rank of an element,   *)
(* one sequence after another.                                             *)
(***************************************************************************)
EXTENDS Integers, Sequences, FiniteSets, Functions, FiniteSetTheorems,
        WellFoundedInduction, NaturalsInduction, TLAPS

(* Numbers and ranks *)

\* A nonempty set of naturals has a smallest element.
LEMMA Smallest ==
    ASSUME NEW S \in SUBSET Nat, S # {}
    PROVE  \E x \in S : \A y \in S : x <= y
<1>1. IsWellFoundedOn(OpToRel(<, Nat), Nat)
  BY NatLessThanWellFounded
<1>2. PICK x \in S : \A y \in S : ~(<<y, x>> \in OpToRel(<, Nat))
  BY <1>1, WFMin
<1>3. \A y \in S : ~(y < x)
  BY <1>2 DEF OpToRel
<1>4. QED
  BY <1>3

\* A nonempty bounded set of naturals has a greatest element.
LEMMA Greatest ==
    ASSUME NEW n \in Nat, NEW S \in SUBSET (1..n), S # {}
    PROVE  \E x \in S : \A y \in S : y <= x
<1> DEFINE Bounds == {b \in Nat : \A y \in S : y <= b}
<1>1. n \in Bounds
  OBVIOUS
<1>2. PICK b \in Bounds : \A c \in Bounds : b <= c
  BY <1>1, Smallest
<1>3. b \in S
  <2>1. SUFFICES ASSUME b \notin S PROVE FALSE
    OBVIOUS
  <2>2. b \in Nat /\ \A y \in S : y <= b - 1
    BY <2>1
  <2>3. b - 1 \in Bounds
    <3>1. PICK y \in S : y \in 1..n
      OBVIOUS
    <3>2. b - 1 \in Nat
      BY <2>2, <3>1
    <3>3. QED
      BY <2>2, <3>2
  <2>4. QED
    BY <1>2, <2>2, <2>3
<1>4. QED
  BY <1>3

Below(S, f, x) == {y \in S : f[y] < f[x]}

Ranked(S, f) ==
    /\ Cardinality(S) \in Nat
    /\ \A x \in S : Cardinality(Below(S, f, x)) \in 0..(Cardinality(S) - 1)
    /\ \A x, y \in S :
          Cardinality(Below(S, f, x)) = Cardinality(Below(S, f, y)) => x = y
    /\ \A k \in 0..(Cardinality(S) - 1) :
          \E x \in S : Cardinality(Below(S, f, x)) = k

\* Every member of a finite set has a rank by distinct numbers, and every
\* number below its size is the rank of one member.
LEMMA Ranks ==
    ASSUME NEW S, IsFiniteSet(S), NEW f \in [S -> Nat],
           \A x, y \in S : f[x] = f[y] => x = y
    PROVE  Ranked(S, f)
<1> DEFINE n == Cardinality(S)
           rank == [x \in S |-> Cardinality(Below(S, f, x))]
<1>1. n \in Nat
  BY FS_CardinalityType
<1>2. \A x \in S : IsFiniteSet(Below(S, f, x)) /\ Cardinality(Below(S, f, x)) \in Nat
  <2> TAKE x \in S
  <2>1. Below(S, f, x) \in SUBSET S
    BY DEF Below
  <2>2. IsFiniteSet(Below(S, f, x))
    BY <2>1, FS_Subset
  <2>3. QED
    BY <2>2, FS_CardinalityType
<1>3. \A x, y \in S : f[x] < f[y] => Cardinality(Below(S, f, x)) < Cardinality(Below(S, f, y))
  <2> TAKE x, y \in S
  <2> HAVE f[x] < f[y]
  <2>1. Below(S, f, x) \cup {x} \in SUBSET Below(S, f, y)
    BY DEF Below
  <2>2. x \notin Below(S, f, x)
    BY DEF Below
  <2>3. Cardinality(Below(S, f, x) \cup {x}) = Cardinality(Below(S, f, x)) + 1
    BY <1>2, <2>2, FS_AddElement
  <2>4. Cardinality(Below(S, f, x) \cup {x}) <= Cardinality(Below(S, f, y))
    BY <1>2, <2>1, FS_Subset
  <2>5. Cardinality(Below(S, f, x)) \in Nat /\ Cardinality(Below(S, f, y)) \in Nat
    BY <1>2
  <2>6. QED
    BY <2>3, <2>4, <2>5
<1>4. \A x \in S : Cardinality(Below(S, f, x)) \in 0..(n - 1)
  <2> TAKE x \in S
  <2>1. Below(S, f, x) \cup {x} \in SUBSET S
    BY DEF Below
  <2>2. Cardinality(Below(S, f, x) \cup {x}) = Cardinality(Below(S, f, x)) + 1
    <3>1. x \notin Below(S, f, x)
      BY DEF Below
    <3>2. QED
      BY <1>2, <3>1, FS_AddElement
  <2>3. Cardinality(Below(S, f, x) \cup {x}) <= n
    BY <2>1, FS_Subset
  <2>4. QED
    BY <1>1, <1>2, <2>2, <2>3
<1>5. \A x, y \in S : Cardinality(Below(S, f, x)) = Cardinality(Below(S, f, y)) => x = y
  <2> TAKE x, y \in S
  <2> HAVE Cardinality(Below(S, f, x)) = Cardinality(Below(S, f, y))
  <2>1. f[x] \in Nat /\ f[y] \in Nat
    OBVIOUS
  <2>2. ~(f[x] < f[y]) /\ ~(f[y] < f[x])
    <3>1. Cardinality(Below(S, f, x)) \in Nat
      BY <1>2
    <3>2. QED
      BY <1>3, <3>1
  <2>3. QED
    BY <2>1, <2>2
<1>6. rank \in Injection(S, 0..(n - 1))
  <2>1. rank \in [S -> 0..(n - 1)]
    BY <1>4
  <2>2. IsInjective(rank)
    BY <1>5 DEF IsInjective
  <2>3. QED
    BY <2>1, <2>2 DEF Injection
<1>7. IsFiniteSet(0..(n - 1)) /\ Cardinality(0..(n - 1)) = n
  BY <1>1, FS_Interval
<1>8. rank \in Surjection(S, 0..(n - 1))
  BY <1>6, <1>7, FS_Injection
<1>9. \A k \in 0..(n - 1) : \E x \in S : Cardinality(Below(S, f, x)) = k
  BY <1>8 DEF Surjection
<1>10. QED
  BY <1>1, <1>4, <1>5, <1>9 DEF Ranked

Rank(S, x) == Cardinality({t \in S : t < x})

RankedByRank(S) ==
    /\ Cardinality(S) \in Nat
    /\ \A x \in S : Rank(S, x) \in 0..(Cardinality(S) - 1)
    /\ \A x, y \in S : Rank(S, x) = Rank(S, y) => x = y
    /\ \A k \in 0..(Cardinality(S) - 1) : \E x \in S : Rank(S, x) = k

\* The same for numbers in their own order.
LEMMA NumberRanks ==
    ASSUME NEW S \in SUBSET Nat, IsFiniteSet(S)
    PROVE  RankedByRank(S)
<1>1. PICK f \in [S -> Nat] : \A x \in S : f[x] = x
  <2>1. [x \in S |-> x] \in [S -> Nat]
    OBVIOUS
  <2>2. QED
    BY <2>1
<1>2. \A x, y \in S : f[x] = f[y] => x = y
  BY <1>1
<1>3. \A x \in S : Rank(S, x) = Cardinality(Below(S, f, x))
  <2> SUFFICES ASSUME NEW x \in S PROVE Rank(S, x) = Cardinality(Below(S, f, x))
    OBVIOUS
  <2>1. Below(S, f, x) = {t \in S : t < x}
    BY <1>1 DEF Below
  <2>2. QED
    BY <2>1 DEF Rank
<1>4. Ranked(S, f)
  BY <1>1, <1>2, Ranks
<1>5. QED
  BY <1>3, <1>4 DEF Ranked, RankedByRank
\* Two sequences one after the other.
LEMMA JoinedSequences ==
    ASSUME NEW S, NEW s \in Seq(S), NEW t \in Seq(S)
    PROVE  /\ Len(s \o t) = Len(s) + Len(t)
           /\ \A i \in 1..Len(s) : (s \o t)[i] = s[i]
           /\ \A k \in 1..Len(t) : (s \o t)[Len(s) + k] = t[k]
  OBVIOUS

=============================================================================
