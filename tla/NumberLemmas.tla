---------------------------- MODULE NumberLemmas ----------------------------
(***************************************************************************)
(* Induction over numbers, as facts about sets of them: the library's      *)
(* induction theorems take an operator, a set of numbers does not.         *)
(***************************************************************************)
EXTENDS Integers, FiniteSetTheorems, SequenceTheorems, TLAPS

\* A set of numbers that has 0 and, below m, the successor of each member has
\* m: otherwise the successor would map its members up to m one to one into
\* those above 0, which are one less.
LEMMA SetInduction ==
    ASSUME NEW S, NEW m \in Nat, 0 \in S,
           \A n \in 0 .. m - 1 : n \in S => n + 1 \in S
    PROVE  m \in S
<1> SUFFICES ASSUME m \notin S PROVE FALSE
    OBVIOUS
<1> DEFINE Low == S \cap (0 .. m)
           High == Low \ {0}
           next == [n \in Low |-> n + 1]
<1>1. IsFiniteSet(Low) /\ 0 \in Low
  <2>1. IsFiniteSet(0 .. m) /\ Low \in SUBSET (0 .. m)
      BY FS_Interval
  <2>2. IsFiniteSet(Low)
    <3> HIDE DEF Low
    <3> QED BY <2>1, FS_Subset
  <2> QED BY <2>2
<1>2. IsFiniteSet(High) /\ Cardinality(High) = Cardinality(Low) - 1
      /\ Cardinality(Low) \in Nat
    BY <1>1, FS_RemoveElement, FS_CardinalityType
<1>3. next \in [Low -> High]
  <2> SUFFICES ASSUME NEW n \in Low PROVE n + 1 \in High
      OBVIOUS
  <2>1. n \in 0 .. m - 1
      OBVIOUS
  <2> QED BY <2>1
<1>4. \E x, y \in Low : x # y /\ next[x] = next[y]
  <2>1. Cardinality(High) < Cardinality(Low)
      BY <1>2
  <2> HIDE DEF Low, High, next
  <2> QED BY <1>1, <1>2, <1>3, <2>1, FS_PigeonHole
<1>5. \A x, y \in Low : next[x] = next[y] => x = y
    OBVIOUS
<1> QED BY <1>4, <1>5

\* Of the numbers up to m that a set has, one is the least.
LEMMA LeastMember ==
    ASSUME NEW S, NEW m \in Nat, m \in S
    PROVE  \E k \in 0 .. m : k \in S /\ \A j \in 0 .. k - 1 : j \notin S
<1> SUFFICES ASSUME \A k \in 0 .. m : k \in S => \E j \in 0 .. k - 1 : j \in S
             PROVE  FALSE
    OBVIOUS
<1> DEFINE Above == {n \in Nat : \A j \in 0 .. n : j \notin S}
<1>1. 0 \in Above
    OBVIOUS
<1>2. \A n \in 0 .. m - 1 : n \in Above => n + 1 \in Above
  <2> SUFFICES ASSUME NEW n \in 0 .. m - 1, n \in Above, NEW j \in 0 .. n + 1, j \in S
               PROVE  FALSE
      OBVIOUS
  <2>1. j = n + 1
      OBVIOUS
  <2> QED BY <2>1
<1>3. m \in Above
  <2> HIDE DEF Above
  <2> QED BY <1>1, <1>2, SetInduction
<1> QED BY <1>3

=============================================================================
