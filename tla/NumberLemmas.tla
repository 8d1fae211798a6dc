---------------------------- MODULE NumberLemmas -----------------------------
(***************************************************************************)
(* Facts about numbers that the proofs about several modules need.         *)
(***************************************************************************)
EXTENDS Integers, FiniteSetTheorems, WellFoundedInduction, TLAPS

\* A set of naturals that is not empty has a least element.
LEMMA LeastExists ==
    ASSUME NEW S, S \subseteq Nat, S # {}
    PROVE  \E n \in S : \A m \in S : n <= m
<1>. DEFINE R == {ss \in Nat \X Nat : ss[1] < ss[2]}
<1>1. OpToRel(<, Nat) = R
    BY Zenon DEF OpToRel
<1>2. \E n \in S : \A m \in S : <<m, n>> \notin R
    BY <1>1, NatLessThanWellFounded, WFMin
<1>3. ASSUME NEW m \in Nat, NEW n \in Nat, <<m, n>> \notin R PROVE n <= m
  <2>1. <<m, n>> \in Nat \X Nat /\ <<m, n>>[1] = m /\ <<m, n>>[2] = n
    OBVIOUS
  <2>2. ~(m < n)
    BY <1>3, <2>1
  <2>. QED
    BY <2>2
<1>. QED
    BY <1>2, <1>3

\* A power of two is a positive number: it counts the subsets of an interval.
LEMMA PowerType == ASSUME NEW n \in Nat PROVE 2 ^ n \in Nat \ {0}
<1>1. IsFiniteSet(1 .. n) /\ Cardinality(1 .. n) = n
    BY FS_Interval
<1>2. IsFiniteSet(SUBSET (1 .. n)) /\ Cardinality(SUBSET (1 .. n)) = 2 ^ n
    BY <1>1, FS_SUBSET
<1>3. SUBSET (1 .. n) # {}
    OBVIOUS
<1>. QED
    BY <1>2, <1>3, FS_EmptySet, FS_CardinalityType

\* The next power of two is its double: half of the subsets have the new element.
LEMMA PowerDoubles == ASSUME NEW n \in Nat PROVE 2 ^ (n + 1) = 2 * 2 ^ n
<1>. DEFINE A == 1 .. n
            x == n + 1
            P == SUBSET A
            Q == {T \cup {x} : T \in P}
            f == [T \in P |-> T \cup {x}]
<1>1. /\ IsFiniteSet(A) /\ Cardinality(A) = n
      /\ IsFiniteSet(1 .. (n + 1)) /\ Cardinality(1 .. (n + 1)) = n + 1
    BY FS_Interval
<1>2. /\ IsFiniteSet(P) /\ Cardinality(P) = 2 ^ n
      /\ Cardinality(SUBSET (1 .. (n + 1))) = 2 ^ (n + 1)
    BY <1>1, FS_SUBSET
<1>3. x \notin A /\ 1 .. (n + 1) = A \cup {x}
    OBVIOUS
<1>. HIDE DEF A, x
<1>4. f \in Bijection(P, Q)
  <2>1. f \in [P -> Q] /\ \A b \in Q : \E T \in P : f[T] = b
    OBVIOUS
  <2>2. \A T \in P : f[T] \ {x} = T
    BY <1>3
  <2>3. IsInjective(f)
    BY <2>2 DEF IsInjective
  <2>. QED
    BY <2>1, <2>3 DEF Bijection, Injection, Surjection
<1>5. IsFiniteSet(Q) /\ Cardinality(Q) = 2 ^ n
    BY <1>2, <1>4, FS_Bijection DEF ExistsBijection
<1>6. SUBSET (A \cup {x}) = P \cup Q
  <2>1. ASSUME NEW T \in SUBSET (A \cup {x}), x \in T PROVE T \in Q
    <3>1. T \ {x} \in P /\ T = (T \ {x}) \cup {x}
        BY <2>1
    <3>. QED
        BY <3>1
  <2>2. ASSUME NEW T \in SUBSET (A \cup {x}), x \notin T PROVE T \in P
    BY <2>2
  <2>3. P \subseteq SUBSET (A \cup {x}) /\ Q \subseteq SUBSET (A \cup {x})
    OBVIOUS
  <2>. QED
    BY <2>1, <2>2, <2>3
<1>7. P \cap Q = {}
    BY <1>3
<1>8. Cardinality(P \cup Q) = 2 ^ n + 2 ^ n
  <2>. HIDE DEF P, Q
  <2>1. Cardinality(P \cap Q) = 0
    BY <1>7, FS_EmptySet
  <2>2. Cardinality(P \cup Q) = Cardinality(P) + Cardinality(Q) - Cardinality(P \cap Q)
    BY <1>2, <1>5, FS_Union
  <2>3. 2 ^ n \in Int
    OBVIOUS
  <2>. QED
    BY <1>2, <1>5, <2>1, <2>2, <2>3
<1>9. 2 ^ (n + 1) = 2 ^ n + 2 ^ n
    BY <1>2, <1>3, <1>6, <1>8
<1>10. 2 ^ n \in Int
    OBVIOUS
<1>. QED
    BY <1>9, <1>10

\* As many things of size d as fit in a are a \div d at most.
LEMMA QuotientCounts ==
    ASSUME NEW a \in Nat, NEW d \in Nat \ {0}, NEW k \in Nat, k * d <= a
    PROVE  k <= a \div d
<1>. DEFINE q == a \div d
<1>1. q \in Nat /\ a < (q + 1) * d
    BY SMT
<1>. HIDE DEF q
<1>2. k * d < (q + 1) * d
    BY <1>1
<1>3. k < q + 1
    BY <1>1, <1>2
<1>. QED
    BY <1>1, <1>3 DEF q

\* Numbers that differ by a multiple of c have the same remainder.
LEMMA RemainderOf ==
    ASSUME NEW c \in Nat \ {0}, NEW s \in 0 .. c - 1, NEW m \in Int
    PROVE  (s + c * m) % c = s
<1>. DEFINE y == s + c * m
            q == y \div c
            r == y % c
<1>1. y \in Int
    OBVIOUS
<1>. HIDE DEF y
<1>2. q \in Int /\ r \in 0 .. c - 1 /\ y = c * q + r
    BY <1>1
<1>. HIDE DEF q, r
<1>3. c * (m - q) = r - s
    BY <1>1, <1>2 DEF y
<1>4. m - q \in Int /\ r - s < c /\ r - s > -c
    BY <1>2
<1>5. m - q >= 1 => c * (m - q) >= c
    BY <1>4
<1>6. m - q <= -1 => c * (m - q) <= -c
    BY <1>4
<1>7. m - q = 0
    BY <1>3, <1>4, <1>5, <1>6
<1>8. r = s
    BY <1>2, <1>3, <1>7
<1>. QED
    BY <1>8 DEF r, y

\* Counting on from h, c steps visit every remainder.
LEMMA RemaindersVisited ==
    ASSUME NEW c \in Nat \ {0}, NEW s \in 0 .. c - 1, NEW h \in Nat
    PROVE  \E i \in 0 .. c - 1 : (h + i) % c = s
<1>. DEFINE x == s - h
            i == x % c
            q == x \div c
<1>1. x \in Int
    OBVIOUS
<1>. HIDE DEF x
<1>2. i \in 0 .. c - 1 /\ q \in Int /\ x = c * q + i
    BY <1>1
<1>. HIDE DEF i, q
<1>3. -q \in Int /\ c * (-q) = -(c * q) /\ c * q \in Int
    BY <1>2
<1>4. h + i = s + c * (-q)
    BY <1>2, <1>3 DEF x
<1>5. (h + i) % c = s
    BY <1>3, <1>4, RemainderOf
<1>. QED
    BY <1>2, <1>5
==============================================================================
