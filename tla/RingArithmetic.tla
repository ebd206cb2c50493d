--------------------------- MODULE RingArithmetic ---------------------------
(***************************************************************************)
(* Positions and the cells of a ring buffer they fall on, and the least    *)
(* element that an argument by counterexample starts from.                 *)
(***************************************************************************)
EXTENDS Integers, WellFoundedInduction, TLAPS

\* Two different numbers less than n apart differ modulo n.
LEMMA ModInjective ==
    ASSUME NEW n \in Nat \ {0}, NEW i \in Nat, NEW j \in Nat, i < j, j - i < n
    PROVE  i % n # j % n
<1> DEFINE qi == i \div n
           qj == j \div n
<1>1. i = n * qi + (i % n) /\ j = n * qj + (j % n)
  OBVIOUS
<1>2. SUFFICES ASSUME i % n = j % n PROVE FALSE
  OBVIOUS
<1>3. qi \in Int /\ qj \in Int
  OBVIOUS
<1>4. j - i = n * (qj - qi)
  <2> HIDE DEF qi, qj
  <2> QED BY <1>1, <1>2, <1>3, SMT
<1>5. CASE qj - qi <= 0
  <2> HIDE DEF qi, qj
  <2> QED BY <1>3, <1>4, <1>5, SMT
<1>6. CASE qj - qi >= 1
  <2> HIDE DEF qi, qj
  <2> QED BY <1>3, <1>4, <1>6, SMT
<1> QED
  BY <1>3, <1>5, <1>6

\* Adding a multiple of n to a remainder leaves the remainder.
LEMMA ModUnique ==
    ASSUME NEW n \in Nat \ {0}, NEW x \in 0 .. n - 1, NEW m \in Int
    PROVE  (x + n * m) % n = x
<1> DEFINE y == x + n * m
           q == y \div n
           r == y % n
<1>1. n * m \in Int /\ y \in Int
  BY SMT
<1>2. q \in Int /\ r \in 0 .. n - 1 /\ y = n * q + r
  BY <1>1
<1>3. n * (m - q) = r - x
  <2> HIDE DEF q, r
  <2> QED BY <1>2, SMT
<1>4. CASE m - q <= 0 - 1
  <2> HIDE DEF q, r
  <2> QED BY <1>2, <1>3, <1>4, SMT
<1>5. CASE m - q >= 1
  <2> HIDE DEF q, r
  <2> QED BY <1>2, <1>3, <1>5, SMT
<1>6. CASE m - q = 0
  <2> HIDE DEF q, r
  <2> QED BY <1>2, <1>3, <1>6, SMT
<1>7. r = x
  BY <1>2, <1>4, <1>5, <1>6
<1> QED BY <1>7

\* The distance of a cell from another, around the ring.
LEMMA ModDistance ==
    ASSUME NEW n \in Nat \ {0}, NEW i \in Nat, NEW w \in Nat, NEW x \in 0 .. n - 1,
           x = i - w \/ x = i - w + n
    PROVE  ((i % n) - w) % n = x
<1> DEFINE q == i \div n
<1>1. q \in Int /\ i % n \in Int /\ i = n * q + (i % n)
  OBVIOUS
<1> HIDE DEF q
<1>2. CASE x = i - w
  <2>1. PICK z : z = 0 - q
    OBVIOUS
  <2>2. z \in Int /\ (i % n) - w = x + n * z
    BY <1>1, <1>2, <2>1, SMT
  <2>3. (x + n * z) % n = x
    BY <2>2, ModUnique
  <2> QED BY <2>2, <2>3
<1>3. CASE x = i - w + n
  <2>1. PICK z : z = 0 - (q + 1)
    OBVIOUS
  <2>2. z \in Int /\ q = 0 - z - 1
    BY <1>1, <2>1
  <2>3. n * (0 - z - 1) = 0 - n * z - n
    BY <2>2, SMT
  <2>4. PICK p, r : p = n * z /\ r = i % n
    OBVIOUS
  <2>5. p \in Int /\ r \in Int
    BY <1>1, <2>2, <2>4, SMT
  <2>6. i = 0 - p - n + r
    BY <1>1, <2>2, <2>3, <2>4
  <2>7. r - w = x + p
    BY <1>3, <2>5, <2>6
  <2>8. (x + n * z) % n = x
    BY <2>2, ModUnique
  <2> QED BY <2>4, <2>7, <2>8
<1> QED BY <1>2, <1>3

\* A set of natural numbers has a least one.
LEMMA Least ==
    ASSUME NEW I, I \subseteq Nat, I # {}
    PROVE  \E x \in I : \A y \in I : x <= y
<1>1. PICK x \in I : \A y \in I : ~ (<<y, x>> \in OpToRel(<, Nat))
  BY NatLessThanWellFounded, WFMin
<1>2. \A y \in I : ~(y < x)
  BY <1>1 DEF OpToRel
<1>3. \A y \in I : x <= y
  BY <1>2
<1> QED BY <1>1, <1>3

=============================================================================
