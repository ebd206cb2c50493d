-------------------------- MODULE ChainPlayerProofs --------------------------
(***************************************************************************)
(* Theorems about PatternChain and ChainPlayer, for every chain, length of *)
(* its patterns, commit of the machine and number of others' selections.   *)
(***************************************************************************)
EXTENDS ChainPlayer, RingArithmetic, TLAPS

----------------------------------------------------------------------------
(* The passes of a chain.                                                  *)

\* The quotient and the rest of a division are the only ones.
LEMMA Quotient ==
    ASSUME NEW n \in Nat \ {0}, NEW q \in Nat, NEW r \in 0 .. n - 1
    PROVE  (q * n + r) \div n = q /\ (q * n + r) % n = r
<1> DEFINE y == q * n + r
           d == y \div n
<1>1. q * n \in Int /\ n * q \in Int /\ q * n = n * q
  BY SMT
<1>2. (r + n * q) % n = r
  BY ModUnique
<1>3. y \in Int /\ y = r + n * q
  BY <1>1
<1>4. y % n = r
  BY <1>2, <1>3
<1>5. d \in Int /\ y = n * d + (y % n)
  BY <1>3
<1> HIDE DEF y, d
<1>6. n * d = n * q
  <2>1. n * d \in Int
    BY <1>5, SMT
  <2> QED BY <1>1, <1>3, <1>4, <1>5, <2>1
<1>7. d = q
  <2>1. n * (d - q) = 0
    BY <1>5, <1>6, SMT
  <2>2. d - q >= 1 => FALSE
    BY <1>5, <2>1, SMT
  <2>3. q - d >= 1 => FALSE
    BY <1>5, <1>6, SMT
  <2> QED BY <1>5, <2>2, <2>3
<1> QED BY <1>4, <1>7 DEF y, d

\* A division's quotient and rest.
LEMMA Division ==
    ASSUME NEW n \in Nat \ {0}, NEW y \in Nat
    PROVE  y \div n \in Nat /\ y % n \in 0 .. n - 1 /\ y = n * (y \div n) + (y % n)
<1>1. PICK q, r : q = y \div n /\ r = y % n
  OBVIOUS
<1>2. q \in Int /\ r \in 0 .. n - 1 /\ y = n * q + r
  BY <1>1
<1>3. ~(q <= 0 - 1)
  BY <1>2, SMT
<1> QED BY <1>1, <1>2, <1>3

\* Every entry of a playable chain lasts.
LEMMA EntryLasts ==
    ASSUME NEW c \in Seq(Entry), IsPlayable(c), NEW i \in DOMAIN c
    PROVE  /\ c[i].pattern \in Patterns /\ c[i].passes \in Nat \ {0}
           /\ PassTicks(c[i].pattern) \in Nat \ {0}
           /\ EntryTicks(c, i) = PassTicks(c[i].pattern) * c[i].passes
           /\ EntryTicks(c, i) \in Nat \ {0}
<1>1. c[i] \in Entry
  OBVIOUS
<1>2. c[i].pattern \in Patterns /\ c[i].passes \in Nat \ {0}
  BY <1>1 DEF Entry
<1>3. Length[c[i].pattern] \in Nat \ {0}
  BY <1>2, LengthAssumption DEF IsPlayable
<1>4. PICK l, t : l = Length[c[i].pattern] /\ t = TicksPerStep
  OBVIOUS
<1>5. l \in Nat \ {0} /\ t \in Nat \ {0}
  BY <1>3, <1>4, TicksAssumption
<1>6. l * t \in Nat \ {0}
  BY <1>5, SMT
<1>7. PICK k, p : k = PassTicks(c[i].pattern) /\ p = c[i].passes
  OBVIOUS
<1>8. k \in Nat \ {0} /\ p \in Nat \ {0}
  BY <1>2, <1>4, <1>6, <1>7 DEF PassTicks
<1>9. k * p \in Nat \ {0}
  BY <1>8, SMT
<1> QED BY <1>2, <1>7, <1>8, <1>9 DEF EntryTicks

\* The starts of the entries are what their recursion says.
LEMMA StartsRecursion ==
    ASSUME NEW c \in Seq(Entry), IsPlayable(c)
    PROVE  EntryStart(c) = [i \in 1 .. Len(c) + 1 |->
                IF i = 1 THEN 0 ELSE EntryStart(c)[i - 1] + EntryTicks(c, i - 1)]
<1> DEFINE Good(f, m) == f = [i \in 1 .. m |->
                IF i = 1 THEN 0 ELSE f[i - 1] + EntryTicks(c, i - 1)]
           Bad == {m \in Nat \ {0} : ~ \E f : Good(f, m)}
<1>1. Bad = {}
  <2> SUFFICES ASSUME Bad # {} PROVE FALSE
    OBVIOUS
  <2>1. Bad \subseteq Nat
    OBVIOUS
  <2>2. PICK m \in Bad : \A y \in Bad : m <= y
    BY <2>1, Least
  <2>3. CASE m = 1
    <3>1. Good([i \in 1 .. 1 |-> 0], 1)
      OBVIOUS
    <3> QED BY <2>3, <3>1
  <2>4. CASE m # 1
    <3>1. m - 1 \in Nat \ {0} /\ m - 1 \notin Bad
      <4>1. m \in Nat \ {0}
        OBVIOUS
      <4>2. m - 1 \in Nat \ {0} /\ ~(m <= m - 1)
        BY <2>4, <4>1
      <4> HIDE DEF Bad
      <4> QED BY <2>2, <4>2
    <3>2. PICK f : Good(f, m - 1)
      BY <3>1
    <3> DEFINE g == [i \in 1 .. m |-> IF i = 1 THEN 0 ELSE f[i - 1] + EntryTicks(c, i - 1)]
    <3>3. \A i \in 1 .. m - 1 : g[i] = f[i]
      BY <3>1, <3>2
    <3>4. Good(g, m)
      <4>1. \A i \in 1 .. m : i # 1 => g[i - 1] = f[i - 1]
        <5> HIDE DEF g
        <5> QED BY <3>1, <3>3
      <4>2. \A i \in 1 .. m : (IF i = 1 THEN 0 ELSE f[i - 1] + EntryTicks(c, i - 1))
                             = (IF i = 1 THEN 0 ELSE g[i - 1] + EntryTicks(c, i - 1))
        <5> HIDE DEF g
        <5> QED BY <4>1
      <4>3. PICK h : h = g
        OBVIOUS
      <4>4. h = [i \in 1 .. m |-> IF i = 1 THEN 0 ELSE h[i - 1] + EntryTicks(c, i - 1)]
        BY <4>2, <4>3
      <4> QED BY <4>3, <4>4
    <3> QED BY <3>4
  <2> QED BY <2>3, <2>4
<1>2. Len(c) + 1 \in Nat \ {0}
  OBVIOUS
<1>3. \E f : Good(f, Len(c) + 1)
  BY <1>1, <1>2
<1>4. Good(CHOOSE f : Good(f, Len(c) + 1), Len(c) + 1)
  BY <1>3
<1> QED BY <1>4 DEF EntryStart

\* They begin with the round and follow each other.
LEMMA StartsFollow ==
    ASSUME NEW c \in Seq(Entry), IsPlayable(c)
    PROVE  /\ EntryStart(c)[1] = 0
           /\ \A i \in 1 .. Len(c) : EntryStart(c)[i + 1] = EntryStart(c)[i] + EntryTicks(c, i)
<1>1. Len(c) \in Nat /\ 1 \in 1 .. Len(c) + 1
  OBVIOUS
<1>2. PICK f : f = EntryStart(c)
  OBVIOUS
<1>3. \A i \in 1 .. Len(c) + 1 : f[i] = IF i = 1 THEN 0 ELSE f[i - 1] + EntryTicks(c, i - 1)
  BY <1>2, StartsRecursion
<1>4. \A i \in 1 .. Len(c) : i + 1 \in 1 .. Len(c) + 1 /\ i + 1 # 1 /\ (i + 1) - 1 = i
  BY <1>1
<1>5. \A i \in 1 .. Len(c) : f[i + 1] = f[i] + EntryTicks(c, i)
  BY <1>3, <1>4
<1> QED BY <1>1, <1>2, <1>3, <1>5

LEMMA StartsType ==
    ASSUME NEW c \in Seq(Entry), IsPlayable(c)
    PROVE  \A i \in 1 .. Len(c) + 1 : EntryStart(c)[i] \in Nat
<1>1. PICK f, l : f = EntryStart(c) /\ l = Len(c)
  OBVIOUS
<1>2. l \in Nat /\ f[1] = 0
  BY <1>1, StartsFollow
<1>3. \A i \in 1 .. l : EntryTicks(c, i) \in Nat
  BY <1>1, EntryLasts
<1>4. \A i \in 1 .. l : f[i] \in Nat => f[i + 1] \in Nat
  BY <1>1, <1>3, StartsFollow
<1> DEFINE Bad == {i \in 1 .. l + 1 : f[i] \notin Nat}
<1>5. Bad = {}
  <2> SUFFICES ASSUME Bad # {} PROVE FALSE
    OBVIOUS
  <2>1. Bad \subseteq Nat
    OBVIOUS
  <2>2. PICK m \in Bad : \A y \in Bad : m <= y
    BY <2>1, Least
  <2>3. m \in 1 .. l + 1 /\ f[m] \notin Nat
    OBVIOUS
  <2>4. m # 1 /\ m - 1 \in 1 .. l /\ (m - 1) + 1 = m /\ ~(m <= m - 1)
    BY <1>2, <2>3
  <2>5. f[m - 1] \notin Nat
    BY <1>4, <2>3, <2>4
  <2>6. m - 1 \in 1 .. l + 1
    BY <1>2, <2>4
  <2> QED BY <2>2, <2>4, <2>5, <2>6
<1> QED BY <1>1, <1>5

LEMMA StartsGrow ==
    ASSUME NEW c \in Seq(Entry), IsPlayable(c),
           NEW i \in 1 .. Len(c) + 1, NEW j \in 1 .. Len(c) + 1, i <= j
    PROVE  EntryStart(c)[i] <= EntryStart(c)[j]
<1>1. PICK f, l : f = EntryStart(c) /\ l = Len(c)
  OBVIOUS
<1>2. l \in Nat /\ \A k \in 1 .. l + 1 : f[k] \in Nat
  BY <1>1, StartsType
<1>3. \A k \in 1 .. l : k \in 1 .. l + 1 /\ k + 1 \in 1 .. l + 1
  BY <1>2
<1>4. \A k \in 1 .. l : f[k] <= f[k + 1]
  <2> SUFFICES ASSUME NEW k \in 1 .. l PROVE f[k] <= f[k + 1]
    OBVIOUS
  <2>1. EntryTicks(c, k) \in Nat /\ f[k + 1] = f[k] + EntryTicks(c, k)
    BY <1>1, StartsFollow, EntryLasts
  <2> QED BY <1>2, <1>3, <2>1
<1> DEFINE Bad == {k \in 1 .. l + 1 : i <= k /\ ~(f[i] <= f[k])}
<1>5. Bad = {}
  <2> SUFFICES ASSUME Bad # {} PROVE FALSE
    OBVIOUS
  <2>1. Bad \subseteq Nat
    OBVIOUS
  <2>2. PICK m \in Bad : \A y \in Bad : m <= y
    BY <2>1, Least
  <2>3. m \in 1 .. l + 1 /\ i <= m /\ ~(f[i] <= f[m])
    OBVIOUS
  <2>4. i \in 1 .. l + 1 /\ f[i] \in Nat /\ f[m] \in Nat
    BY <1>1, <1>2, <2>3
  <2>5. m # i
    BY <2>3, <2>4
  <2>6. m - 1 \in 1 .. l /\ (m - 1) + 1 = m /\ i <= m - 1 /\ ~(m <= m - 1) /\ m - 1 \in 1 .. l + 1
    BY <1>2, <2>3, <2>4, <2>5
  <2>7. f[m - 1] <= f[m] /\ f[m - 1] \in Nat
    BY <1>2, <1>4, <2>6
  <2>8. ~(f[i] <= f[m - 1])
    BY <2>3, <2>4, <2>7
  <2> QED BY <2>2, <2>6, <2>8
<1> QED BY <1>1, <1>5

LEMMA RoundLasts ==
    ASSUME NEW c \in Seq(Entry), IsPlayable(c)
    PROVE  Len(c) \in Nat \ {0} /\ RoundTicks(c) \in Nat \ {0}
<1>1. Len(c) \in Nat \ {0}
  BY DEF IsPlayable
<1>2. /\ 1 \in 1 .. Len(c) /\ 2 \in 1 .. Len(c) + 1 /\ Len(c) + 1 \in 1 .. Len(c) + 1
      /\ 2 <= Len(c) + 1 /\ 1 + 1 = 2
  BY <1>1
<1>3. EntryStart(c)[2] <= EntryStart(c)[Len(c) + 1]
  BY <1>2, StartsGrow
<1>4. EntryStart(c)[1 + 1] = EntryStart(c)[1] + EntryTicks(c, 1) /\ EntryStart(c)[1] = 0
  BY <1>2, StartsFollow
<1>5. EntryTicks(c, 1) \in Nat \ {0}
  BY <1>2, EntryLasts
<1>6. EntryStart(c)[2] \in Nat /\ EntryStart(c)[Len(c) + 1] \in Nat
  BY <1>2, StartsType
<1>7. EntryStart(c)[2] = EntryTicks(c, 1)
  BY <1>2, <1>4, <1>5
<1> QED BY <1>1, <1>3, <1>5, <1>6, <1>7 DEF RoundTicks

----------------------------------------------------------------------------
(* The pass at a tick.                                                     *)

\* Tick t is in pass n of entry i of round k.
First(c, k, i) == k * RoundTicks(c) + EntryStart(c)[i]
Begins(c, k, i, n) == First(c, k, i) + n * PassTicks(c[i].pattern)
In(c, k, i, n, t) ==
    /\ k \in Nat /\ i \in DOMAIN c /\ n \in Nat /\ n < c[i].passes
    /\ Begins(c, k, i, n) <= t /\ t < Begins(c, k, i, n) + PassTicks(c[i].pattern)

LEMMA BeginsType ==
    ASSUME NEW c \in Seq(Entry), IsPlayable(c), NEW k \in Nat, NEW i \in DOMAIN c, NEW n \in Nat
    PROVE  First(c, k, i) \in Nat /\ Begins(c, k, i, n) \in Nat
<1>1. RoundTicks(c) \in Nat /\ EntryStart(c)[i] \in Nat /\ PassTicks(c[i].pattern) \in Nat
  BY RoundLasts, StartsType, EntryLasts
<1>2. \A x, y \in Nat : x * y \in Nat
  BY SMT
<1>3. k * RoundTicks(c) \in Nat /\ n * PassTicks(c[i].pattern) \in Nat
  BY <1>1, <1>2
<1>4. PICK a, b, f : /\ a = k * RoundTicks(c) /\ b = n * PassTicks(c[i].pattern)
                     /\ f = EntryStart(c)[i]
  OBVIOUS
<1>5. a + f \in Nat /\ (a + f) + b \in Nat
  <2>1. a \in Nat /\ b \in Nat /\ f \in Nat
    BY <1>1, <1>3, <1>4
  <2> QED BY <2>1
<1>6. First(c, k, i) = a + f
  BY <1>4 DEF First
<1>7. Begins(c, k, i, n) = (a + f) + b
  BY <1>4, <1>6 DEF Begins
<1> QED BY <1>5, <1>6, <1>7

\* The passes of an entry are within it, and the entry within its round.
LEMMA InBounds ==
    ASSUME NEW c \in Seq(Entry), IsPlayable(c), NEW t \in Nat, NEW k, NEW i, NEW n,
           In(c, k, i, n, t)
    PROVE  /\ First(c, k, i) <= t /\ t < First(c, k, i) + EntryTicks(c, i)
           /\ First(c, k, i) + EntryTicks(c, i) <= k * RoundTicks(c) + RoundTicks(c)
           /\ k * RoundTicks(c) <= First(c, k, i)
<1>1. k \in Nat /\ i \in 1 .. Len(c) /\ n \in Nat /\ i \in DOMAIN c
  BY DEF In
<1>2. PICK T, p, s : T = PassTicks(c[i].pattern) /\ p = c[i].passes /\ s = First(c, k, i)
  OBVIOUS
<1>3. T \in Nat \ {0} /\ p \in Nat \ {0} /\ s \in Nat /\ EntryTicks(c, i) = T * p
  BY <1>1, <1>2, EntryLasts, BeginsType
<1>4. n < p /\ s + n * T <= t /\ t < s + n * T + T
  BY <1>2 DEF In, Begins
<1>5. n * T \in Nat /\ n * T + T <= T * p
  <2>1. n + 1 <= p
    BY <1>1, <1>3, <1>4
  <2>2. \A x, y, z \in Nat : x <= y => x * z <= z * y
    BY SMT
  <2>3. (n + 1) * T <= T * p
    BY <1>1, <1>3, <2>1, <2>2
  <2>4. n * T \in Nat /\ (n + 1) * T = n * T + T
    BY <1>1, <1>3, SMT
  <2> QED BY <2>3, <2>4
<1>6. T * p \in Nat
  BY <1>3, SMT
<1>7. PICK a, b : a = n * T /\ b = T * p
  OBVIOUS
<1>8. s <= t /\ t < s + b
  BY <1>3, <1>4, <1>5, <1>6, <1>7
<1>9. s = k * RoundTicks(c) + EntryStart(c)[i]
  BY <1>2 DEF First
<1>10. /\ EntryStart(c)[i + 1] = EntryStart(c)[i] + EntryTicks(c, i)
       /\ EntryStart(c)[i] \in Nat /\ EntryStart(c)[i + 1] \in Nat
       /\ EntryStart(c)[i + 1] <= RoundTicks(c) /\ RoundTicks(c) \in Nat
  <2>1. i + 1 \in 1 .. Len(c) + 1 /\ Len(c) + 1 \in 1 .. Len(c) + 1 /\ i + 1 <= Len(c) + 1
        /\ i \in 1 .. Len(c) + 1
    BY <1>1
  <2> QED BY <1>1, <2>1, StartsFollow, StartsType, StartsGrow, RoundLasts DEF RoundTicks
<1>11. k * RoundTicks(c) \in Nat
  BY <1>1, <1>10, SMT
<1>12. s + EntryTicks(c, i) <= k * RoundTicks(c) + RoundTicks(c) /\ k * RoundTicks(c) <= s
  <2>1. PICK e, r, f, g, h : /\ e = EntryTicks(c, i) /\ r = k * RoundTicks(c)
                             /\ f = EntryStart(c)[i] /\ g = RoundTicks(c)
                             /\ h = EntryStart(c)[i + 1]
    OBVIOUS
  <2>2. e \in Nat /\ r \in Nat /\ f \in Nat /\ g \in Nat /\ h \in Nat
    BY <1>3, <1>6, <1>10, <1>11, <2>1
  <2>3. s = r + f /\ h = f + e /\ h <= g
    BY <1>9, <1>10, <2>1
  <2>4. s + e <= r + g /\ r <= s
    BY <2>2, <2>3
  <2> QED BY <2>1, <2>4
<1> QED BY <1>2, <1>3, <1>7, <1>8, <1>12

\* passAt finds that pass.
LEMMA PassFound ==
    ASSUME NEW c \in Seq(Entry), IsPlayable(c), NEW t \in Nat, NEW k, NEW i, NEW n,
           In(c, k, i, n, t)
    PROVE  PassAt(c, t) = MkPass(i, n, Begins(c, k, i, n), c[i].pattern)
<1>1. k \in Nat /\ i \in 1 .. Len(c) /\ n \in Nat /\ i \in DOMAIN c
  BY DEF In
<1>2. PICK r, s, f : r = RoundTicks(c) /\ s = k * r /\ f = EntryStart(c)
  OBVIOUS
<1>3. r \in Nat \ {0} /\ \A j \in 1 .. Len(c) + 1 : f[j] \in Nat
  BY <1>2, RoundLasts, StartsType
<1>4. s \in Nat
  BY <1>1, <1>2, <1>3, SMT
<1>5. First(c, k, i) = s + f[i]
  BY <1>2 DEF First
<1>6. \A j \in 1 .. Len(c) : /\ f[j + 1] = f[j] + EntryTicks(c, j)
                             /\ EntryTicks(c, j) \in Nat \ {0}
                             /\ j \in 1 .. Len(c) + 1 /\ j + 1 \in 1 .. Len(c) + 1
                             /\ f[j] \in Nat
  <2>1. \A j \in 1 .. Len(c) : EntryTicks(c, j) \in Nat \ {0}
    BY EntryLasts
  <2>2. \A j \in 1 .. Len(c) : j \in 1 .. Len(c) + 1 /\ j + 1 \in 1 .. Len(c) + 1
    OBVIOUS
  <2> QED BY <1>2, <1>3, <2>1, <2>2, StartsFollow
<1>7. s + f[i] <= t /\ t < s + f[i] + EntryTicks(c, i) /\ t < s + r /\ s <= t
  <2>1. /\ First(c, k, i) <= t /\ t < First(c, k, i) + EntryTicks(c, i)
        /\ First(c, k, i) + EntryTicks(c, i) <= s + r /\ s <= First(c, k, i)
    BY <1>2, InBounds
  <2>2. f[i] \in Nat /\ EntryTicks(c, i) \in Nat
    BY <1>1, <1>6
  <2> QED BY <1>3, <1>4, <1>5, <2>1, <2>2
<1>8. t % r = t - s
  <2>1. t - s \in 0 .. r - 1
    BY <1>3, <1>4, <1>7
  <2>2. (k * r + (t - s)) % r = t - s
    BY <1>1, <1>3, <2>1, Quotient
  <2>3. s + (t - s) = t
    BY <1>4
  <2> QED BY <1>2, <2>2, <2>3
<1>9. t - (t % r) = s
  BY <1>4, <1>8
<1> DEFINE Falls(j) == s + f[j] <= t /\ t < s + f[j] + EntryTicks(c, j)
<1>10. \A j \in DOMAIN c : Falls(j) => j = i
  <2> SUFFICES ASSUME NEW j \in 1 .. Len(c), Falls(j), j # i PROVE FALSE
    OBVIOUS
  <2>1. f[j] \in Nat /\ f[i] \in Nat /\ EntryTicks(c, j) \in Nat /\ EntryTicks(c, i) \in Nat
        /\ f[j + 1] \in Nat /\ f[i + 1] \in Nat
    BY <1>1, <1>3, <1>6
  <2>2. CASE j < i
    <3>1. j + 1 <= i
      BY <1>1, <2>2
    <3>2. f[j + 1] <= f[i]
      BY <1>1, <1>2, <1>6, <3>1, StartsGrow
    <3>3. t < s + f[j + 1]
      BY <1>4, <1>6, <2>1
    <3> QED BY <1>4, <1>7, <2>1, <3>2, <3>3
  <2>3. CASE i < j
    <3>1. i + 1 <= j
      BY <1>1, <2>3
    <3>2. f[i + 1] <= f[j]
      BY <1>1, <1>2, <1>6, <3>1, StartsGrow
    <3>3. t < s + f[i + 1]
      <4>1. PICK a, e : a = f[i] /\ e = EntryTicks(c, i)
        OBVIOUS
      <4>2. f[i + 1] = a + e /\ a \in Nat /\ e \in Nat /\ t < s + a + e
        BY <1>1, <1>6, <1>7, <2>1, <4>1
      <4> QED BY <1>4, <4>2
    <3> QED BY <1>4, <2>1, <3>2, <3>3
  <2> QED BY <1>1, <2>2, <2>3
<1>11. (CHOOSE j \in DOMAIN c : Falls(j)) = i
  <2>1. Falls(i)
    BY <1>7
  <2> HIDE DEF Falls
  <2> QED BY <1>1, <1>10, <2>1
<1>12. PICK T : T = PassTicks(c[i].pattern)
  OBVIOUS
<1>13. (t - (s + f[i])) \div T = n
  <2>1. T \in Nat \ {0} /\ f[i] \in Nat
    BY <1>1, <1>6, <1>12, EntryLasts
  <2>2. n * T \in Nat
    BY <1>1, <2>1, SMT
  <2>3. PICK y : y = t - (s + f[i]) - n * T
    OBVIOUS
  <2>4. PICK x, g : x = n * T /\ g = f[i]
    OBVIOUS
  <2>5. s + g + x <= t /\ t < s + g + x + T
    BY <1>5, <1>12, <2>4 DEF In, Begins
  <2>6. y \in 0 .. T - 1 /\ t - (s + g) = x + y
    <3>1. y = t - (s + g) - x /\ x \in Nat /\ g \in Nat
      BY <2>1, <2>2, <2>3, <2>4
    <3> QED BY <1>4, <2>1, <2>5, <3>1
  <2>7. (n * T + y) \div T = n
    BY <1>1, <2>1, <2>6, Quotient
  <2> QED BY <2>4, <2>6, <2>7
<1>14. Begins(c, k, i, n) = s + f[i] + n * T
  BY <1>5, <1>12 DEF Begins
<1> HIDE DEF Falls
<1>15. PassAt(c, t) = MkPass(i, n, s + f[i] + n * T, c[i].pattern)
  BY <1>2, <1>9, <1>11, <1>12, <1>13 DEF PassAt, Falls
<1> QED BY <1>14, <1>15

\* At every tick there is one.
LEMMA PassExists ==
    ASSUME NEW c \in Seq(Entry), IsPlayable(c), NEW t \in Nat
    PROVE  \E k, i, n : In(c, k, i, n, t)
<1>1. PICK r, k, x, f, l : /\ r = RoundTicks(c) /\ k = t \div r /\ x = t % r
                           /\ f = EntryStart(c) /\ l = Len(c)
  OBVIOUS
<1>2. r \in Nat \ {0} /\ l \in Nat \ {0} /\ \A j \in 1 .. l + 1 : f[j] \in Nat
  BY <1>1, RoundLasts, StartsType
<1>3. k \in Nat /\ x \in 0 .. r - 1 /\ t = r * k + x
  BY <1>1, <1>2, Division
<1>4. r * k = k * r /\ k * r \in Nat
  BY <1>2, <1>3, SMT
<1>5. f[l + 1] = r /\ f[1] = 0 /\ \A j \in 1 .. l : f[j + 1] = f[j] + EntryTicks(c, j)
  BY <1>1, StartsFollow DEF RoundTicks
<1> DEFINE Ends == {j \in 1 .. l : x < f[j + 1]}
<1>6. Ends \subseteq Nat /\ l \in Ends
  BY <1>2, <1>3, <1>5
<1>7. PICK i \in Ends : \A j \in Ends : i <= j
  BY <1>6, Least
<1>8. i \in 1 .. l /\ x < f[i + 1]
  OBVIOUS
<1>9. f[i] <= x /\ f[i] \in Nat /\ EntryTicks(c, i) \in Nat /\ x < f[i] + EntryTicks(c, i)
  <2>1. i = 1 => f[i] <= x
    BY <1>3, <1>5
  <2>2. ASSUME i # 1 PROVE f[i] <= x
    <3>1. i - 1 \in 1 .. l /\ ~(i <= i - 1) /\ (i - 1) + 1 = i
      BY <1>2, <1>8, <2>2
    <3>2. ~(x < f[i])
      BY <1>7, <3>1
    <3>3. f[i] \in Nat
      BY <1>2, <1>8
    <3> QED BY <1>3, <3>2, <3>3
  <2>3. f[i] \in Nat /\ EntryTicks(c, i) \in Nat
    BY <1>1, <1>2, <1>8, EntryLasts
  <2>4. f[i] <= x
    BY <2>1, <2>2
  <2> QED BY <1>5, <1>8, <2>3, <2>4
<1>10. PICK T, p : T = PassTicks(c[i].pattern) /\ p = c[i].passes
  OBVIOUS
<1>11. T \in Nat \ {0} /\ p \in Nat \ {0} /\ EntryTicks(c, i) = T * p
  BY <1>1, <1>8, <1>10, EntryLasts
<1>12. PICK y : y = x - f[i]
  OBVIOUS
<1>13. y \in Nat /\ y < T * p
  BY <1>3, <1>9, <1>11, <1>12
<1>14. PICK n, z : n = y \div T /\ z = y % T
  OBVIOUS
<1>15. n \in Nat /\ z \in 0 .. T - 1 /\ y = T * n + z
  BY <1>11, <1>13, <1>14, Division
<1>16. n < p
  <2>1. SUFFICES ASSUME p <= n PROVE FALSE
    BY <1>11, <1>15
  <2>2. \A a, b, d \in Nat : a <= b => d * a <= d * b
    BY SMT
  <2>3. T * p <= T * n
    BY <1>11, <1>15, <2>1, <2>2
  <2>4. T * n \in Nat /\ T * p \in Nat
    BY <1>11, <1>15, SMT
  <2>5. PICK a, b : a = T * n /\ b = T * p
    OBVIOUS
  <2> QED BY <1>13, <1>15, <2>3, <2>4, <2>5
<1>17. Begins(c, k, i, n) = k * r + f[i] + T * n
  <2>1. T * n = n * T
    BY <1>11, <1>15, SMT
  <2> QED BY <1>1, <1>10, <2>1 DEF Begins, First
<1>18. Begins(c, k, i, n) <= t /\ t < Begins(c, k, i, n) + T
  <2>1. PICK a, b : a = k * r /\ b = T * n
    OBVIOUS
  <2>2. a \in Nat /\ b \in Nat /\ t = a + x /\ x = f[i] + b + z
    <3>1. b \in Nat
      BY <1>11, <1>15, <2>1, SMT
    <3>2. y = b + z /\ y = x - f[i]
      BY <1>12, <1>15, <2>1
    <3>3. x = f[i] + b + z
      <4>1. PICK g : g = f[i]
        OBVIOUS
      <4>2. g \in Nat /\ x \in Nat /\ z \in Nat /\ x - g = b + z
        BY <1>3, <1>9, <1>15, <3>2, <4>1
      <4>3. x = g + b + z
        BY <3>1, <4>2
      <4> QED BY <4>1, <4>3
    <3>4. a \in Nat /\ t = a + x
      BY <1>3, <1>4, <2>1
    <3> QED BY <3>1, <3>3, <3>4
  <2>3. Begins(c, k, i, n) = a + f[i] + b
    BY <1>17, <2>1
  <2>4. PICK g, h : g = f[i] /\ h = Begins(c, k, i, n)
    OBVIOUS
  <2>5. /\ a \in Nat /\ b \in Nat /\ g \in Nat /\ z \in 0 .. T - 1 /\ T \in Nat
        /\ h = a + g + b /\ t = a + x /\ x = g + b + z
    BY <1>9, <1>11, <1>15, <2>2, <2>3, <2>4
  <2>6. h <= t /\ t < h + T
    BY <2>5
  <2> QED BY <2>4, <2>6
<1>19. In(c, k, i, n, t)
  BY <1>1, <1>3, <1>8, <1>10, <1>15, <1>16, <1>18 DEF In
<1> QED BY <1>19

\* The pass of a tick is of an entry of the chain, and the tick is in it.
LEMMA PassType ==
    ASSUME NEW c \in Seq(Entry), IsPlayable(c), NEW t \in Nat
    PROVE  LET pass == PassAt(c, t)
           IN  /\ pass.entry \in DOMAIN c /\ pass.pass \in Nat
               /\ pass.pattern = c[pass.entry].pattern /\ pass.pattern \in Patterns
               /\ pass.ticks = PassTicks(pass.pattern) /\ pass.ticks \in Nat \ {0}
               /\ pass.start \in Nat /\ pass.start <= t /\ t < End(pass)
               /\ Length[pass.pattern] # 0 /\ NextPass(c, pass).pattern \in Patterns
<1>1. PICK k, i, n : In(c, k, i, n, t)
  BY PassExists
<1>2. PassAt(c, t) = MkPass(i, n, Begins(c, k, i, n), c[i].pattern)
  BY <1>1, PassFound
<1>3. k \in Nat /\ i \in DOMAIN c /\ n \in Nat
  BY <1>1 DEF In
<1>4. PICK pass : pass = PassAt(c, t)
  OBVIOUS
<1>5. /\ pass.entry = i /\ pass.pass = n /\ pass.start = Begins(c, k, i, n)
      /\ pass.pattern = c[i].pattern /\ pass.ticks = PassTicks(c[i].pattern)
  BY <1>2, <1>4 DEF MkPass
<1>6. /\ pass.pattern \in Patterns /\ pass.ticks \in Nat \ {0} /\ Length[pass.pattern] # 0
      /\ pass.start \in Nat
  <2>1. pass.pattern \in Patterns /\ pass.ticks \in Nat \ {0}
    BY <1>3, <1>5, EntryLasts
  <2>2. Length[c[i].pattern] # 0
    BY <1>3 DEF IsPlayable
  <2>3. pass.start \in Nat
    BY <1>3, <1>5, BeginsType
  <2> QED BY <1>5, <2>1, <2>2, <2>3
<1>7. pass.start <= t /\ t < End(pass)
  BY <1>1, <1>5 DEF In, End
<1>8. NextPass(c, pass).pattern \in Patterns
  <2>1. CASE pass.pass + 1 < c[pass.entry].passes
    BY <1>6, <2>1 DEF NextPass, MkPass
  <2>2. CASE ~(pass.pass + 1 < c[pass.entry].passes)
    <3>1. (i % Len(c)) + 1 \in DOMAIN c
      BY <1>3, RoundLasts
    <3>2. c[(i % Len(c)) + 1].pattern \in Patterns
      BY <3>1, EntryLasts
    <3> QED BY <1>5, <2>2, <3>2 DEF NextPass, MkPass
  <2> QED BY <2>1, <2>2
<1> QED BY <1>3, <1>4, <1>5, <1>6, <1>7, <1>8

\* Within a pass it stays, and at its end the pass that next() names begins: passAt, computed
\* from the tick, and next, computed from the pass, agree for every chain
\* (mdpatternchain.cpp 50-80).
THEOREM PassesFollow ==
    ASSUME NEW c \in Seq(Entry), IsPlayable(c), NEW t \in Nat
    PROVE  LET pass == PassAt(c, t)
           IN  PassAt(c, t + 1) = IF t + 1 < End(pass) THEN pass ELSE NextPass(c, pass)
<1>1. PICK k, i, n : In(c, k, i, n, t)
  BY PassExists
<1>2. k \in Nat /\ i \in 1 .. Len(c) /\ i \in DOMAIN c /\ n \in Nat /\ n < c[i].passes
  BY <1>1 DEF In
<1>3. PICK b, T, p : b = Begins(c, k, i, n) /\ T = PassTicks(c[i].pattern) /\ p = c[i].passes
  OBVIOUS
<1>4. b \in Nat /\ T \in Nat \ {0} /\ p \in Nat \ {0} /\ b <= t /\ t < b + T /\ n < p
  BY <1>1, <1>2, <1>3, BeginsType, EntryLasts DEF In
<1>5. PICK pass : pass = PassAt(c, t)
  OBVIOUS
<1>6. pass = MkPass(i, n, b, c[i].pattern)
  BY <1>1, <1>3, <1>5, PassFound
<1>7. /\ pass.entry = i /\ pass.pass = n /\ pass.pattern = c[i].pattern /\ End(pass) = b + T
  BY <1>3, <1>6 DEF MkPass, End
<1>8. t + 1 \in Nat
  OBVIOUS
<1>9. CASE t + 1 < b + T
  <2>1. In(c, k, i, n, t + 1)
    BY <1>1, <1>3, <1>4, <1>9 DEF In
  <2>2. PassAt(c, t + 1) = pass
    BY <1>3, <1>6, <1>8, <2>1, PassFound
  <2> QED BY <1>5, <1>7, <1>9, <2>2
<1>10. CASE ~(t + 1 < b + T)
  <2>1. t + 1 = b + T
    BY <1>4, <1>10
  <2>2. PICK f, r : f = First(c, k, i) /\ r = RoundTicks(c)
    OBVIOUS
  <2>3. f \in Nat /\ r \in Nat \ {0} /\ b = f + n * T /\ n * T \in Nat /\ k * r \in Nat
    <3>1. f \in Nat /\ r \in Nat \ {0} /\ b = f + n * T
      BY <1>2, <1>3, <2>2, BeginsType, RoundLasts DEF Begins
    <3>2. n * T \in Nat /\ k * r \in Nat
      BY <1>2, <1>4, <3>1, SMT
    <3> QED BY <3>1, <3>2
  <2>4. CASE n + 1 < p
    <3>1. Begins(c, k, i, n + 1) = b + T
      <4>1. (n + 1) * T = n * T + T
        BY <1>2, <1>4, SMT
      <4>2. Begins(c, k, i, n + 1) = f + (n + 1) * T
        BY <1>3, <2>2 DEF Begins
      <4> QED BY <1>4, <2>3, <4>1, <4>2
    <3>2. In(c, k, i, n + 1, t + 1)
      <4>1. n + 1 \in Nat /\ n + 1 < c[i].passes
        BY <1>2, <1>3, <2>4
      <4>2. b + T <= t + 1 /\ t + 1 < (b + T) + T
        BY <1>4, <2>1
      <4> QED BY <1>2, <1>3, <3>1, <4>1, <4>2 DEF In
    <3>3. PassAt(c, t + 1) = MkPass(i, n + 1, b + T, c[i].pattern)
      BY <1>8, <3>1, <3>2, PassFound
    <3>4. NextPass(c, pass) = MkPass(i, n + 1, b + T, c[i].pattern)
      BY <1>3, <1>7, <2>4 DEF NextPass
    <3> QED BY <1>5, <1>7, <1>10, <3>3, <3>4
  <2>5. CASE ~(n + 1 < p)
    <3>1. n + 1 = p
      BY <1>2, <1>4, <2>5
    <3>2. f + EntryTicks(c, i) = b + T
      <4>1. T * p = n * T + T
        BY <1>2, <1>4, <3>1, SMT
      <4>2. EntryTicks(c, i) = T * p
        BY <1>2, <1>3, EntryLasts
      <4>3. PICK x, y : x = n * T /\ y = EntryTicks(c, i)
        OBVIOUS
      <4>4. x \in Nat /\ b = f + x
        BY <2>3, <4>3
      <4>5. y = x + T
        BY <4>1, <4>2, <4>3
      <4>6. f \in Nat /\ T \in Nat
        BY <1>4, <2>3
      <4>7. f + y = b + T
        BY <4>4, <4>5, <4>6
      <4> QED BY <4>3, <4>7
    <3>3. PICK j : j = (i % Len(c)) + 1
      OBVIOUS
    <3>4. \E m \in Nat : j \in DOMAIN c /\ First(c, m, j) = b + T
      <4>1. f = k * r + EntryStart(c)[i]
        BY <2>2 DEF First
      <4>2. EntryStart(c)[i + 1] = EntryStart(c)[i] + EntryTicks(c, i)
        BY <1>2, StartsFollow
      <4>3. EntryStart(c)[i] \in Nat /\ EntryTicks(c, i) \in Nat
        BY <1>2, StartsType, EntryLasts
      <4>4. PICK s, e, u : s = EntryStart(c)[i] /\ e = EntryTicks(c, i) /\ u = k * r
        OBVIOUS
      <4>5. u + (s + e) = b + T
        <5>1. f = u + s /\ f + e = b + T /\ u \in Nat /\ s \in Nat /\ e \in Nat
          BY <2>3, <3>2, <4>1, <4>3, <4>4
        <5> QED BY <5>1
      <4>6. EntryStart(c)[i + 1] = s + e
        BY <4>2, <4>4
      <4>7. CASE i < Len(c)
        <5>1. i % Len(c) = i
          BY <1>2, <4>7
        <5>2. j = i + 1 /\ j \in DOMAIN c
          BY <1>2, <3>3, <4>7, <5>1
        <5>3. First(c, k, j) = b + T
          BY <2>2, <4>4, <4>5, <4>6, <5>2 DEF First
        <5> QED BY <1>2, <5>2, <5>3
      <4>8. CASE ~(i < Len(c))
        <5>1. i = Len(c) /\ Len(c) \in Nat \ {0}
          BY <1>2, <4>8, RoundLasts
        <5>2. i % Len(c) = 0
          <6>1. (1 * Len(c) + 0) % Len(c) = 0
            BY <5>1, Quotient
          <6>2. 1 * Len(c) + 0 = Len(c)
            BY <5>1
          <6> QED BY <5>1, <6>1, <6>2
        <5>3. j = 1 /\ 1 \in DOMAIN c
          BY <3>3, <5>1, <5>2
        <5>4. r = s + e
          BY <2>2, <4>6, <5>1 DEF RoundTicks
        <5>5. First(c, k + 1, 1) = (k + 1) * r + 0
          BY <2>2, StartsFollow DEF First
        <5>6. (k + 1) * r = k * r + r
          BY <1>2, <2>3, SMT
        <5>7. First(c, k + 1, 1) = b + T
          BY <2>3, <4>4, <4>5, <5>4, <5>5, <5>6
        <5> QED BY <1>2, <5>3, <5>7
      <4> QED BY <4>7, <4>8
    <3>5. PICK m \in Nat : j \in DOMAIN c /\ First(c, m, j) = b + T
      BY <3>4
    <3>6. PassTicks(c[j].pattern) \in Nat \ {0} /\ c[j].passes \in Nat \ {0}
      BY <3>5, EntryLasts
    <3>7. Begins(c, m, j, 0) = b + T
      <4>1. 0 * PassTicks(c[j].pattern) = 0 /\ b + T \in Nat
        BY <1>4, <3>6
      <4> QED BY <3>5, <4>1 DEF Begins
    <3>8. In(c, m, j, 0, t + 1)
      <4>1. t + 1 < (b + T) + PassTicks(c[j].pattern) /\ b + T <= t + 1 /\ 0 < c[j].passes
        BY <1>4, <2>1, <3>6
      <4> QED BY <3>5, <3>7, <4>1 DEF In
    <3>9. PassAt(c, t + 1) = MkPass(j, 0, b + T, c[j].pattern)
      BY <1>8, <3>7, <3>8, PassFound
    <3>10. NextPass(c, pass) = MkPass(j, 0, b + T, c[j].pattern)
      BY <1>3, <1>7, <2>5, <3>3 DEF NextPass
    <3> QED BY <1>5, <1>7, <1>10, <3>9, <3>10
  <2> QED BY <2>4, <2>5
<1> QED BY <1>9, <1>10

----------------------------------------------------------------------------
(* The machine.                                                            *)

LEMMA MachineLasts == \A p \in Patterns : MachineTicks(p) \in Nat \ {0}
<1> SUFFICES ASSUME NEW p \in Patterns PROVE MachineTicks(p) \in Nat \ {0}
  OBVIOUS
<1>1. PICK x, y : x = Steps[p] /\ y = TicksPerStep
  OBVIOUS
<1>2. x \in Nat \ {0} /\ y \in Nat \ {0}
  BY <1>1, ChainsAssumption, TicksAssumption
<1>3. x * y \in Nat \ {0}
  BY <1>2, SMT
<1> QED BY <1>1, <1>3 DEF MachineTicks

\* A pattern of known length lasts as long in the machine as in the chain.
LEMMA LengthsAgree ==
    ASSUME NEW p \in Patterns, Length[p] # 0
    PROVE  MachineTicks(p) = PassTicks(p)
BY ChainsAssumption DEF MachineTicks, PassTicks

LEMMA StartPlaysType == \A m \in Machine : StartPlays(m) \in Patterns
BY DEF StartPlays, Machine, Known

LEMMA SelectedFields ==
    ASSUME NEW m \in Machine, NEW p \in Patterns
    PROVE  /\ Selected(m, p) \in Machine /\ StartPlays(Selected(m, p)) = p
           /\ Selected(m, p).playing = m.playing /\ Selected(m, p).position = m.position
           /\ m.playing => /\ Selected(m, p).pattern = m.pattern /\ Selected(m, p).asked = p
                           /\ Selected(m, p).committed = m.committed
           /\ ~m.playing => /\ Selected(m, p).pattern = p /\ Selected(m, p).asked = None
                            /\ Selected(m, p).committed = None
<1>1. None \in Known /\ p \in Known /\ p # None
  BY ChainsAssumption DEF Known
<1>2. CASE m.playing
  <2>1. Selected(m, p) = [m EXCEPT !.asked = p]
    BY <1>2 DEF Selected
  <2> QED BY <1>1, <1>2, <2>1 DEF Machine, StartPlays
<1>3. CASE ~m.playing
  <2>1. Selected(m, p) = [m EXCEPT !.pattern = p, !.asked = None, !.committed = None]
    BY <1>3 DEF Selected
  <2> QED BY <1>1, <1>3, <2>1 DEF Machine, StartPlays
<1> QED BY <1>2, <1>3

LEMMA StartedFields ==
    ASSUME NEW m \in Machine, NEW position \in Nat
    PROVE  /\ Started(m, position) \in Machine /\ Started(m, position).playing = TRUE
           /\ Started(m, position).pattern = StartPlays(m)
           /\ Started(m, position).asked = None /\ Started(m, position).committed = None
           /\ Started(m, position).position = position % MachineTicks(StartPlays(m))
<1>1. StartPlays(m) \in Patterns /\ MachineTicks(StartPlays(m)) \in Nat \ {0}
  BY StartPlaysType, MachineLasts
<1>2. position % MachineTicks(StartPlays(m)) \in Nat
  BY <1>1
<1> QED BY <1>1, <1>2 DEF Started, Machine, Known

\* A clock commits to what was asked for, plays the tick and switches at the end.
Commits(m) ==
    \/ m.position = MachineTicks(m.pattern) - CommitTicks
    \/ MachineTicks(m.pattern) <= CommitTicks /\ m.position = 0
Ends(m) == m.position + 1 = MachineTicks(m.pattern)
CommittedBy(m) == IF Commits(m) THEN m.asked ELSE m.committed

LEMMA ClockedFields ==
    ASSUME NEW m \in Machine
    PROVE  /\ Clocked(m) \in Machine /\ Clocked(m).playing = m.playing
           /\ Clocked(m).asked = IF Commits(m) THEN None ELSE m.asked
           /\ Clocked(m).committed = IF Ends(m) THEN None ELSE CommittedBy(m)
           /\ Clocked(m).pattern =
                IF Ends(m) /\ CommittedBy(m) # None THEN CommittedBy(m) ELSE m.pattern
           /\ Clocked(m).position = IF Ends(m) THEN 0 ELSE m.position + 1
<1> DEFINE n == IF Commits(m) THEN [m EXCEPT !.committed = m.asked, !.asked = None] ELSE m
<1>1. /\ n \in Machine /\ n.playing = m.playing /\ n.pattern = m.pattern
      /\ n.position = m.position /\ n.committed = CommittedBy(m)
      /\ n.asked = IF Commits(m) THEN None ELSE m.asked
  <2>1. CASE Commits(m)
    BY <2>1 DEF Machine, Known, CommittedBy
  <2>2. CASE ~Commits(m)
    BY <2>2 DEF CommittedBy
  <2> QED BY <2>1, <2>2
<1>2. Clocked(m) = IF ~Ends(m) THEN [n EXCEPT !.position = @ + 1]
                   ELSE [n EXCEPT !.position = 0, !.committed = None,
                         !.pattern = IF n.committed # None THEN n.committed ELSE @]
  BY <1>1 DEF Clocked, Ends, Commits
<1> HIDE DEF n
<1>3. n.position \in Nat /\ n.position + 1 \in Nat
  BY <1>1 DEF Machine
<1>4. CASE ~Ends(m)
  <2>1. PICK k : k = [n EXCEPT !.position = @ + 1]
    OBVIOUS
  <2>2. /\ k \in Machine /\ k.playing = n.playing /\ k.asked = n.asked
        /\ k.committed = n.committed /\ k.pattern = n.pattern /\ k.position = n.position + 1
    BY <1>1, <1>3, <2>1 DEF Machine
  <2>3. Clocked(m) = k
    BY <1>2, <1>4, <2>1
  <2>4. Clocked(m) \in Machine /\ Clocked(m).playing = m.playing
    BY <1>1, <2>2, <2>3
  <2>5. /\ Clocked(m).asked = IF Commits(m) THEN None ELSE m.asked
        /\ Clocked(m).committed = CommittedBy(m) /\ Clocked(m).pattern = m.pattern
        /\ Clocked(m).position = m.position + 1
    BY <1>1, <2>2, <2>3
  <2> QED BY <1>4, <2>4, <2>5
<1>5. CASE Ends(m)
  <2>1. PICK p : p = IF n.committed # None THEN n.committed ELSE n.pattern
    OBVIOUS
  <2>2. p \in Patterns
    BY <1>1, <2>1 DEF Machine, Known
  <2>3. PICK k : k = [n EXCEPT !.position = 0, !.committed = None, !.pattern = p]
    OBVIOUS
  <2>4. /\ k \in Machine /\ k.playing = n.playing /\ k.asked = n.asked
        /\ k.committed = None /\ k.pattern = p /\ k.position = 0
    BY <1>1, <2>2, <2>3 DEF Machine, Known
  <2>5. Clocked(m) = k
    BY <1>2, <1>5, <2>1, <2>3
  <2>6. Clocked(m) \in Machine /\ Clocked(m).playing = m.playing
    BY <1>1, <2>4, <2>5
  <2>7. /\ Clocked(m).asked = IF Commits(m) THEN None ELSE m.asked
        /\ Clocked(m).committed = None /\ Clocked(m).position = 0
        /\ Clocked(m).pattern = IF CommittedBy(m) # None THEN CommittedBy(m) ELSE m.pattern
    BY <1>1, <2>1, <2>4, <2>5
  <2> QED BY <1>5, <2>6, <2>7
<1> QED BY <1>4, <1>5

----------------------------------------------------------------------------
(* Types.                                                                  *)

LEMMA ChainType == TypeOK => chain \in Seq(Entry)
BY ChainsAssumption DEF TypeOK

LEMMA OutdatedType ==
    TypeOK => /\ Outdated \in {None} \cup [pattern : Patterns, fresh : BOOLEAN]
              /\ Outdated # None => ~Outdated.fresh
BY DEF TypeOK, Outdated

\* What preparing a start does to the machine.
LEMMA PreparedFields ==
    ASSUME TypeOK, NEW tick \in Nat
    PROVE  /\ Prepared(tick) \in Machine /\ Prepared(tick).playing = machine.playing
           /\ Prepares(tick) => /\ StartPlays(Prepared(tick)) = PassAt(chain, tick).pattern
                                /\ PassAt(chain, tick).pattern \in Patterns
                                /\ Follows
           /\ Prepares(tick) /\ ~machine.playing =>
                /\ Prepared(tick).asked = None /\ Prepared(tick).committed = None
           /\ ~Prepares(tick) => Prepared(tick) = machine
<1>1. machine \in Machine
  BY DEF TypeOK
<1>2. CASE Prepares(tick)
  <2>1. PassAt(chain, tick).pattern \in Patterns
    BY <1>2, ChainType, PassType DEF Prepares, Follows
  <2> QED BY <1>1, <1>2, <2>1, SelectedFields DEF Prepared, Prepares
<1>3. CASE ~Prepares(tick)
  BY <1>1, <1>3 DEF Prepared
<1> QED BY <1>2, <1>3

LEMMA MovedType == TypeOK => \A tick \in Nat : Moved(tick) \in Nat
<1> SUFFICES ASSUME TypeOK, NEW tick \in Nat PROVE Moved(tick) \in Nat
  OBVIOUS
<1>1. CASE Follows
  <2>1. PICK s : s = PassAt(chain, tick).start
    OBVIOUS
  <2>2. s \in Nat /\ s <= tick
    BY <1>1, <2>1, ChainType, PassType DEF Follows
  <2> QED BY <1>1, <2>1, <2>2 DEF Moved
<1> QED BY <1>1 DEF Moved

LEMMA StepTick == \A step \in Positions : step * TicksPerStep \in Nat
<1> SUFFICES ASSUME NEW step \in Positions PROVE step * TicksPerStep \in Nat
  OBVIOUS
<1>1. step \in Nat /\ TicksPerStep \in Nat
  BY ChainsAssumption, TicksAssumption
<1> QED BY <1>1, SMT

\* The pattern the machine plays once what the player asked for has taken over.
Expected == IF queued # None THEN queued ELSE current

\* The player's members after an action that prepares a start.
LEMMA PrepareType ==
    ASSUME TypeOK, NEW tick \in Nat, PrepareStart(tick)
    PROVE  startPattern' \in Known /\ misled' \in BOOLEAN
<1>1. Prepares(tick) => PassAt(chain, tick).pattern \in Patterns
  BY PreparedFields
<1>2. startPattern \in Known
  BY DEF TypeOK
<1>3. startPattern' = IF Prepares(tick) THEN PassAt(chain, tick).pattern ELSE startPattern
  BY DEF PrepareStart
<1>4. startPattern' \in Known
  BY <1>1, <1>2, <1>3 DEF Known
<1> QED BY <1>4 DEF PrepareStart, TypeOK

LEMMA InitType == Init => TypeOK
<1> SUFFICES ASSUME Init PROVE TypeOK
  OBVIOUS
<1>1. PICK p \in Patterns : machine = [playing |-> FALSE, pattern |-> p, asked |-> None,
                                     committed |-> None, position |-> 0]
  <2>1. machine = [playing |-> machine.playing, pattern |-> machine.pattern,
                   asked |-> machine.asked, committed |-> machine.committed,
                   position |-> machine.position]
    BY DEF Init
  <2>2. /\ machine.playing = FALSE /\ machine.pattern \in Patterns /\ machine.asked = None
        /\ machine.committed = None /\ machine.position = 0
    BY DEF Init
  <2> QED BY <2>1, <2>2
<1>2. machine \in Machine
  BY <1>1 DEF Machine, Known
<1> QED BY <1>2 DEF Init, TypeOK, Known

LEMMA StartType ==
    ASSUME TypeOK, Start
    PROVE  TypeOK'
<1>1. 0 \in Nat /\ PrepareStart(0) /\ StartedAt(0)
  BY DEF Start
<1>2. startPattern' \in Known /\ misled' \in BOOLEAN /\ Prepared(0) \in Machine
  BY <1>1, PrepareType, PreparedFields
<1>3. machine' \in Machine
  BY <1>2, StartedFields DEF Start
<1>4. answer' \in {None} \cup [pattern : Patterns, fresh : BOOLEAN]
  BY OutdatedType DEF Start
<1>5. inStep' \in BOOLEAN /\ host' = "playing" /\ songPosition' = 0
  BY DEF Start
<1> QED BY <1>1, <1>2, <1>3, <1>4, <1>5 DEF TypeOK, StartedAt, Known

LEMMA SongPositionType ==
    ASSUME TypeOK, NEW step \in Positions, SongPosition(step)
    PROVE  TypeOK'
<1>1. PICK tick : tick = step * TicksPerStep
  OBVIOUS
<1>2. tick \in Nat /\ PrepareStart(tick)
  BY <1>1, StepTick DEF SongPosition
<1>3. /\ startPattern' \in Known /\ misled' \in BOOLEAN /\ Prepared(tick) \in Machine
      /\ Moved(tick) \in Nat
  BY <1>2, PrepareType, PreparedFields, MovedType
<1>4. machine' = [Prepared(tick) EXCEPT !.position = Moved(tick)]
  BY <1>1 DEF SongPosition
<1>5. machine' \in Machine
  BY <1>3, <1>4 DEF Machine
<1>6. answer' \in {None} \cup [pattern : Patterns, fresh : BOOLEAN]
  BY OutdatedType DEF SongPosition, TypeOK
<1>7. /\ inStep' \in BOOLEAN /\ startFromQueue' \in BOOLEAN /\ songPosition' = tick
      /\ host' \in {"disturbed", "positioned"}
  BY <1>1 DEF SongPosition, TypeOK
<1>8. UNCHANGED <<chain, playing, nextTick, current, queued, queuedFrom, published, others>>
  BY DEF SongPosition
<1> QED BY <1>2, <1>3, <1>5, <1>6, <1>7, <1>8 DEF TypeOK

LEMMA ContinueType ==
    ASSUME TypeOK, Continue
    PROVE  TypeOK'
<1>1. machine' \in Machine
  <2>1. machine \in Machine /\ machine.position \in Nat
    BY DEF TypeOK, Machine
  <2> QED BY <2>1, StartedFields DEF Continue
<1>2. answer' \in {None} \cup [pattern : Patterns, fresh : BOOLEAN]
  BY OutdatedType DEF Continue
<1>3. inStep' \in BOOLEAN /\ host' = "playing" /\ StartedAt(songPosition)
  BY DEF Continue
<1>4. UNCHANGED <<startPattern, songPosition, misled>>
  BY DEF Continue
<1> QED BY <1>1, <1>2, <1>3, <1>4 DEF TypeOK, StartedAt, Known

LEMMA StopType ==
    ASSUME TypeOK, Stop
    PROVE  TypeOK'
<1>1. machine' \in Machine
  BY DEF Stop, TypeOK, Machine
<1>2. answer' \in {None} \cup [pattern : Patterns, fresh : BOOLEAN]
  BY OutdatedType DEF Stop
<1>3. startFromQueue' \in BOOLEAN /\ startPattern' \in Known /\ None \in Known
  BY DEF Stop, TypeOK, Known
<1>4. UNCHANGED <<chain, songPosition, nextTick, current, queuedFrom, others, inStep, misled>>
  BY DEF Stop
<1>5. playing' = FALSE /\ queued' = None /\ published' = None /\ host' = "stopped"
  BY DEF Stop
<1> QED BY <1>1, <1>2, <1>3, <1>4, <1>5 DEF TypeOK

----------------------------------------------------------------------------
(* A clock.                                                                *)

\* The names in Clock.
Pass == PassAt(chain, nextTick)
NextPattern == NextPass(chain, Pass).pattern
Asks ==
    /\ Follows
    /\ Expected # NextPattern /\ nextTick <= LastRequestTick(Pass)

LEMMA ClockIs ==
    Clock => /\ host = "playing" /\ nextTick < MaxTick /\ nextTick' = nextTick + 1
             /\ current' = IF TookOver THEN queued ELSE current
             /\ queued' = IF Asks THEN NextPattern ELSE IF TookOver THEN None ELSE queued
             /\ queuedFrom' = IF Asks THEN End(Pass) ELSE queuedFrom
             /\ published' = IF Follows THEN [entry |-> Pass.entry, pass |-> Pass.pass] ELSE None
             /\ machine' = IF Asks THEN Selected(Clocked(machine), NextPattern)
                           ELSE Clocked(machine)
             /\ inStep' = (inStep /\ (Follows /\ nextTick = Pass.start => ~TooLate(nextTick)))
             /\ UNCHANGED <<chain, playing, songPosition, startPattern, startFromQueue,
                            host, answer, others, misled>>
BY DEF Clock, Pass, NextPattern, Asks, Expected

LEMMA PassIs ==
    ASSUME TypeOK, Follows
    PROVE  /\ chain \in Seq(Entry) /\ IsPlayable(chain) /\ nextTick \in Nat
           /\ Pass.entry \in Nat /\ Pass.pass \in Nat /\ Pass.pattern \in Patterns
           /\ Pass.ticks = PassTicks(Pass.pattern) /\ Pass.ticks \in Nat \ {0}
           /\ Pass.start \in Nat /\ Pass.start <= nextTick /\ nextTick < End(Pass)
           /\ Length[Pass.pattern] # 0 /\ NextPattern \in Patterns /\ End(Pass) \in Nat
<1>1. chain \in Seq(Entry) /\ IsPlayable(chain) /\ nextTick \in Nat
  BY ChainType DEF Follows, TypeOK
<1>2. /\ Pass.entry \in DOMAIN chain /\ Pass.pass \in Nat /\ Pass.pattern \in Patterns
      /\ Pass.ticks = PassTicks(Pass.pattern) /\ Pass.ticks \in Nat \ {0}
      /\ Pass.start \in Nat /\ Pass.start <= nextTick /\ nextTick < End(Pass)
      /\ Length[Pass.pattern] # 0 /\ NextPattern \in Patterns
  BY <1>1, PassType DEF Pass, NextPattern
<1>3. Pass.entry \in Nat
  BY <1>1, <1>2
<1>4. End(Pass) \in Nat
  BY <1>2 DEF End
<1> QED BY <1>1, <1>2, <1>3, <1>4

LEMMA ClockType ==
    ASSUME TypeOK, Clock
    PROVE  TypeOK'
<1>1. Asks => Follows
  BY DEF Asks
<1>2. Clocked(machine) \in Machine
  BY ClockedFields DEF TypeOK
<1>3. machine' \in Machine
  BY <1>1, <1>2, ClockIs, PassIs, SelectedFields
<1>4. queued' \in Known /\ current' \in Known
  BY <1>1, ClockIs, PassIs DEF TypeOK, Known
<1>5. nextTick' \in Nat /\ queuedFrom' \in Nat
  BY <1>1, ClockIs, PassIs DEF TypeOK
<1>6. published' \in {None} \cup [entry : Nat, pass : Nat]
  BY ClockIs, PassIs
<1>7. inStep' \in BOOLEAN
  BY ClockIs DEF TypeOK
<1>8. UNCHANGED <<chain, playing, songPosition, startPattern, startFromQueue, host, answer,
                  others, misled>>
  BY ClockIs
<1> QED BY <1>3, <1>4, <1>5, <1>6, <1>7, <1>8 DEF TypeOK

----------------------------------------------------------------------------
(* Others.                                                                 *)

LEMMA SelectElsewhereType ==
    ASSUME TypeOK, NEW p \in Patterns, NEW seen \in Known, SelectElsewhere(p, seen)
    PROVE  TypeOK'
<1>1. machine' \in Machine
  BY SelectedFields DEF SelectElsewhere, TypeOK
<1>2. answer' \in {None} \cup [pattern : Patterns, fresh : BOOLEAN]
  BY OutdatedType DEF SelectElsewhere
<1>3. /\ host' \in {"stopped", "positioned", "disturbed", "playing"}
      /\ others' \in Nat
  BY DEF SelectElsewhere, TypeOK, OthersAct
<1>4. /\ current' \in Known /\ queued' \in Known /\ startPattern' \in Known
      /\ startFromQueue' \in BOOLEAN /\ inStep' \in BOOLEAN /\ misled' \in BOOLEAN
  <2>1. None \in Known
    BY DEF Known
  <2>2. CASE playing
    BY <2>1, <2>2 DEF SelectElsewhere, TypeOK
  <2>3. CASE ~playing
    BY <2>1, <2>3 DEF SelectElsewhere, TypeOK
  <2> QED BY <2>2, <2>3
<1>5. UNCHANGED <<chain, playing, songPosition, nextTick, queuedFrom, published>>
  BY DEF SelectElsewhere
<1> QED BY <1>1, <1>2, <1>3, <1>4, <1>5 DEF TypeOK

LEMMA PanelType ==
    ASSUME TypeOK, NEW p \in Patterns, SelectOnPanel(p)
    PROVE  TypeOK'
<1>1. machine' \in Machine
  BY SelectedFields DEF SelectOnPanel, TypeOK
<1>2. answer' \in {None} \cup [pattern : Patterns, fresh : BOOLEAN]
  BY OutdatedType DEF SelectOnPanel
<1>3. /\ host' \in {"stopped", "positioned", "disturbed", "playing"}
      /\ others' \in Nat /\ inStep' \in BOOLEAN /\ misled' = TRUE
      /\ UNCHANGED <<chain, playerVars>>
  BY DEF SelectOnPanel, TypeOK, OthersAct
<1> QED BY <1>1, <1>2, <1>3 DEF TypeOK, playerVars

LEMMA StatusType == \A m \in Machine : Status(m) \in Patterns
BY DEF Status, Machine, Known

LEMMA NextType == TypeOK /\ [Next]_vars => TypeOK'
<1> SUFFICES ASSUME TypeOK, [Next]_vars PROVE TypeOK'
  OBVIOUS
<1>1. CASE Start
  BY <1>1, StartType
<1>2. ASSUME NEW step \in Positions, SongPosition(step) PROVE TypeOK'
  BY <1>2, SongPositionType
<1>3. CASE Continue
  BY <1>3, ContinueType
<1>4. CASE Stop
  BY <1>4, StopType
<1>5. CASE Clock
  BY <1>5, ClockType
<1>6. ASSUME NEW p \in Patterns, SetStatus(p) \/ ProgramChange(p) PROVE TypeOK'
  <2>1. p \in Known /\ None \in Known
    BY DEF Known
  <2> QED BY <1>6, <2>1, SelectElsewhereType DEF SetStatus, ProgramChange
<1>7. ASSUME NEW p \in Patterns, SelectOnPanel(p) PROVE TypeOK'
  BY <1>7, PanelType
<1>8. CASE Answer
  <2>1. answer' = [pattern |-> Status(machine), fresh |-> TRUE]
        /\ Status(machine) \in Patterns
    BY <1>8, StatusType DEF Answer, TypeOK
  <2>2. answer' \in [pattern : Patterns, fresh : BOOLEAN]
    BY <2>1
  <2>3. UNCHANGED <<chain, playerVars, host, machine, others, inStep, misled>>
    BY <1>8 DEF Answer
  <2> QED BY <2>2, <2>3 DEF TypeOK, playerVars
<1>9. CASE Observe
  <2>1. answer \in [pattern : Patterns, fresh : BOOLEAN] /\ answer.pattern \in Known
    BY <1>9 DEF Observe, TypeOK, Known
  <2>2. startPattern' \in Known /\ misled' \in BOOLEAN
    BY <1>9, <2>1 DEF Observe, TypeOK
  <2>3. UNCHANGED <<chain, playing, songPosition, nextTick, startFromQueue, current, queued,
                    queuedFrom, published, host, machine, others, inStep>> /\ answer' = None
    BY <1>9 DEF Observe
  <2> QED BY <2>2, <2>3 DEF TypeOK
<1>10. ASSUME NEW c \in Chains, SetChain(c) PROVE TypeOK'
  <2>1. /\ host' \in {"stopped", "positioned", "disturbed", "playing"} /\ others' \in Nat
        /\ inStep' \in BOOLEAN /\ chain' \in Chains
    BY <1>10 DEF SetChain, TypeOK, OthersAct
  <2>2. UNCHANGED <<playerVars, machine, answer, misled>>
    BY <1>10 DEF SetChain
  <2> QED BY <2>1, <2>2 DEF TypeOK, playerVars
<1>11. CASE UNCHANGED vars
  BY <1>11 DEF vars, playerVars, TypeOK
<1> QED
  BY <1>1, <1>2, <1>3, <1>4, <1>5, <1>6, <1>7, <1>8, <1>9, <1>10, <1>11 DEF Next

\* Every reachable state is well typed (mdchainplayer.h 73-86).
THEOREM TypeCorrect == Spec => []TypeOK
<1>1. Init => TypeOK
  BY InitType
<1>2. TypeOK /\ [Next]_vars => TypeOK'
  BY NextType
<1> QED BY <1>1, <1>2, PTL DEF Spec

----------------------------------------------------------------------------
(* The invariant.                                                          *)

\* The machine runs with the player; what it has committed to is past its commit.
MachineInv ==
    /\ playing <=> host = "playing"
    /\ machine.playing <=> playing
    /\ playing /\ machine.committed # None =>
          machine.position > MachineTicks(machine.pattern) - CommitTicks /\ machine.position > 0

\* Unless it was misled, the player knows what the next start plays, running or not.
BeliefInv ==
    /\ playing /\ ~misled /\ Expected # None => StartPlays(machine) = Expected
    /\ StartBelief

\* Nothing waits in the machine that the player did not ask for and has not forgotten, and
\* a fresh answer at rest shows the pattern loaded.
RestInv ==
    /\ ~playing /\ inStep /\ ~startFromQueue => machine.asked = None /\ machine.committed = None
    /\ ~playing /\ answer # None => (answer.fresh => answer.pattern = machine.pattern)

\* A song position that nothing has disturbed: CONTINUE plays the chain's pass there.
PositionedInv ==
    host = "positioned" /\ Follows =>
        LET pass == PassAt(chain, songPosition)
        IN  /\ startPattern # None /\ StartPlays(machine) = pass.pattern
            /\ machine.position = songPosition - pass.start

\* Nothing waits: the pass's pattern plays and there is time to ask for the next, if the
\* player had its chance.
Settled(pass, next) ==
    /\ machine.asked = None /\ machine.committed = None
    /\ Expected = pass.pattern
    /\ queued # None => queuedFrom <= nextTick
    /\ nextTick = pass.start \/ next = pass.pattern \/ InTime(pass, nextTick)

\* The next pass's pattern was asked for in time.
Asked(pass, next) ==
    /\ next # pass.pattern /\ queued = next /\ queuedFrom = End(pass)
    /\ pass.ticks > CommitTicks
    /\ IF machine.position <= pass.ticks - CommitTicks
       THEN machine.asked = next /\ machine.committed = None
       ELSE machine.asked = None /\ machine.committed = next

InStepInv ==
    playing /\ inStep =>
        IF Follows
        THEN LET pass == PassAt(chain, nextTick)
                 next == NextPass(chain, pass).pattern
             IN  /\ machine.pattern = pass.pattern /\ machine.position = nextTick - pass.start
                 /\ Settled(pass, next) \/ Asked(pass, next)
        ELSE queued = None /\ machine.asked = None /\ machine.committed = None

PlayerInv ==
    TypeOK /\ MachineInv /\ BeliefInv /\ RestInv /\ PositionedInv /\ InStepInv

----------------------------------------------------------------------------
(* Starting and stopping.                                                  *)

LEMMA InitPlayer == Init => PlayerInv
<1> SUFFICES ASSUME Init PROVE PlayerInv
  OBVIOUS
<1>1. /\ machine.playing = FALSE /\ machine.asked = None /\ machine.committed = None
      /\ playing = FALSE /\ host = "stopped" /\ answer = None /\ startPattern = None
  BY DEF Init
<1>2. MachineInv /\ BeliefInv /\ PositionedInv /\ InStepInv
  BY <1>1 DEF MachineInv, BeliefInv, StartBelief, PositionedInv, InStepInv
<1>3. RestInv
  BY <1>1 DEF RestInv
<1> QED BY <1>2, <1>3, InitType DEF PlayerInv

\* Once a start is prepared, the machine plays what the player takes it to play.
LEMMA PrepareBelief ==
    ASSUME TypeOK, StartBelief, ~playing, NEW tick \in Nat, PrepareStart(tick)
    PROVE  /\ startPattern' # None /\ ~misled' => StartPlays(Prepared(tick)) = startPattern'
           /\ Follows => /\ startPattern' = PassAt(chain, tick).pattern
                         /\ startPattern' \in Patterns
<1>1. CASE Prepares(tick)
  <2>1. startPattern' = PassAt(chain, tick).pattern
    BY <1>1 DEF PrepareStart
  <2> QED BY <1>1, <2>1, PreparedFields
<1>2. CASE ~Prepares(tick)
  <2>1. startPattern' = startPattern /\ misled' = misled /\ Prepared(tick) = machine
    BY <1>2, PreparedFields DEF PrepareStart, TypeOK
  <2>2. Follows => startPattern = PassAt(chain, tick).pattern
    BY <1>2 DEF Prepares
  <2>3. Follows => PassAt(chain, tick).pattern \in Patterns
    BY ChainType, PassType DEF Follows
  <2> QED BY <2>1, <2>2, <2>3 DEF StartBelief
<1> QED BY <1>1, <1>2

\* The player and the machine start together.
LEMMA StartedPlayer ==
    ASSUME TypeOK, NEW m \in Machine, NEW position \in Nat, NEW tick \in Nat,
           machine' = Started(m, position), StartedAt(tick), host' = "playing",
           startPattern' # None /\ ~misled' => StartPlays(m) = startPattern',
           inStep' /\ Follows =>
                /\ StartPlays(m) = PassAt(chain, tick).pattern
                /\ startPattern' = PassAt(chain, tick).pattern
                /\ position = tick - PassAt(chain, tick).start
                /\ tick = PassAt(chain, tick).start \/ ~TooLate(tick)
    PROVE  MachineInv' /\ BeliefInv' /\ RestInv' /\ PositionedInv' /\ InStepInv'
<1>1. /\ machine'.playing = TRUE /\ machine'.pattern = StartPlays(m)
      /\ machine'.asked = None /\ machine'.committed = None
      /\ machine'.position = position % MachineTicks(StartPlays(m))
  BY StartedFields
<1>2. /\ playing' = TRUE /\ nextTick' = tick /\ current' = startPattern' /\ queued' = None
      /\ chain' = chain
  BY DEF StartedAt
<1>3. StartPlays(machine)' = StartPlays(m)
  BY <1>1 DEF StartPlays
<1>4. MachineInv'
  BY <1>1, <1>2 DEF MachineInv
<1>5. Expected' = startPattern'
  BY <1>2 DEF Expected
<1>6. BeliefInv'
  BY <1>2, <1>3, <1>5 DEF BeliefInv, StartBelief
<1>7. RestInv' /\ PositionedInv'
  BY <1>2 DEF RestInv, PositionedInv
<1>8. InStepInv'
  <2>1. CASE ~inStep'
    BY <2>1 DEF InStepInv
  <2>2. CASE inStep' /\ ~Follows
    <3>1. ~Follows'
      BY <1>2, <2>2 DEF Follows
    <3> QED BY <1>1, <1>2, <3>1 DEF InStepInv
  <2>3. CASE inStep' /\ Follows
    <3>1. PICK pass, next : pass = PassAt(chain, tick) /\ next = NextPass(chain, pass).pattern
      OBVIOUS
    <3>2. /\ pass.ticks = PassTicks(pass.pattern) /\ pass.start \in Nat /\ pass.start <= tick
          /\ tick < pass.start + pass.ticks /\ pass.ticks \in Nat \ {0}
          /\ Length[pass.pattern] # 0 /\ pass.pattern \in Patterns
      BY <2>3, <3>1, ChainType, PassType DEF Follows, End
    <3>3. MachineTicks(pass.pattern) = pass.ticks
      BY <3>2, LengthsAgree
    <3>4. machine'.position = tick - pass.start
      <4>1. tick - pass.start \in 0 .. pass.ticks - 1
        BY <3>2
      <4>2. (tick - pass.start) % pass.ticks = tick - pass.start
        BY <3>2, <4>1
      <4> QED BY <1>1, <2>3, <3>1, <3>3, <4>2
    <3>5. tick = pass.start \/ next = pass.pattern \/ InTime(pass, tick)
      BY <2>3, <3>1 DEF TooLate
    <3>6. Settled(pass, next)'
      BY <1>1, <1>2, <1>5, <2>3, <3>1, <3>5 DEF Settled, InTime, End
    <3>7. PassAt(chain, nextTick)' = pass /\ NextPass(chain, pass)'.pattern = next
      BY <1>2, <3>1
    <3> QED BY <1>1, <1>2, <2>3, <3>1, <3>4, <3>6, <3>7 DEF InStepInv, Follows
  <2> QED BY <2>1, <2>2, <2>3
<1> QED BY <1>4, <1>6, <1>7, <1>8

LEMMA StartPlayer ==
    ASSUME PlayerInv, Start
    PROVE  PlayerInv'
<1>1. /\ TypeOK /\ MachineInv /\ BeliefInv /\ StartBelief /\ ~playing /\ 0 \in Nat
      /\ PrepareStart(0) /\ StartedAt(0)
  BY DEF PlayerInv, Start, MachineInv, BeliefInv
<1>2. Prepared(0) \in Machine
  BY <1>1, PreparedFields
<1>3. inStep' => ~misled' /\ (Follows => ~TooLate(0))
  BY DEF Start
<1>4. inStep' /\ Follows => /\ StartPlays(Prepared(0)) = PassAt(chain, 0).pattern
                            /\ startPattern' = PassAt(chain, 0).pattern
                            /\ 0 = 0 - PassAt(chain, 0).start
                            /\ 0 = PassAt(chain, 0).start \/ ~TooLate(0)
  <2>1. Follows => PassAt(chain, 0).start = 0
    <3>1. PICK s : s = PassAt(chain, 0).start
      OBVIOUS
    <3>2. Follows => s \in Nat /\ s <= 0
      BY <1>1, <3>1, ChainType, PassType DEF Follows
    <3> QED BY <3>1, <3>2
  <2>2. startPattern' \in Patterns => startPattern' # None
    BY ChainsAssumption
  <2> QED BY <1>1, <1>3, <2>1, <2>2, PrepareBelief
<1>5. MachineInv' /\ BeliefInv' /\ RestInv' /\ PositionedInv' /\ InStepInv'
  <2>1. machine' = Started(Prepared(0), 0) /\ host' = "playing"
    BY DEF Start
  <2> QED BY <1>1, <1>2, <1>4, <2>1, PrepareBelief, StartedPlayer
<1> QED BY <1>1, <1>5, StartType DEF PlayerInv

LEMMA ContinuePlayer ==
    ASSUME PlayerInv, Continue
    PROVE  PlayerInv'
<1>1. /\ TypeOK /\ MachineInv /\ BeliefInv /\ StartBelief /\ PositionedInv /\ ~playing
      /\ StartedAt(songPosition) /\ songPosition \in Nat /\ machine \in Machine
      /\ machine.position \in Nat
  BY DEF PlayerInv, Continue, MachineInv, BeliefInv, TypeOK, Machine
<1>2. startPattern' = startPattern /\ misled' = misled
  BY DEF Continue
<1>3. inStep' => host = "positioned" /\ ~misled /\ (Follows => ~TooLate(songPosition))
  BY DEF Continue
<1>4. startPattern' # None /\ ~misled' => StartPlays(machine) = startPattern'
  BY <1>1, <1>2 DEF StartBelief
<1>5. inStep' /\ Follows =>
        /\ StartPlays(machine) = PassAt(chain, songPosition).pattern
        /\ startPattern' = PassAt(chain, songPosition).pattern
        /\ machine.position = songPosition - PassAt(chain, songPosition).start
        /\ songPosition = PassAt(chain, songPosition).start \/ ~TooLate(songPosition)
  BY <1>1, <1>2, <1>3, <1>4 DEF PositionedInv
<1>6. MachineInv' /\ BeliefInv' /\ RestInv' /\ PositionedInv' /\ InStepInv'
  <2>1. machine' = Started(machine, machine.position) /\ host' = "playing"
    BY DEF Continue
  <2> QED BY <1>1, <1>4, <1>5, <2>1, StartedPlayer
<1> QED BY <1>1, <1>6, ContinueType DEF PlayerInv

LEMMA SongPositionPlayer ==
    ASSUME PlayerInv, NEW step \in Positions, SongPosition(step)
    PROVE  PlayerInv'
<1>1. PICK tick : tick = step * TicksPerStep
  OBVIOUS
<1>2. /\ TypeOK /\ MachineInv /\ BeliefInv /\ StartBelief /\ RestInv /\ ~playing
      /\ PrepareStart(tick) /\ tick \in Nat /\ machine.playing = FALSE /\ machine \in Machine
  BY <1>1, StepTick DEF PlayerInv, SongPosition, MachineInv, BeliefInv, TypeOK, Machine
<1>3. Prepared(tick) \in Machine /\ Prepared(tick).playing = FALSE
  BY <1>2, PreparedFields
<1>4. machine' = [Prepared(tick) EXCEPT !.position = Moved(tick)] /\ songPosition' = tick
  BY <1>1 DEF SongPosition
<1>5. /\ machine'.playing = FALSE /\ machine'.asked = Prepared(tick).asked
      /\ machine'.committed = Prepared(tick).committed
      /\ machine'.pattern = Prepared(tick).pattern /\ machine'.position = Moved(tick)
  BY <1>3, <1>4 DEF Machine
<1>6. StartPlays(machine)' = StartPlays(Prepared(tick))
  BY <1>5 DEF StartPlays
<1>7. /\ playing' = FALSE /\ host' \in {"disturbed", "positioned"} /\ chain' = chain
      /\ host' = "positioned" => ~misled'
  BY <1>2 DEF SongPosition, TypeOK
<1>8. MachineInv'
  BY <1>5, <1>7 DEF MachineInv
<1>9. BeliefInv'
  BY <1>2, <1>6, <1>7, PrepareBelief DEF BeliefInv, StartBelief
<1>10. RestInv'
  <2>1. CASE Prepares(tick)
    <3>1. machine'.asked = None /\ machine'.committed = None
      BY <1>2, <1>5, <2>1, PreparedFields
    <3>2. answer' = Outdated
      BY <1>1, <2>1 DEF SongPosition
    <3> QED BY <1>2, <3>1, <3>2, OutdatedType DEF RestInv
  <2>2. CASE ~Prepares(tick)
    <3>1. /\ machine'.asked = machine.asked /\ machine'.committed = machine.committed
          /\ machine'.pattern = machine.pattern
      BY <1>2, <1>5, <2>2, PreparedFields
    <3>2. answer' = answer /\ (inStep' => inStep) /\ (startFromQueue => startFromQueue')
      BY <1>1, <2>2 DEF SongPosition
    <3> QED BY <1>2, <3>1, <3>2 DEF RestInv
  <2> QED BY <2>1, <2>2
<1>11. PositionedInv'
  <2>1. SUFFICES ASSUME host' = "positioned", Follows
                 PROVE  LET pass == PassAt(chain, tick)
                        IN  /\ startPattern' # None /\ StartPlays(machine)' = pass.pattern
                            /\ machine'.position = tick - pass.start
    BY <1>4, <1>7 DEF PositionedInv, Follows
  <2>2. startPattern' \in Patterns => startPattern' # None
    BY ChainsAssumption
  <2>3. machine'.position = tick - PassAt(chain, tick).start
    BY <1>5, <2>1 DEF Moved
  <2> QED BY <1>2, <1>6, <1>7, <2>1, <2>2, <2>3, PrepareBelief
<1>12. InStepInv'
  BY <1>7 DEF InStepInv
<1> QED BY <1>2, <1>8, <1>9, <1>10, <1>11, <1>12, SongPositionType DEF PlayerInv

LEMMA StopPlayer ==
    ASSUME PlayerInv, Stop
    PROVE  PlayerInv'
<1>1. /\ TypeOK /\ MachineInv /\ BeliefInv /\ InStepInv /\ playing /\ machine \in Machine
  BY DEF PlayerInv, Stop, MachineInv, TypeOK
<1>2. /\ machine'.playing = FALSE /\ machine'.asked = machine.asked
      /\ machine'.committed = machine.committed /\ machine'.pattern = machine.pattern
  BY <1>1 DEF Stop, Machine
<1>3. StartPlays(machine)' = StartPlays(machine)
  BY <1>2 DEF StartPlays
<1>4. /\ playing' = FALSE /\ host' = "stopped" /\ startPattern' = Expected
      /\ misled' = misled /\ inStep' = inStep /\ (startFromQueue' <=> queued # None)
      /\ answer' = Outdated
  BY DEF Stop, Expected
<1>5. MachineInv' /\ PositionedInv' /\ InStepInv'
  BY <1>2, <1>4 DEF MachineInv, PositionedInv, InStepInv
<1>6. BeliefInv'
  BY <1>1, <1>3, <1>4 DEF BeliefInv, StartBelief
<1>7. RestInv'
  <2>1. inStep /\ queued = None => machine.asked = None /\ machine.committed = None
    <3> SUFFICES ASSUME inStep, queued = None
                 PROVE  machine.asked = None /\ machine.committed = None
      OBVIOUS
    <3>1. CASE ~Follows
      BY <1>1, <3>1 DEF InStepInv
    <3>2. CASE Follows
      <4>1. NextPattern # None
        BY <1>1, <3>2, PassIs, ChainsAssumption
      <4>2. Settled(Pass, NextPattern) \/ Asked(Pass, NextPattern)
        BY <1>1, <3>2 DEF InStepInv, Pass, NextPattern
      <4> QED BY <4>1, <4>2 DEF Settled, Asked
    <3> QED BY <3>1, <3>2
  <2> QED BY <1>1, <1>2, <1>4, <2>1, OutdatedType DEF RestInv
<1> QED BY <1>1, <1>5, <1>6, <1>7, StopType DEF PlayerInv

----------------------------------------------------------------------------
(* A clock keeps the invariant.                                            *)

\* A clock does not change what a start would play, and what it commits to is past the commit.
LEMMA ClockedPlays ==
    ASSUME TypeOK, MachineInv, playing
    PROVE  /\ StartPlays(Clocked(machine)) = StartPlays(machine)
           /\ Clocked(machine).committed # None =>
                /\ Clocked(machine).position
                        > MachineTicks(Clocked(machine).pattern) - CommitTicks
                /\ Clocked(machine).position > 0
<1>1. PICK m, n : m = machine /\ n = Clocked(machine)
  OBVIOUS
<1>2. m \in Machine /\ m.position \in Nat /\ m.pattern \in Patterns
  BY <1>1 DEF TypeOK, Machine
<1>3. PICK T : T = MachineTicks(m.pattern)
  OBVIOUS
<1>4. T \in Nat \ {0} /\ CommitTicks \in Nat \ {0}
  BY <1>2, <1>3, MachineLasts, TicksAssumption
<1>5. m.committed # None => m.position > T - CommitTicks /\ m.position > 0
  BY <1>1, <1>3 DEF MachineInv
<1>6. Commits(m) <=> m.position = T - CommitTicks \/ (T <= CommitTicks /\ m.position = 0)
  BY <1>3 DEF Commits
<1>7. Commits(m) => m.committed = None
  BY <1>2, <1>4, <1>5, <1>6
<1>8. /\ n.asked = IF Commits(m) THEN None ELSE m.asked
      /\ n.committed = IF Ends(m) THEN None ELSE CommittedBy(m)
      /\ n.pattern = IF Ends(m) /\ CommittedBy(m) # None THEN CommittedBy(m) ELSE m.pattern
      /\ n.position = IF Ends(m) THEN 0 ELSE m.position + 1
  BY <1>1, <1>2, ClockedFields
<1>9. StartPlays(n) = StartPlays(m)
  <2>1. CASE Commits(m)
    <3>1. CommittedBy(m) = m.asked /\ m.committed = None
      BY <1>7, <2>1 DEF CommittedBy
    <3> QED BY <1>8, <2>1, <3>1 DEF StartPlays
  <2>2. CASE ~Commits(m)
    <3>1. CommittedBy(m) = m.committed
      BY <2>2 DEF CommittedBy
    <3> QED BY <1>8, <2>2, <3>1 DEF StartPlays
  <2> QED BY <2>1, <2>2
<1>10. n.committed # None => n.position > T - CommitTicks /\ n.position > 0 /\ n.pattern = m.pattern
  <2> SUFFICES ASSUME n.committed # None
               PROVE  n.position > T - CommitTicks /\ n.position > 0 /\ n.pattern = m.pattern
    OBVIOUS
  <2>1. ~Ends(m) /\ n.position = m.position + 1 /\ n.pattern = m.pattern
        /\ CommittedBy(m) # None
    BY <1>8
  <2>2. Commits(m) \/ m.committed # None
    BY <2>1 DEF CommittedBy
  <2>3. m.position + 1 > T - CommitTicks /\ m.position + 1 > 0
    BY <1>2, <1>4, <1>5, <1>6, <2>2
  <2> QED BY <2>1, <2>3
<1> QED BY <1>1, <1>3, <1>9, <1>10

\* Asked in time, the last tick for a request does not wrap around.
LEMMA LastRequest ==
    ASSUME TypeOK, Follows, nextTick < MaxTick, InTime(Pass, nextTick)
    PROVE  nextTick <= LastRequestTick(Pass)
<1>1. PICK e, t, k : e = End(Pass) /\ t = Pass.ticks /\ k = PassTicks(Pass.pattern)
  OBVIOUS
<1>2. /\ e \in Nat /\ t \in Nat /\ t = k /\ e = Pass.start + t /\ Pass.start \in Nat
      /\ Pass.start <= nextTick /\ nextTick \in Nat /\ Pass.pattern \in Patterns
  BY <1>1, PassIs DEF End
<1>3. MaxTick \in Nat /\ CommitTicks \in Nat \ {0} /\ TickModulus \in Nat \ {0}
      /\ MaxTick + k <= TickModulus
  BY <1>1, <1>2, ChainsAssumption, TicksAssumption, WrapAssumption
<1>4. nextTick < e - CommitTicks
  BY <1>1 DEF InTime
<1>5. e - CommitTicks - 1 \in 0 .. TickModulus - 1 /\ nextTick <= e - CommitTicks - 1
  BY <1>2, <1>3, <1>4
<1>6. (e - CommitTicks - 1) % TickModulus = e - CommitTicks - 1
  BY <1>3, <1>5
<1> QED BY <1>1, <1>5, <1>6 DEF LastRequestTick

\* The pass of the next tick.
LEMMA PassAfter ==
    ASSUME TypeOK, Follows, Clock
    PROVE  /\ Follows'
           /\ Pass' = IF nextTick + 1 < End(Pass) THEN Pass ELSE NextPass(chain, Pass)
           /\ NextPass(chain, Pass).start = End(Pass)
<1>1. chain' = chain /\ nextTick' = nextTick + 1
  BY ClockIs
<1>2. chain \in Seq(Entry) /\ IsPlayable(chain) /\ nextTick \in Nat
  BY PassIs
<1>3. PassAt(chain, nextTick + 1)
        = IF nextTick + 1 < End(Pass) THEN Pass ELSE NextPass(chain, Pass)
  BY <1>2, PassesFollow DEF Pass
<1>4. NextPass(chain, Pass).start = End(Pass)
  BY DEF NextPass, MkPass
<1> QED BY <1>1, <1>2, <1>3, <1>4 DEF Pass, Follows

\* What makes the state after a clock in step, in the two cases of the invariant.
LEMMA InStepAfter ==
    ASSUME Follows', machine'.pattern = Pass'.pattern, machine'.position = nextTick' - Pass'.start,
           Settled(Pass, NextPattern)' \/ Asked(Pass, NextPattern)'
    PROVE  InStepInv'
BY DEF InStepInv, Pass, NextPattern

\* The facts about the machine the cases below start from.
LEMMA InStepClock ==
    ASSUME TypeOK, MachineInv, InStepInv, Clock, Follows, inStep
    PROVE  /\ machine.pattern = Pass.pattern /\ machine.position = nextTick - Pass.start
           /\ Settled(Pass, NextPattern) \/ Asked(Pass, NextPattern)
           /\ machine.position \in 0 .. Pass.ticks - 1
           /\ Pass.ticks \in Nat \ {0} /\ CommitTicks \in Nat \ {0}
           /\ Ends(machine) <=> nextTick + 1 = End(Pass)
           /\ Ends(machine) <=> machine.position + 1 = Pass.ticks
           /\ Commits(machine) <=> \/ machine.position = Pass.ticks - CommitTicks
                                   \/ Pass.ticks <= CommitTicks /\ machine.position = 0
           /\ InTime(Pass, nextTick) <=> machine.position < Pass.ticks - CommitTicks
<1>1. playing
  BY ClockIs DEF MachineInv
<1>2. /\ machine.pattern = Pass.pattern /\ machine.position = nextTick - Pass.start
      /\ Settled(Pass, NextPattern) \/ Asked(Pass, NextPattern)
  BY <1>1 DEF InStepInv, Pass, NextPattern
<1>3. MachineTicks(machine.pattern) = Pass.ticks
  BY <1>2, PassIs, LengthsAgree
<1>4. PICK s, t, x : s = Pass.start /\ t = Pass.ticks /\ x = machine.position
  OBVIOUS
<1>5. s \in Nat /\ t \in Nat \ {0} /\ nextTick \in Nat /\ x = nextTick - s /\ s <= nextTick
      /\ nextTick < s + t /\ End(Pass) = s + t /\ CommitTicks \in Nat \ {0}
  BY <1>2, <1>4, PassIs, TicksAssumption DEF End
<1>6. x \in 0 .. t - 1 /\ (x + 1 = t <=> nextTick + 1 = s + t)
      /\ (nextTick < s + t - CommitTicks <=> x < t - CommitTicks)
  BY <1>5
<1>7. Ends(machine) <=> x + 1 = t
  BY <1>3, <1>4 DEF Ends
<1>8. Commits(machine) <=> \/ x = t - CommitTicks
                           \/ t <= CommitTicks /\ x = 0
  BY <1>3, <1>4 DEF Commits
<1>9. InTime(Pass, nextTick) <=> nextTick < s + t - CommitTicks
  BY <1>5 DEF InTime
<1>10. Ends(machine) <=> nextTick + 1 = End(Pass)
  BY <1>5, <1>6, <1>7
<1>11. InTime(Pass, nextTick) <=> x < t - CommitTicks
  BY <1>6, <1>9
<1> QED BY <1>2, <1>4, <1>5, <1>6, <1>7, <1>8, <1>10, <1>11

\* The player asks: the request is in time for this pass's end.
LEMMA AskingClock ==
    ASSUME TypeOK, MachineInv, InStepInv, Clock, Follows, inStep,
           Settled(Pass, NextPattern), NextPattern # Pass.pattern, InTime(Pass, nextTick)
    PROVE  InStepInv'
<1>1. Asks
  BY ClockIs, LastRequest DEF Asks, Settled
<1>2. PICK x, t : x = machine.position /\ t = Pass.ticks
  OBVIOUS
<1>3. /\ x \in 0 .. t - 1 /\ t \in Nat \ {0} /\ CommitTicks \in Nat \ {0}
      /\ x < t - CommitTicks
  BY <1>2, InStepClock
<1>4. ~Commits(machine) /\ ~Ends(machine)
  BY <1>2, <1>3, InStepClock
<1>5. machine \in Machine /\ machine.playing = TRUE /\ NextPattern \in Patterns
  BY ClockIs, PassIs DEF TypeOK, MachineInv, Machine
<1>6. PICK n : n = Clocked(machine)
  OBVIOUS
<1>7. /\ n \in Machine /\ n.playing = TRUE /\ n.asked = None /\ n.committed = None
      /\ n.pattern = Pass.pattern /\ n.position = x + 1
  BY <1>2, <1>4, <1>5, <1>6, ClockedFields, InStepClock DEF Settled, CommittedBy
<1>8. machine' = Selected(n, NextPattern)
  BY <1>1, <1>6, ClockIs
<1>9. /\ machine'.asked = NextPattern /\ machine'.committed = None
      /\ machine'.pattern = Pass.pattern /\ machine'.position = x + 1
  BY <1>5, <1>7, <1>8, SelectedFields
<1>10. nextTick + 1 < End(Pass)
  <2>1. PICK e : e = End(Pass)
    OBVIOUS
  <2>2. e \in Nat /\ nextTick \in Nat /\ nextTick < e - CommitTicks
    BY <2>1, PassIs DEF InTime
  <2> QED BY <1>3, <2>1, <2>2
<1>11. Follows' /\ Pass' = Pass /\ chain' = chain
  BY <1>10, PassAfter, ClockIs
<1>12. NextPattern' = NextPattern
  BY <1>11 DEF NextPattern
<1>13. Asked(Pass, NextPattern)'
  <2>1. queued' = NextPattern /\ queuedFrom' = End(Pass)
    BY <1>1, ClockIs
  <2>2. x + 1 <= t - CommitTicks /\ t > CommitTicks
    BY <1>3
  <2>3. End(Pass)' = End(Pass)
    BY <1>11 DEF End
  <2> QED BY <1>2, <1>9, <1>11, <1>12, <2>1, <2>2, <2>3 DEF Asked
<1>14. machine'.position = nextTick' - Pass'.start
  <2>1. PICK s : s = Pass.start
    OBVIOUS
  <2>2. s \in Nat /\ nextTick \in Nat /\ x = nextTick - s /\ nextTick' = nextTick + 1
    BY <1>2, <2>1, InStepClock, PassIs, ClockIs
  <2>3. x + 1 = nextTick + 1 - s
    BY <2>2
  <2> QED BY <1>9, <1>11, <2>1, <2>2, <2>3
<1> QED BY <1>9, <1>11, <1>13, <1>14, InStepAfter

\* The chain stays on the pattern: nothing is asked and nothing waits.
LEMMA StayingClock ==
    ASSUME TypeOK, MachineInv, InStepInv, Clock, Follows, inStep,
           Settled(Pass, NextPattern), NextPattern = Pass.pattern
    PROVE  InStepInv'
<1>1. ~Asks
  BY DEF Asks, Settled
<1>2. PICK x, t : x = machine.position /\ t = Pass.ticks
  OBVIOUS
<1>3. x \in 0 .. t - 1 /\ t \in Nat \ {0}
  BY <1>2, InStepClock
<1>4. machine \in Machine
  BY DEF TypeOK
<1>5. machine' = Clocked(machine)
  BY <1>1, ClockIs
<1>6. /\ machine'.asked = None /\ machine'.committed = None
      /\ machine'.pattern = Pass.pattern
      /\ machine'.position = IF Ends(machine) THEN 0 ELSE x + 1
  <2>1. CommittedBy(machine) = None /\ machine.asked = None
    BY DEF Settled, CommittedBy
  <2> QED BY <1>2, <1>4, <1>5, <2>1, ClockedFields, InStepClock
<1>7. Expected' = Pass.pattern /\ queued' = None
  <2>1. current' = IF TookOver THEN queued ELSE current
    BY ClockIs
  <2>2. queued' = IF TookOver THEN None ELSE queued
    BY <1>1, ClockIs
  <2>3. queued # None => TookOver
    <3>1. queued # None => queuedFrom <= nextTick
      BY DEF Settled
    <3>2. queuedFrom \in Nat /\ nextTick \in Nat
      BY DEF TypeOK
    <3> QED BY <3>1, <3>2 DEF TookOver
  <2>4. Expected = Pass.pattern
    BY DEF Settled
  <2> QED BY <2>1, <2>2, <2>3, <2>4 DEF Expected, TookOver
<1>8. PICK s, e : s = Pass.start /\ e = End(Pass)
  OBVIOUS
<1>9. /\ s \in Nat /\ e \in Nat /\ nextTick \in Nat /\ x = nextTick - s
      /\ nextTick' = nextTick + 1 /\ nextTick < e /\ (Ends(machine) <=> nextTick + 1 = e)
  BY <1>2, <1>8, InStepClock, PassIs, ClockIs
<1>10. CASE nextTick + 1 < e
  <2>1. Follows' /\ Pass' = Pass /\ chain' = chain
    BY <1>8, <1>10, PassAfter, ClockIs
  <2>2. NextPattern' = NextPattern
    BY <2>1 DEF NextPattern
  <2>3. Settled(Pass, NextPattern)'
    BY <1>6, <1>7, <2>1, <2>2 DEF Settled
  <2>4. ~Ends(machine) /\ x + 1 = nextTick + 1 - s
    BY <1>9, <1>10
  <2>5. machine'.position = nextTick' - Pass'.start
    BY <1>6, <1>8, <1>9, <2>1, <2>4
  <2> QED BY <1>6, <2>1, <2>3, <2>5, InStepAfter
<1>11. CASE ~(nextTick + 1 < e)
  <2>1. nextTick + 1 = e
    BY <1>9, <1>11
  <2>2. Follows' /\ Pass' = NextPass(chain, Pass) /\ Pass'.start = e
    BY <1>8, <1>11, PassAfter
  <2>3. Pass'.pattern = NextPattern
    BY <2>2 DEF NextPattern
  <2>4. Settled(Pass, NextPattern)'
    BY <1>6, <1>7, <1>9, <2>1, <2>2, <2>3 DEF Settled
  <2>5. machine'.position = 0 /\ nextTick' - Pass'.start = 0
    BY <1>6, <1>9, <2>1, <2>2
  <2> QED BY <1>6, <2>2, <2>3, <2>4, <2>5, InStepAfter
<1> QED BY <1>10, <1>11

\* The request waits until the commit and plays from the pass's end.
LEMMA AskedClock ==
    ASSUME TypeOK, MachineInv, InStepInv, Clock, Follows, inStep, Asked(Pass, NextPattern)
    PROVE  InStepInv'
<1>1. NextPattern \in Patterns /\ queued = NextPattern /\ NextPattern # None
  BY PassIs, ChainsAssumption DEF Asked
<1>2. PICK x, t, s, e : x = machine.position /\ t = Pass.ticks /\ s = Pass.start /\ e = End(Pass)
  OBVIOUS
<1>3. /\ x \in 0 .. t - 1 /\ t \in Nat \ {0} /\ CommitTicks \in Nat \ {0}
      /\ t > CommitTicks
  BY <1>2, InStepClock DEF Asked
<1>4. /\ s \in Nat /\ e \in Nat /\ nextTick \in Nat /\ x = nextTick - s
      /\ nextTick' = nextTick + 1 /\ nextTick < e /\ (Ends(machine) <=> nextTick + 1 = e)
      /\ (Ends(machine) <=> x + 1 = t)
  BY <1>2, InStepClock, PassIs, ClockIs
<1>5. ~TookOver /\ ~Asks
  <2>1. queuedFrom = e /\ ~(nextTick >= e)
    BY <1>2, <1>4 DEF Asked
  <2>2. Expected = NextPattern
    BY <1>1 DEF Expected
  <2> QED BY <2>1, <2>2 DEF TookOver, Asks
<1>6. /\ machine' = Clocked(machine) /\ queued' = queued /\ queuedFrom' = e
      /\ chain' = chain /\ machine \in Machine
  BY <1>2, <1>5, ClockIs DEF TypeOK, Asked
<1>7. Commits(machine) <=> x = t - CommitTicks
  <2>1. Commits(machine) <=> \/ x = t - CommitTicks
                             \/ t <= CommitTicks /\ x = 0
    BY <1>2, InStepClock
  <2> QED BY <1>3, <2>1
<1>8. CommittedBy(machine) = IF x < t - CommitTicks THEN None ELSE NextPattern
  <2>1. CASE x <= t - CommitTicks
    <3>1. machine.asked = NextPattern /\ machine.committed = None
      BY <1>2, <2>1 DEF Asked
    <3>2. x < t - CommitTicks <=> ~Commits(machine)
      BY <1>3, <1>7, <2>1
    <3> QED BY <3>1, <3>2 DEF CommittedBy
  <2>2. CASE ~(x <= t - CommitTicks)
    <3>1. machine.committed = NextPattern
      BY <1>2, <2>2 DEF Asked
    <3>2. ~Commits(machine) /\ ~(x < t - CommitTicks)
      BY <1>3, <1>7, <2>2
    <3> QED BY <3>1, <3>2 DEF CommittedBy
  <2> QED BY <2>1, <2>2
<1>9. machine'.asked = IF x < t - CommitTicks THEN NextPattern ELSE None
  <2>1. machine'.asked = IF Commits(machine) THEN None ELSE machine.asked
    BY <1>6, ClockedFields
  <2>2. CASE x < t - CommitTicks
    <3>1. x <= t - CommitTicks /\ ~Commits(machine)
      BY <1>3, <1>7, <2>2
    <3>2. machine.asked = NextPattern
      BY <1>2, <3>1 DEF Asked
    <3> QED BY <2>1, <2>2, <3>1, <3>2
  <2>3. CASE ~(x < t - CommitTicks)
    <3>1. Commits(machine) \/ ~(x <= t - CommitTicks)
      BY <1>3, <1>7, <2>3
    <3>2. ~(x <= t - CommitTicks) => machine.asked = None
      BY <1>2 DEF Asked
    <3> QED BY <2>1, <2>3, <3>1, <3>2
  <2> QED BY <2>2, <2>3
<1>10. CASE nextTick + 1 < e
  <2>1. Follows' /\ Pass' = Pass
    BY <1>2, <1>10, PassAfter
  <2>2. NextPattern' = NextPattern
    BY <1>6, <2>1 DEF NextPattern
  <2>3. ~Ends(machine) /\ x + 1 = nextTick + 1 - s
    BY <1>4, <1>10
  <2>4. /\ machine'.committed = CommittedBy(machine) /\ machine'.pattern = machine.pattern
        /\ machine'.position = x + 1
    BY <1>2, <1>6, <2>3, ClockedFields
  <2>5. Asked(Pass, NextPattern)'
    <3>1. x + 1 <= t - CommitTicks <=> x < t - CommitTicks
      BY <1>3
    <3>2. End(Pass)' = e
      BY <1>2, <2>1 DEF End
    <3>3. Pass'.ticks = t /\ Pass'.pattern = Pass.pattern /\ NextPattern # Pass.pattern
      BY <1>2, <2>1 DEF Asked
    <3>4. IF x + 1 <= t - CommitTicks
          THEN machine'.asked = NextPattern /\ machine'.committed = None
          ELSE machine'.asked = None /\ machine'.committed = NextPattern
      BY <1>8, <1>9, <2>4, <3>1
    <3> QED BY <1>1, <1>3, <1>6, <2>2, <2>4, <3>2, <3>3, <3>4 DEF Asked
  <2>6. machine'.position = nextTick' - Pass'.start
    BY <1>2, <1>4, <2>1, <2>3, <2>4
  <2>7. machine'.pattern = Pass'.pattern
    BY <2>1, <2>4, InStepClock
  <2> QED BY <2>1, <2>5, <2>6, <2>7, InStepAfter
<1>11. CASE ~(nextTick + 1 < e)
  <2>1. nextTick + 1 = e /\ Ends(machine) /\ ~(x < t - CommitTicks)
    <3>1. nextTick + 1 = e /\ x + 1 = t
      BY <1>4, <1>11
    <3> QED BY <1>3, <1>4, <3>1
  <2>2. Follows' /\ Pass' = NextPass(chain, Pass) /\ Pass'.start = e
    BY <1>2, <1>11, PassAfter
  <2>3. Pass'.pattern = NextPattern
    BY <2>2 DEF NextPattern
  <2>4. CommittedBy(machine) = NextPattern /\ machine'.asked = None
    BY <1>8, <1>9, <2>1
  <2>5. /\ machine'.committed = None /\ machine'.pattern = NextPattern
        /\ machine'.position = 0
    BY <1>1, <1>6, <2>1, <2>4, ClockedFields
  <2>6. Expected' = NextPattern
    BY <1>1, <1>6 DEF Expected
  <2>7. Settled(Pass, NextPattern)'
    <3>1. queuedFrom' <= nextTick' /\ nextTick' = Pass'.start
      BY <1>4, <1>6, <2>1, <2>2
    <3> QED BY <2>3, <2>4, <2>5, <2>6, <3>1 DEF Settled
  <2>8. nextTick' - Pass'.start = 0
    BY <1>4, <2>1, <2>2
  <2> QED BY <2>2, <2>3, <2>5, <2>7, <2>8, InStepAfter
<1> QED BY <1>10, <1>11

LEMMA InStepKept ==
    ASSUME TypeOK, MachineInv, InStepInv, Clock
    PROVE  InStepInv'
<1>1. /\ playing /\ playing' = playing /\ chain' = chain
      /\ inStep' = (inStep /\ (Follows /\ nextTick = Pass.start => ~TooLate(nextTick)))
  BY ClockIs DEF MachineInv
<1>2. CASE ~inStep'
  BY <1>2 DEF InStepInv
<1>3. CASE inStep' /\ Follows
  <2>1. inStep /\ (nextTick = Pass.start => ~TooLate(nextTick))
    BY <1>1, <1>3
  <2>2. Settled(Pass, NextPattern) \/ Asked(Pass, NextPattern)
    BY <1>3, <2>1, InStepClock
  <2>3. CASE Settled(Pass, NextPattern)
    <3>1. NextPattern = Pass.pattern \/ InTime(Pass, nextTick)
      BY <2>1, <2>3 DEF Settled, TooLate, Pass, NextPattern
    <3> QED BY <1>3, <2>1, <2>3, <3>1, AskingClock, StayingClock
  <2>4. CASE Asked(Pass, NextPattern)
    BY <1>3, <2>1, <2>4, AskedClock
  <2> QED BY <2>2, <2>3, <2>4
<1>4. CASE inStep' /\ ~Follows
  <2>1. inStep /\ queued = None /\ machine.asked = None /\ machine.committed = None
    BY <1>1, <1>4 DEF InStepInv
  <2>2. ~Asks /\ ~Follows' /\ ~TookOver
    BY <1>1, <1>4, <2>1 DEF Asks, Follows, TookOver
  <2>3. queued' = None /\ machine' = Clocked(machine) /\ machine \in Machine
    BY <2>1, <2>2, ClockIs DEF TypeOK
  <2>4. CommittedBy(machine) = None
    BY <2>1 DEF CommittedBy
  <2>5. machine'.asked = None /\ machine'.committed = None
    BY <2>1, <2>3, <2>4, ClockedFields
  <2> QED BY <2>2, <2>3, <2>5 DEF InStepInv
<1> QED BY <1>2, <1>3, <1>4

LEMMA ClockPlayer ==
    ASSUME PlayerInv, Clock
    PROVE  PlayerInv'
<1>1. /\ TypeOK /\ MachineInv /\ BeliefInv /\ InStepInv /\ playing /\ machine \in Machine
      /\ machine.playing = TRUE
  BY ClockIs DEF PlayerInv, MachineInv, TypeOK, Machine
<1>2. PICK n : n = Clocked(machine)
  OBVIOUS
<1>3. /\ n \in Machine /\ n.playing = TRUE /\ StartPlays(n) = StartPlays(machine)
      /\ n.committed # None => /\ n.position > MachineTicks(n.pattern) - CommitTicks
                               /\ n.position > 0
  BY <1>1, <1>2, ClockedFields, ClockedPlays
<1>4. /\ playing' = playing /\ host' = host /\ host = "playing" /\ misled' = misled
      /\ startPattern' = startPattern
  BY ClockIs
<1>5. CASE Asks
  <2>1. NextPattern \in Patterns /\ NextPattern # None
    BY <1>1, <1>5, PassIs, ChainsAssumption DEF Asks
  <2>2. machine' = Selected(n, NextPattern) /\ queued' = NextPattern
    BY <1>2, <1>5, ClockIs
  <2>3. /\ machine'.playing = TRUE /\ machine'.committed = n.committed
        /\ machine'.pattern = n.pattern /\ machine'.position = n.position
        /\ StartPlays(machine') = NextPattern
    BY <1>3, <2>1, <2>2, SelectedFields
  <2>4. MachineInv'
    BY <1>1, <1>3, <1>4, <2>3 DEF MachineInv
  <2>5. Expected' = NextPattern
    BY <2>1, <2>2 DEF Expected
  <2>6. StartPlays(machine)' = NextPattern
    BY <2>3 DEF StartPlays
  <2>7. BeliefInv'
    BY <1>1, <1>4, <2>5, <2>6 DEF BeliefInv, StartBelief
  <2> QED BY <2>4, <2>7, <1>1, <1>4, InStepKept, ClockType DEF PlayerInv, RestInv, PositionedInv
<1>6. CASE ~Asks
  <2>1. machine' = n
    BY <1>2, <1>6, ClockIs
  <2>2. MachineInv'
    BY <1>1, <1>3, <1>4, <2>1 DEF MachineInv
  <2>3. StartPlays(machine)' = StartPlays(machine)
    BY <1>3, <2>1 DEF StartPlays
  <2>4. Expected' = Expected
    <3>1. /\ current' = IF TookOver THEN queued ELSE current
          /\ queued' = IF TookOver THEN None ELSE queued
      BY <1>6, ClockIs
    <3> QED BY <3>1 DEF Expected, TookOver
  <2>5. BeliefInv'
    BY <1>1, <1>4, <2>3, <2>4 DEF BeliefInv, StartBelief
  <2> QED BY <2>2, <2>5, <1>1, <1>4, InStepKept, ClockType DEF PlayerInv, RestInv, PositionedInv
<1> QED BY <1>5, <1>6

----------------------------------------------------------------------------
(* Others.                                                                 *)

LEMMA SelectElsewherePlayer ==
    ASSUME PlayerInv, NEW p \in Patterns, NEW seen \in {p, None}, SelectElsewhere(p, seen)
    PROVE  PlayerInv'
<1>1. /\ TypeOK /\ MachineInv /\ RestInv /\ machine \in Machine /\ seen \in Known
      /\ (machine.playing <=> playing)
  BY DEF PlayerInv, TypeOK, MachineInv, Known
<1>2. machine' = Selected(machine, p) /\ playing' = playing /\ answer' = Outdated
  BY DEF SelectElsewhere
<1>3. (host' = "playing" <=> host = "playing") /\ host' # "positioned"
  BY DEF SelectElsewhere
<1>4. StartPlays(machine)' = p /\ machine'.playing = machine.playing
      /\ machine'.position = machine.position
  BY <1>1, <1>2, SelectedFields DEF StartPlays
<1>5. PositionedInv'
  BY <1>3 DEF PositionedInv
<1>6. CASE playing
  <2>1. machine'.pattern = machine.pattern /\ machine'.committed = machine.committed
    BY <1>1, <1>2, <1>6, SelectedFields
  <2>2. current' = None /\ queued' = None /\ inStep' = FALSE
    BY <1>6 DEF SelectElsewhere
  <2>3. MachineInv'
    BY <1>1, <1>2, <1>3, <1>4, <2>1 DEF MachineInv
  <2>4. BeliefInv' /\ RestInv' /\ InStepInv'
    BY <1>2, <1>6, <2>2 DEF BeliefInv, StartBelief, RestInv, InStepInv, Expected
  <2> QED BY <1>1, <1>5, <2>3, <2>4, SelectElsewhereType DEF PlayerInv
<1>7. CASE ~playing
  <2>1. machine'.asked = None /\ machine'.committed = None
    BY <1>1, <1>2, <1>7, SelectedFields
  <2>2. startPattern' = seen
    BY <1>7 DEF SelectElsewhere
  <2>3. MachineInv'
    BY <1>1, <1>2, <1>3, <1>4, <1>7 DEF MachineInv
  <2>4. BeliefInv'
    BY <1>2, <1>4, <1>7, <2>2 DEF BeliefInv, StartBelief
  <2>5. RestInv' /\ InStepInv'
    BY <1>1, <1>2, <1>7, <2>1, OutdatedType DEF RestInv, InStepInv
  <2> QED BY <1>1, <1>5, <2>3, <2>4, <2>5, SelectElsewhereType DEF PlayerInv
<1> QED BY <1>6, <1>7

LEMMA PanelPlayer ==
    ASSUME PlayerInv, NEW p \in Patterns, SelectOnPanel(p)
    PROVE  PlayerInv'
<1>1. /\ TypeOK /\ MachineInv /\ machine \in Machine /\ (machine.playing <=> playing)
  BY DEF PlayerInv, TypeOK, MachineInv
<1>2. /\ machine' = Selected(machine, p) /\ playing' = playing /\ answer' = Outdated
      /\ misled' = TRUE /\ inStep' = ~playing
  BY DEF SelectOnPanel, playerVars
<1>3. (host' = "playing" <=> host = "playing") /\ host' # "positioned"
  BY DEF SelectOnPanel
<1>4. machine'.playing = machine.playing /\ machine'.position = machine.position
  BY <1>1, <1>2, SelectedFields
<1>5. playing => machine'.pattern = machine.pattern /\ machine'.committed = machine.committed
  BY <1>1, <1>2, SelectedFields
<1>6. MachineInv'
  BY <1>1, <1>2, <1>3, <1>4, <1>5 DEF MachineInv
<1>7. BeliefInv' /\ PositionedInv' /\ InStepInv'
  BY <1>2, <1>3 DEF BeliefInv, StartBelief, PositionedInv, InStepInv
<1>8. RestInv'
  <2>1. ~playing => machine'.asked = None /\ machine'.committed = None
    BY <1>1, <1>2, SelectedFields
  <2> QED BY <1>1, <1>2, <2>1, OutdatedType DEF RestInv
<1> QED BY <1>1, <1>6, <1>7, <1>8, PanelType DEF PlayerInv

LEMMA AnswerPlayer ==
    ASSUME PlayerInv, Answer
    PROVE  RestInv'
<1>1. /\ playing' = playing /\ machine' = machine /\ inStep' = inStep
      /\ startFromQueue' = startFromQueue
  BY DEF Answer, playerVars
<1>2. answer' = [pattern |-> Status(machine), fresh |-> TRUE]
  BY DEF Answer
<1>3. ~playing => Status(machine) = machine.pattern
  BY DEF PlayerInv, MachineInv, Status
<1> QED BY <1>1, <1>2, <1>3 DEF PlayerInv, RestInv

LEMMA ObservePlayer ==
    ASSUME PlayerInv, Observe
    PROVE  PlayerInv'
<1>1. /\ UNCHANGED <<chain, playing, songPosition, nextTick, startFromQueue, current, queued,
                     queuedFrom, host, machine, inStep>>
      /\ answer' = None /\ answer # None
      /\ startPattern' = IF Believes THEN answer.pattern ELSE startPattern
      /\ misled' = IF Believes THEN ~answer.fresh \/ (Waits /\ ~inStep) ELSE misled
  BY DEF Observe
<1>2. /\ TypeOK /\ MachineInv /\ BeliefInv /\ RestInv /\ PositionedInv /\ InStepInv
  BY DEF PlayerInv
<1>3. answer.pattern \in Patterns /\ answer.pattern # None
  BY <1>1, <1>2, ChainsAssumption DEF TypeOK
<1>4. MachineInv' /\ RestInv' /\ InStepInv'
  BY <1>1, <1>2 DEF MachineInv, RestInv, InStepInv, Settled, Asked, Expected, Follows, InTime, End
<1>5. PositionedInv'
  BY <1>1, <1>2, <1>3 DEF PositionedInv, Follows, StartPlays
<1>6. BeliefInv'
  <2>1. Expected' = Expected /\ StartPlays(machine)' = StartPlays(machine)
    BY <1>1 DEF Expected, StartPlays
  <2>2. CASE ~Believes
    BY <1>1, <1>2, <2>1, <2>2 DEF BeliefInv, StartBelief
  <2>3. CASE Believes
    <3>1. ~playing /\ ~startFromQueue
      BY <2>3 DEF Believes
    <3>2. ~misled' => StartPlays(machine) = answer.pattern
      <4> SUFFICES ASSUME ~misled' PROVE StartPlays(machine) = answer.pattern
        OBVIOUS
      <4>1. answer.fresh /\ (~Waits \/ inStep)
        BY <1>1, <2>3
      <4>2. answer.pattern = machine.pattern
        BY <1>1, <1>2, <3>1, <4>1 DEF RestInv
      <4>3. machine.asked = None /\ machine.committed = None
        BY <1>2, <3>1, <4>1 DEF RestInv, Waits
      <4> QED BY <4>2, <4>3 DEF StartPlays
    <3> QED BY <1>1, <2>1, <2>3, <3>1, <3>2 DEF BeliefInv, StartBelief
  <2> QED BY <2>2, <2>3
<1>7. TypeOK'
  BY <1>2, NextType DEF Next
<1> QED BY <1>4, <1>5, <1>6, <1>7 DEF PlayerInv

LEMMA SetChainPlayer ==
    ASSUME PlayerInv, NEW c \in Chains, SetChain(c)
    PROVE  PlayerInv'
<1>1. /\ UNCHANGED <<playerVars, machine, answer, misled>>
      /\ inStep' = (inStep /\ ~playing)
  BY DEF SetChain
<1>2. (host' = "playing" <=> host = "playing") /\ host' # "positioned"
  BY DEF SetChain
<1>3. TypeOK'
  BY NextType DEF Next, PlayerInv
<1>4. MachineInv' /\ RestInv' /\ InStepInv' /\ PositionedInv'
  BY <1>1, <1>2 DEF PlayerInv, MachineInv, RestInv, InStepInv, PositionedInv, playerVars
<1>5. BeliefInv'
  BY <1>1 DEF PlayerInv, BeliefInv, StartBelief, Expected, StartPlays, playerVars
<1> QED BY <1>3, <1>4, <1>5 DEF PlayerInv

----------------------------------------------------------------------------
(* The theorems.                                                           *)

LEMMA NextPlayer == PlayerInv /\ [Next]_vars => PlayerInv'
<1> SUFFICES ASSUME PlayerInv, [Next]_vars PROVE PlayerInv'
  OBVIOUS
<1>1. CASE Start
  BY <1>1, StartPlayer
<1>2. ASSUME NEW step \in Positions, SongPosition(step) PROVE PlayerInv'
  BY <1>2, SongPositionPlayer
<1>3. CASE Continue
  BY <1>3, ContinuePlayer
<1>4. CASE Stop
  BY <1>4, StopPlayer
<1>5. CASE Clock
  BY <1>5, ClockPlayer
<1>6. ASSUME NEW p \in Patterns, SetStatus(p) \/ ProgramChange(p) PROVE PlayerInv'
  BY <1>6, SelectElsewherePlayer DEF SetStatus, ProgramChange
<1>7. ASSUME NEW p \in Patterns, SelectOnPanel(p) PROVE PlayerInv'
  BY <1>7, PanelPlayer
<1>8. CASE Answer
  <2>1. UNCHANGED <<chain, playerVars, host, machine, others, inStep, misled>>
    BY <1>8 DEF Answer
  <2>2. MachineInv' /\ BeliefInv' /\ PositionedInv'
    BY <2>1 DEF PlayerInv, MachineInv, BeliefInv, StartBelief, PositionedInv, Expected,
                StartPlays, Follows, playerVars
  <2>3. InStepInv'
    BY <2>1 DEF PlayerInv, InStepInv, Settled, Asked, Expected, Follows, InTime, End, playerVars
  <2>4. TypeOK'
    BY NextType DEF PlayerInv
  <2> QED BY <1>8, <2>2, <2>3, <2>4, AnswerPlayer DEF PlayerInv
<1>9. CASE Observe
  BY <1>9, ObservePlayer
<1>10. ASSUME NEW c \in Chains, SetChain(c) PROVE PlayerInv'
  BY <1>10, SetChainPlayer
<1>11. CASE UNCHANGED vars
  <2>1. MachineInv' /\ BeliefInv' /\ PositionedInv' /\ RestInv'
    BY <1>11 DEF PlayerInv, MachineInv, BeliefInv, StartBelief, PositionedInv, Expected,
                 StartPlays, Follows, RestInv, vars, playerVars
  <2>2. InStepInv'
    BY <1>11 DEF PlayerInv, InStepInv, Settled, Asked, Expected, Follows, InTime, End, vars,
                 playerVars
  <2>3. TypeOK'
    BY NextType DEF PlayerInv
  <2> QED BY <2>1, <2>2, <2>3 DEF PlayerInv
<1> QED
  BY <1>1, <1>2, <1>3, <1>4, <1>5, <1>6, <1>7, <1>8, <1>9, <1>10, <1>11 DEF Next

LEMMA PlayerHolds == Spec => []PlayerInv
<1>1. Init => PlayerInv
  BY InitPlayer
<1>2. PlayerInv /\ [Next]_vars => PlayerInv'
  BY NextPlayer
<1> QED BY <1>1, <1>2, PTL DEF Spec

\* For every chain, length, commit and interference of others: while the player had its
\* chance to ask for every change, the machine plays the pattern and the tick of the
\* chain's pass at every clock (mdchainplayer.cpp 42-53, 77-164, mdpatternchain.cpp 50-80).
THEOREM ChainIsPlayed == Spec => []PlaysTheChain
<1>1. PlayerInv => PlaysTheChain
  BY DEF PlayerInv, InStepInv, PlaysTheChain
<1> QED BY <1>1, PlayerHolds, PTL

\* At rest, the pattern the player takes for the one START plays is the one the machine will
\* play, unless it was not told of a selection, believed an outdated answer, or believed an
\* answer while a pattern waits in the machine that it has lost sight of, one selected by
\* someone else while it played or its own taken a pass late (mdchainplayer.cpp 46, 118-129,
\* 166-173).
THEOREM BeliefIsTrue == Spec => []StartBelief
<1>1. PlayerInv => StartBelief
  BY DEF PlayerInv, BeliefInv
<1> QED BY <1>1, PlayerHolds, PTL

=============================================================================
