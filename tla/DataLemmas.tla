----------------------------- MODULE DataLemmas -----------------------------
(***************************************************************************)
(* Facts about data that several proofs rest on: remainders, for counters  *)
(* that wrap; induction on numbers and sequences, with a set in the place  *)
(* of the formula; and following a link from node to node.                 *)
(***************************************************************************)
EXTENDS Integers, Sequences, FiniteSetTheorems, SequenceTheorems, TLAPS

-----------------------------------------------------------------------------
(* Remainders.  The modulus is a variable of each lemma, so none of them   *)
(* is linear arithmetic.                                                   *)

(* Division with remainder. *)
LEMMA DivMod ==
  ASSUME NEW m \in Nat \ {0}, NEW x \in Int
  PROVE  /\ (x % m) \in 0 .. (m - 1)
         /\ (x \div m) \in Int
         /\ x = (m * (x \div m)) + (x % m)
BY SMT

(* A multiple of m strictly between -m and m is a multiple by zero. *)
LEMMA SmallMultiple ==
  ASSUME NEW m \in Nat \ {0}, NEW q \in Int, -m < m * q, m * q < m
  PROVE  q = 0
BY SMT

LEMMA MultipleOfDifference ==
  ASSUME NEW m \in Nat \ {0}, NEW q \in Int, NEW r \in Int
  PROVE  m * q - m * r = m * (q - r)
BY SMT

(* A number below the modulus is its own remainder. *)
LEMMA ModOfSmall ==
  ASSUME NEW m \in Nat \ {0}, NEW x \in 0 .. (m - 1)
  PROVE  x % m = x
BY SMT

(* Two numbers less than m apart with the same remainder are equal: what   *)
(* makes a comparison of wrapped counters as good as one of the counts.    *)
LEMMA EqualIfCongruent ==
  ASSUME NEW m \in Nat \ {0}, NEW a \in Int, NEW b \in Int,
         a % m = b % m, -m < a - b, a - b < m
  PROVE  a = b
<1> DEFINE qa == a \div m
           qb == b \div m
           r == a % m
<1>1. /\ qa \in Int /\ qb \in Int /\ r \in Int
      /\ a = (m * qa) + r
      /\ b = (m * qb) + r
  BY DivMod
<1> HIDE DEF qa, qb, r
<1>2. a - b = m * qa - m * qb
  BY <1>1
<1>3. a - b = m * (qa - qb)
  BY <1>1, <1>2, MultipleOfDifference
<1>4. qa - qb = 0
  BY <1>1, <1>3, SmallMultiple
<1> QED
  BY <1>1, <1>4

(* Adding a multiple of the modulus leaves the remainder alone. *)
LEMMA ModOfShift ==
  ASSUME NEW m \in Nat \ {0}, NEW a \in Int, NEW k \in Int
  PROVE  (a + m * k) % m = a % m
<1> DEFINE q == a \div m
           r == a % m
           b == a + m * k
           qb == b \div m
           rb == b % m
<1>1. q \in Int /\ r \in 0 .. (m - 1) /\ a = (m * q) + r
  BY DivMod
<1>2. m * k \in Int /\ b \in Int
  OBVIOUS
<1>3. qb \in Int /\ rb \in 0 .. (m - 1) /\ b = (m * qb) + rb
  BY <1>2, DivMod
<1>4. m * q + m * k = m * (q + k)
  BY <1>1
<1> HIDE DEF q, r, qb, rb
<1>5. m * (q + k) - m * qb = rb - r
  BY <1>1, <1>3, <1>4 DEF b
<1>6. m * ((q + k) - qb) = rb - r
  BY <1>1, <1>3, <1>5, MultipleOfDifference
<1>7. (q + k) - qb = 0
  BY <1>1, <1>3, <1>6, SmallMultiple
<1>8. m * ((q + k) - qb) = 0
  BY <1>1, <1>3, <1>7
<1>9. rb = r
  BY <1>1, <1>3, <1>6, <1>8
<1> QED
  BY <1>9 DEF r, rb, b

(* A wrapped counter indexes a ring whose size divides the modulus exactly *)
(* as the unwrapped count would.                                           *)
LEMMA ModOfMod ==
  ASSUME NEW s \in Nat \ {0}, NEW m \in Nat \ {0}, m % s = 0, NEW a \in Int
  PROVE  (a % m) % s = a % s
<1> DEFINE q == a \div m
           k == m \div s
           r == a % m
<1>1. q \in Int /\ r \in Int /\ a = (m * q) + r
  BY DivMod
<1>2. k \in Int /\ m = (s * k) + (m % s)
  BY DivMod
<1>3. m = s * k
  BY <1>2
<1> HIDE DEF q, k, r
<1>4. m * q = s * (k * q)
  BY <1>1, <1>2, <1>3
<1>5. k * q \in Int
  BY <1>1, <1>2
<1>6. (r + s * (k * q)) % s = r % s
  BY <1>1, <1>5, ModOfShift
<1> QED
  BY <1>1, <1>4, <1>6 DEF r

-----------------------------------------------------------------------------
(* Induction.                                                              *)

(* Every set of natural numbers has a least one: of the intervals from 0 to*)
(* its members one contains no other.                                      *)
LEMMA LeastNat ==
  ASSUME NEW S \in SUBSET Nat, S # {}
  PROVE  \E m \in S : \A n \in S : m <= n
<1> DEFINE Below == {0 .. m : m \in S}
<1>1. Below # {} /\ Below \subseteq FiniteSubsetsOf(Nat)
  <2>1. ASSUME NEW m \in S PROVE 0 .. m \in FiniteSubsetsOf(Nat)
    <3>1. IsFiniteSet(0 .. m)
      BY FS_Interval
    <3>2. 0 .. m \subseteq Nat
      OBVIOUS
    <3> QED
      BY <3>1, <3>2 DEF FiniteSubsetsOf
  <2> QED
    BY <2>1
<1>2. PICK b \in Below : \A c \in Below : ~ (<<c, b>> \in StrictSubsetOrdering(Nat))
  <2> HIDE DEF Below
  <2> QED
    BY <1>1, FS_StrictSubsetOrderingWellFounded, WFMin
<1>3. PICK m \in S : b = 0 .. m
  OBVIOUS
<1>4. ASSUME NEW n \in S, n < m PROVE FALSE
  <2>1. /\ 0 .. n \in SUBSET Nat /\ 0 .. m \in SUBSET Nat
        /\ 0 .. n \subseteq 0 .. m /\ 0 .. n # 0 .. m
    BY <1>4
  <2>2. <<0 .. n, b>> \in StrictSubsetOrdering(Nat)
    BY <2>1, <1>3 DEF StrictSubsetOrdering
  <2> QED
    BY <1>2, <2>2
<1>5. \A n \in S : m <= n
  BY <1>4
<1> QED
  BY <1>5

(* Induction, for a set instead of a formula.                              *)
LEMMA Inductive ==
  ASSUME NEW Good, 0 \in Good, \A n \in Nat : n \in Good => n + 1 \in Good
  PROVE  Nat \subseteq Good
<1> DEFINE Bad == Nat \ Good
<1> SUFFICES ASSUME Bad # {} PROVE FALSE
  OBVIOUS
<1>1. PICK m \in Bad : \A n \in Bad : m <= n
  <2>1. Bad \in SUBSET Nat
    OBVIOUS
  <2> HIDE DEF Bad
  <2> QED
    BY <2>1, LeastNat
<1>2. m # 0 /\ m \in Nat
  BY <1>1
<1>3. m - 1 \notin Bad /\ m - 1 \in Nat
  BY <1>1, <1>2
<1>4. (m - 1) + 1 = m
  BY <1>2
<1> QED
  BY <1>1, <1>3, <1>4

(* Following a link again and again.                                       *)
WayTo(link, x, n, g) == g = [i \in 0 .. n |-> IF i = 0 THEN x ELSE link[g[i - 1]]]
Way(link, x, g) == g = [i \in Nat |-> IF i = 0 THEN x ELSE link[g[i - 1]]]

LEMMA WayToSteps ==
  ASSUME NEW link, NEW x, NEW n \in Nat, NEW g, WayTo(link, x, n, g)
  PROVE  g[0] = x /\ \A i \in 1 .. n : g[i] = link[g[i - 1]]
<1>1. ASSUME NEW i \in 0 .. n PROVE g[i] = IF i = 0 THEN x ELSE link[g[i - 1]]
  BY DEF WayTo
<1> QED
  BY <1>1

LEMMA WayToExtends ==
  ASSUME NEW link, NEW x, NEW n \in Nat, NEW g, WayTo(link, x, n, g)
  PROVE  \E h : WayTo(link, x, n + 1, h)
<1>1. g[0] = x /\ \A i \in 1 .. n : g[i] = link[g[i - 1]]
  <2>1. ASSUME NEW i \in 0 .. n PROVE g[i] = IF i = 0 THEN x ELSE link[g[i - 1]]
    BY DEF WayTo
  <2> QED
    BY <2>1
<1> DEFINE h == [i \in 0 .. n + 1 |-> IF i <= n THEN g[i] ELSE link[g[n]]]
<1>2. ASSUME NEW i \in 0 .. n + 1 PROVE h[i] = IF i = 0 THEN x ELSE link[h[i - 1]]
  <2>1. CASE i = 0
    BY <1>1, <2>1
  <2>2. CASE i \in 1 .. n
    <3>1. h[i] = g[i] /\ h[i - 1] = g[i - 1]
      BY <2>2
    <3> QED
      BY <1>1, <2>2, <3>1
  <2>3. CASE i = n + 1
    <3>1. h[i] = link[g[n]] /\ h[i - 1] = g[n]
      BY <2>3
    <3> QED
      BY <2>3, <3>1
  <2> QED
    BY <2>1, <2>2, <2>3
<1>3. h = [i \in 0 .. n + 1 |-> h[i]]
  OBVIOUS
<1>4. WayTo(link, x, n + 1, h)
  <2> HIDE DEF h
  <2> QED
    BY <1>2, <1>3 DEF WayTo
<1> QED
  BY <1>4

LEMMA WaysAgree ==
  ASSUME NEW link, NEW x, NEW n \in Nat, NEW g, NEW k \in Nat, NEW h,
         WayTo(link, x, n, g), WayTo(link, x, k, h), NEW i \in Nat, i <= n, i <= k
  PROVE  g[i] = h[i]
<1>1. g[0] = x /\ \A j \in 1 .. n : g[j] = link[g[j - 1]]
  <2>1. ASSUME NEW j \in 0 .. n PROVE g[j] = IF j = 0 THEN x ELSE link[g[j - 1]]
    BY DEF WayTo
  <2> QED
    BY <2>1
<1>2. h[0] = x /\ \A j \in 1 .. k : h[j] = link[h[j - 1]]
  <2>1. ASSUME NEW j \in 0 .. k PROVE h[j] = IF j = 0 THEN x ELSE link[h[j - 1]]
    BY DEF WayTo
  <2> QED
    BY <2>1
<1> DEFINE Good == {j \in Nat : j <= n /\ j <= k => g[j] = h[j]}
<1>3. 0 \in Good
  BY <1>1, <1>2
<1>4. ASSUME NEW j \in Nat, j \in Good PROVE j + 1 \in Good
  <2>1. (j + 1) - 1 = j
    OBVIOUS
  <2> QED
    BY <1>1, <1>2, <1>4, <2>1
<1>5. Nat \subseteq Good
  <2> HIDE DEF Good
  <2> QED
    BY <1>3, <1>4, Inductive
<1> QED
  BY <1>5

LEMMA WayExists ==
  ASSUME NEW link, NEW x
  PROVE  \E g : Way(link, x, g)
<1> DEFINE Good == {n \in Nat : \E g : WayTo(link, x, n, g)}
<1>1. 0 \in Good
  <2>1. WayTo(link, x, 0, [i \in 0 .. 0 |-> x])
    BY DEF WayTo
  <2> QED
    BY <2>1
<1>2. ASSUME NEW n \in Nat, n \in Good PROVE n + 1 \in Good
  BY <1>2, WayToExtends
<1>3. ASSUME NEW n \in Nat PROVE \E g : WayTo(link, x, n, g)
  <2>1. Nat \subseteq Good
    <3> HIDE DEF Good
    <3> QED
      BY <1>1, <1>2, Inductive
  <2> QED
    BY <2>1
<1> DEFINE to(n) == CHOOSE g : WayTo(link, x, n, g)
<1>4. ASSUME NEW n \in Nat PROVE WayTo(link, x, n, to(n))
  BY <1>3
<1> DEFINE way == [n \in Nat |-> to(n)[n]]
<1>5. ASSUME NEW n \in Nat PROVE way[n] = IF n = 0 THEN x ELSE link[way[n - 1]]
  <2> HIDE DEF to
  <2>1. WayTo(link, x, n, to(n)) /\ way[n] = to(n)[n]
    BY <1>4
  <2>2. CASE n = 0
    <3>1. to(n)[0] = x
      BY <2>1, WayToSteps
    <3> QED
      BY <2>1, <2>2, <3>1
  <2>3. CASE n # 0
    <3>1. n - 1 \in Nat /\ n \in 1 .. n /\ n - 1 <= n
      BY <2>3
    <3>2. WayTo(link, x, n - 1, to(n - 1)) /\ way[n - 1] = to(n - 1)[n - 1]
      BY <1>4, <3>1
    <3>3. to(n)[n] = link[to(n)[n - 1]]
      <4>1. \A i \in 1 .. n : to(n)[i] = link[to(n)[i - 1]]
        BY ONLY n \in Nat, <2>1, WayToSteps
      <4> QED
        BY <3>1, <4>1
    <3>4. to(n)[n - 1] = to(n - 1)[n - 1]
      BY <2>1, <3>1, <3>2, WaysAgree
    <3> QED
      BY <2>1, <2>3, <3>2, <3>3, <3>4
  <2> QED
    BY <2>2, <2>3
<1>6. way = [n \in Nat |-> way[n]]
  OBVIOUS
<1>7. Way(link, x, way)
  <2> HIDE DEF way
  <2> QED
    BY <1>5, <1>6 DEF Way
<1> QED
  BY <1>7

(* Induction on the length of sequences.                                   *)
LEMMA InductiveSeq ==
  ASSUME NEW S, NEW Good, << >> \in Good,
         \A s \in Seq(S), x \in S : s \in Good => Append(s, x) \in Good
  PROVE  Seq(S) \subseteq Good
<1> DEFINE Lengths == {n \in Nat : \A s \in Seq(S) : Len(s) = n => s \in Good}
<1>1. 0 \in Lengths
  BY EmptySeq
<1>2. ASSUME NEW n \in Nat, n \in Lengths PROVE n + 1 \in Lengths
  <2> SUFFICES ASSUME NEW s \in Seq(S), Len(s) = n + 1 PROVE s \in Good
    OBVIOUS
  <2>1. s # << >>
    BY EmptySeq
  <2>2. PICK q \in Seq(S), x \in S : s = Append(q, x)
    BY <2>1, SequenceEmptyOrAppend
  <2>3. Len(q) = n
    <3>1. Len(s) = Len(q) + 1 /\ Len(q) \in Nat
      BY <2>2, AppendProperties, LenProperties
    <3> QED
      BY <3>1
  <2>4. q \in Good
    BY <1>2, <2>3
  <2> QED
    BY <2>2, <2>4
<1>3. Nat \subseteq Lengths
  <2> HIDE DEF Lengths
  <2> QED
    BY <1>1, <1>2, Inductive
<1> QED
  BY <1>3, LenProperties
=============================================================================
