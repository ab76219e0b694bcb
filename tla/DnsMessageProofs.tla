-------------------------- MODULE DnsMessageProofs --------------------------
(***************************************************************************)
(* Proofs about reading and writing DNS messages, for any names and any    *)
(* records: the parser gets back the name a query was written with, the    *)
(* walk over an answer's records finds the address of the first A record,  *)
(* and a reply reads back.                                                 *)
(***************************************************************************)
EXTENDS DnsMessage, DataLemmas

-----------------------------------------------------------------------------
(* Names spelled along links that lead forward: a place in S ends the     *)
(* name, any other puts its part in front of what follows at the place N. *)
Pos == Nat \ {0}
Spelled(S, N, H, f) ==
  f = [p \in Pos |-> IF p \in S THEN [host |-> << >>, end |-> p + 1]
                     ELSE [host |-> H[p] \o f[N[p]].host, end |-> f[N[p]].end]]

LEMMA SpelledExists ==
  ASSUME NEW L \in Nat, NEW S, NEW N, NEW H,
         \A p \in Pos : p \notin S => p <= L /\ N[p] \in Pos /\ N[p] > p
  PROVE  \E f : Spelled(S, N, H, f)
<1> DEFINE Body(p, f) == IF p \in S THEN [host |-> << >>, end |-> p + 1]
                         ELSE [host |-> H[p] \o f[N[p]].host, end |-> f[N[p]].end]
           Upper(k, f) == \A p \in Pos : p + k > L => f[p] = Body(p, f)
           P(k) == \E f : f = [p \in Pos |-> f[p]] /\ Upper(k, f)
<1>1. P(0)
  <2> DEFINE f == [p \in Pos |-> [host |-> << >>, end |-> p + 1]]
  <2>1. Upper(0, f)
    BY DEF Pos
  <2>2. f = [p \in Pos |-> f[p]]
    OBVIOUS
  <2> HIDE DEF f, Upper
  <2> QED
    BY <2>1, <2>2
<1>2. ASSUME NEW k \in Nat, P(k) PROVE P(k + 1)
  <2>1. PICK f : f = [p \in Pos |-> f[p]] /\ Upper(k, f)
    BY Zenon, <1>2
  <2> DEFINE g == [p \in Pos |-> IF p + k = L THEN Body(p, f) ELSE f[p]]
  <2>2. ASSUME NEW p \in Pos, p + (k + 1) > L PROVE g[p] = Body(p, g)
    <3>1. p + k = L \/ p + k > L
      BY <2>2 DEF Pos
    <3>2. g[p] = Body(p, f)
      <4> HIDE DEF Body
      <4> QED
        BY <2>1, <3>1
    <3>3. CASE p \in S
      BY ONLY <3>2, <3>3
    <3>4. CASE p \notin S
      <4>1. N[p] \in Pos /\ N[p] > p
        BY <3>4
      <4>2. N[p] + k # L
        BY <3>1, <4>1 DEF Pos
      <4>3. g[N[p]] = f[N[p]]
        BY <3>1, <4>1, <4>2 DEF Pos
      <4> HIDE DEF g
      <4> QED
        BY ONLY <3>2, <3>4, <4>3
    <3> QED
      BY ONLY Zenon, <3>3, <3>4
  <2>3. g = [p \in Pos |-> g[p]]
    OBVIOUS
  <2> HIDE DEF g, Body
  <2>4. Upper(k + 1, g)
    BY <2>2
  <2> HIDE DEF Upper
  <2> QED
    BY <2>3, <2>4
<1>3. \A k \in Nat : P(k)
  <2> HIDE DEF P
  <2> DEFINE Good == {k \in Nat : P(k)}
  <2>1. 0 \in Good
    BY <1>1
  <2>2. ASSUME NEW k \in Nat, k \in Good PROVE k + 1 \in Good
    BY <1>2, <2>2
  <2>3. Nat \subseteq Good
    <3> HIDE DEF Good
    <3> QED
      BY <2>1, <2>2, Inductive
  <2> QED
    BY <2>3
<1>4. PICK f : f = [p \in Pos |-> f[p]] /\ Upper(L + 1, f)
  <2>1. P(L + 1)
    <3> HIDE DEF P
    <3> QED
      BY <1>3
  <2> HIDE DEF Upper
  <2> QED
    BY <2>1
<1>5. f = [p \in Pos |-> Body(p, f)]
  <2>1. ASSUME NEW p \in Pos PROVE f[p] = Body(p, f)
    <3>1. p + (L + 1) > L
      BY DEF Pos
    <3> HIDE DEF Body
    <3> QED
      BY <1>4, <3>1
  <2> HIDE DEF Body
  <2> QED
    BY <1>4, <2>1
<1> QED
  BY <1>5 DEF Spelled

-----------------------------------------------------------------------------
(* Sequences put one behind the other.                                     *)

FlattenTo(ss, n, f) == f = [i \in 1 .. n |-> IF i = 1 THEN ss[i] ELSE f[i - 1] \o ss[i]]

LEMMA FlattenToExtends ==
  ASSUME NEW ss, NEW n \in Nat, NEW f, FlattenTo(ss, n, f)
  PROVE  \E g : FlattenTo(ss, n + 1, g)
<1>1. ASSUME NEW i \in 1 .. n PROVE f[i] = IF i = 1 THEN ss[i] ELSE f[i - 1] \o ss[i]
  BY DEF FlattenTo
<1> DEFINE g == [i \in 1 .. n + 1 |->
                   IF i <= n THEN f[i] ELSE IF i = 1 THEN ss[i] ELSE f[n] \o ss[n + 1]]
<1>2. ASSUME NEW i \in 1 .. n + 1 PROVE g[i] = IF i = 1 THEN ss[i] ELSE g[i - 1] \o ss[i]
  <2>1. CASE i <= n /\ i = 1
    <3>1. g[i] = f[i] /\ i \in 1 .. n
      BY <2>1
    <3> QED
      BY <1>1, <2>1, <3>1
  <2>2. CASE i <= n /\ i # 1
    <3>1. g[i] = f[i] /\ g[i - 1] = f[i - 1] /\ i \in 1 .. n
      BY <2>2
    <3> QED
      BY <1>1, <2>2, <3>1
  <2>3. CASE i = n + 1 /\ i = 1
    BY <2>3
  <2>4. CASE i = n + 1 /\ i # 1
    <3>1. i - 1 = n /\ n \in 1 .. n + 1 /\ ~ (i <= n) /\ n <= n
      BY <2>4
    <3>2. g[i] = f[n] \o ss[n + 1]
      BY <2>4, <3>1
    <3>3. g[n] = f[n]
      BY <3>1
    <3> QED
      BY ONLY <2>4, <3>1, <3>2, <3>3
  <2> QED
    BY <2>1, <2>2, <2>3, <2>4
<1>3. g = [i \in 1 .. n + 1 |-> g[i]]
  OBVIOUS
<1>4. FlattenTo(ss, n + 1, g)
  <2> HIDE DEF g
  <2> QED
    BY <1>2, <1>3 DEF FlattenTo
<1> QED
  BY <1>4

LEMMA FlattenToExists ==
  ASSUME NEW ss, NEW n \in Nat
  PROVE  \E f : FlattenTo(ss, n, f)
<1> DEFINE Good == {k \in Nat : \E f : FlattenTo(ss, k, f)}
<1>1. 0 \in Good
  <2> DEFINE f == [i \in 1 .. 0 |-> << >>]
  <2>1. f = [i \in 1 .. 0 |-> IF i = 1 THEN ss[i] ELSE f[i - 1] \o ss[i]]
    OBVIOUS
  <2> HIDE DEF f
  <2> QED
    BY <2>1 DEF FlattenTo
<1>2. ASSUME NEW k \in Nat, k \in Good PROVE k + 1 \in Good
  BY <1>2, FlattenToExtends
<1>3. Nat \subseteq Good
  <2> HIDE DEF Good
  <2> QED
    BY <1>1, <1>2, Inductive
<1> QED
  BY <1>3

(* What the first i sequences give.                                        *)
Parts(ss, f) ==
  /\ f[0] = << >>
  /\ \A i \in 1 .. Len(ss) : f[i] = f[i - 1] \o ss[i]
  /\ FlattenSeq(ss) = f[Len(ss)]

LEMMA FlattenParts ==
  ASSUME NEW S, NEW ss \in Seq(Seq(S))
  PROVE  \E f \in [0 .. Len(ss) -> Seq(S)] : Parts(ss, f)
<1>1. PICK n \in Nat : n = Len(ss) /\ \A i \in 1 .. n : ss[i] \in Seq(S)
  BY LenProperties, ElementOfSeq
<1>2. PICK f : FlattenTo(ss, n, f) /\ (n # 0 => FlattenSeq(ss) = f[n])
  <2> DEFINE f == CHOOSE g : FlattenTo(ss, n, g)
  <2>1. FlattenTo(ss, n, f)
    BY FlattenToExists
  <2>2. n # 0 => FlattenSeq(ss) = f[n]
    BY <1>1 DEF FlattenSeq, FlattenTo
  <2> HIDE DEF f
  <2> QED
    BY <2>1, <2>2
<1>3. \A i \in 1 .. n : f[i] = IF i = 1 THEN ss[i] ELSE f[i - 1] \o ss[i]
  <2> SUFFICES ASSUME NEW i \in 1 .. n PROVE f[i] = IF i = 1 THEN ss[i] ELSE f[i - 1] \o ss[i]
    OBVIOUS
  <2> QED
    BY <1>2 DEF FlattenTo
<1> DEFINE g == [i \in 0 .. n |-> IF i = 0 THEN << >> ELSE f[i]]
<1>4. g[0] = << >>
  OBVIOUS
<1>5. ASSUME NEW i \in 1 .. n PROVE g[i] = g[i - 1] \o ss[i]
  <2>1. CASE i = 1
    <3>1. g[i] = ss[i] /\ g[i - 1] = << >>
      BY <1>3, <2>1
    <3>2. << >> \o ss[i] = ss[i]
      BY <1>1, ConcatEmptySeq
    <3> QED
      BY <3>1, <3>2
  <2>2. CASE i # 1
    <3>1. g[i] = f[i] /\ g[i - 1] = f[i - 1]
      BY <2>2
    <3> QED
      BY <1>3, <2>2, <3>1
  <2> QED
    BY <2>1, <2>2
<1>6. FlattenSeq(ss) = g[n]
  <2>1. CASE n = 0
    <3>1. ss = << >>
      BY <1>1, <2>1, EmptySeq
    <3>2. FlattenSeq(ss) = ss
      BY <1>1, <2>1 DEF FlattenSeq
    <3> QED
      BY <1>4, <2>1, <3>1, <3>2
  <2>2. CASE n # 0
    BY <1>2, <2>2
  <2> QED
    BY <2>1, <2>2
<1>7. g = [i \in 0 .. n |-> g[i]]
  OBVIOUS
<1> HIDE DEF g
<1> DEFINE Good == {k \in Nat : k <= n => g[k] \in Seq(S)}
<1>8. 0 \in Good
  BY <1>4, EmptySeq
<1>9. ASSUME NEW k \in Nat, k \in Good PROVE k + 1 \in Good
  <2> SUFFICES ASSUME k + 1 <= n PROVE g[k + 1] \in Seq(S)
    OBVIOUS
  <2>1. k + 1 \in 1 .. n /\ (k + 1) - 1 = k /\ g[k] \in Seq(S)
    BY <1>9
  <2>2. g[k + 1] = g[k] \o ss[k + 1] /\ ss[k + 1] \in Seq(S)
    BY <1>1, <1>5, <2>1
  <2> QED
    BY <2>1, <2>2, ConcatProperties
<1>10. Nat \subseteq Good
  <2> HIDE DEF Good
  <2> QED
    BY <1>8, <1>9, Inductive
<1>11. g \in [0 .. n -> Seq(S)]
  BY <1>7, <1>10
<1> QED
  BY <1>1, <1>4, <1>5, <1>6, <1>11 DEF Parts

LEMMA FlattenType ==
  ASSUME NEW S, NEW ss \in Seq(Seq(S))
  PROVE  FlattenSeq(ss) \in Seq(S)
<1>1. PICK f \in [0 .. Len(ss) -> Seq(S)] : Parts(ss, f)
  BY FlattenParts
<1>2. Len(ss) \in 0 .. Len(ss)
  BY LenProperties
<1> QED
  BY <1>1, <1>2 DEF Parts

(* Put together from the back it comes to the same.                        *)
BothEnds(S, n, ss, f, h) ==
  /\ n \in Nat
  /\ \A i \in 1 .. n : ss[i] \in Seq(S)
  /\ \A i \in 0 .. n : f[i] \in Seq(S)
  /\ f[0] = << >> /\ \A i \in 1 .. n : f[i] = f[i - 1] \o ss[i]
  /\ h[n + 1] = << >> /\ \A i \in 1 .. n : h[i] = ss[i] \o h[i + 1]
EndsMeet(n, f, h) == f[n] = h[1]

LEMMA FrontAndBack == \A S, n, ss, f, h : BothEnds(S, n, ss, f, h) => EndsMeet(n, f, h)
<1> SUFFICES ASSUME NEW S, NEW n, NEW ss, NEW f, NEW h, BothEnds(S, n, ss, f, h) PROVE f[n] = h[1]
  BY Zenon DEF EndsMeet
<1> n \in Nat
  BY Zenon DEF BothEnds
<1>1. \A i \in 1 .. n : ss[i] \in Seq(S)
  BY Zenon DEF BothEnds
<1>2. \A i \in 0 .. n : f[i] \in Seq(S)
  BY Zenon DEF BothEnds
<1>3. f[0] = << >> /\ \A i \in 1 .. n : f[i] = f[i - 1] \o ss[i]
  BY Zenon DEF BothEnds
<1>h. h[n + 1] = << >> /\ \A i \in 1 .. n : h[i] = ss[i] \o h[i + 1]
  BY Zenon DEF BothEnds
<1> DEFINE P(k) == \A i \in 1 .. n + 1 : i + k > n => h[i] \in Seq(S)
           Q(k) == k <= n => f[k] \o h[k + 1] = h[1]
<1>4. P(0)
  <2> SUFFICES ASSUME NEW i \in 1 .. n + 1, i + 0 > n PROVE h[i] \in Seq(S)
    OBVIOUS
  <2>1. i = n + 1 /\ << >> \in Seq(S)
    BY EmptySeq
  <2> QED
    BY ONLY <1>h, <2>1
<1>5. ASSUME NEW k \in Nat, P(k) PROVE P(k + 1)
  <2> SUFFICES ASSUME NEW i \in 1 .. n + 1, i + (k + 1) > n PROVE h[i] \in Seq(S)
    OBVIOUS
  <2>1. CASE i = n + 1
    <3>1. << >> \in Seq(S)
      BY EmptySeq
    <3> QED
      BY ONLY <1>h, <2>1, <3>1
  <2>2. CASE i # n + 1
    <3>1. i \in 1 .. n /\ i + 1 \in 1 .. n + 1 /\ (i + 1) + k > n
      BY <2>2
    <3>2. PICK a, b \in Seq(S) : a = ss[i] /\ b = h[i + 1]
      BY <1>1, <1>5, <3>1
    <3>3. a \o b \in Seq(S)
      BY ONLY a \in Seq(S), b \in Seq(S), ConcatProperties
    <3> QED
      BY ONLY <1>h, <3>1, <3>2, <3>3
  <2> QED
    BY ONLY <2>1, <2>2
<1>6. \A k \in Nat : P(k)
  <2> HIDE DEF P
  <2> DEFINE Good == {k \in Nat : P(k)}
  <2>1. 0 \in Good
    BY <1>4
  <2>2. ASSUME NEW k \in Nat, k \in Good PROVE k + 1 \in Good
    BY <1>5, <2>2
  <2>3. Nat \subseteq Good
    <3> HIDE DEF Good
    <3> QED
      BY <2>1, <2>2, Inductive
  <2> QED
    BY <2>3
<1>7. ASSUME NEW i \in 1 .. n + 1 PROVE h[i] \in Seq(S)
  <2>1. P(n)
    <3> HIDE DEF P
    <3> QED
      BY <1>6
  <2>2. i + n > n
    OBVIOUS
  <2> QED
    BY <2>1, <2>2
<1>8. Q(0)
  <2>1. 0 + 1 = 1 /\ 1 \in 1 .. n + 1
    OBVIOUS
  <2>2. h[1] \in Seq(S)
    BY <1>7, <2>1
  <2>3. << >> \o h[1] = h[1]
    BY ONLY <2>2, ConcatEmptySeq
  <2> QED
    BY ONLY <1>3, <2>1, <2>3
<1>9. ASSUME NEW k \in Nat, Q(k) PROVE Q(k + 1)
  <2> SUFFICES ASSUME k + 1 <= n PROVE f[k + 1] \o h[(k + 1) + 1] = h[1]
    OBVIOUS
  <2>1. k <= n /\ k \in 0 .. n /\ k + 1 \in 1 .. n /\ (k + 1) - 1 = k /\ (k + 1) + 1 \in 1 .. n + 1
    OBVIOUS
  <2>2. PICK a, b, c \in Seq(S) : a = f[k] /\ b = ss[k + 1] /\ c = h[(k + 1) + 1]
    <3>1. f[k] \in Seq(S)
      BY <1>2, <2>1
    <3>2. ss[k + 1] \in Seq(S)
      BY <1>1, <2>1
    <3>3. h[(k + 1) + 1] \in Seq(S)
      BY <1>7, <2>1
    <3> QED
      BY ONLY <3>1, <3>2, <3>3
  <2>3. f[k] \o h[k + 1] = h[1]
    BY ONLY <1>9, <2>1
  <2>4. f[k + 1] = a \o b
    BY ONLY <1>3, <2>1, <2>2
  <2>5. h[k + 1] = b \o c
    BY ONLY <1>h, <2>1, <2>2
  <2>6. (a \o b) \o c = a \o (b \o c)
    BY ONLY a \in Seq(S), b \in Seq(S), c \in Seq(S), ConcatAssociative
  <2> QED
    BY ONLY <2>2, <2>3, <2>4, <2>5, <2>6
<1>10. \A k \in Nat : Q(k)
  <2> HIDE DEF Q
  <2> DEFINE Good == {k \in Nat : Q(k)}
  <2>1. 0 \in Good
    BY <1>8
  <2>2. ASSUME NEW k \in Nat, k \in Good PROVE k + 1 \in Good
    BY <1>9, <2>2
  <2>3. Nat \subseteq Good
    <3> HIDE DEF Good
    <3> QED
      BY <2>1, <2>2, Inductive
  <2> QED
    BY <2>3
<1>11. f[n] \o h[n + 1] = h[1]
  <2>1. Q(n)
    <3> HIDE DEF Q
    <3> QED
      BY <1>10
  <2>2. n <= n
    OBVIOUS
  <2> QED
    BY ONLY <2>1, <2>2
<1>12. f[n] \o << >> = f[n]
  <2>1. f[n] \in Seq(S)
    <3>1. n \in 0 .. n
      OBVIOUS
    <3> QED
      BY <1>2, <3>1
  <2> QED
    BY ONLY <2>1, ConcatEmptySeq
<1> QED
  BY ONLY <1>h, <1>3, <1>11, <1>12

LEMMA FlattenBack ==
  ASSUME NEW S, NEW ss \in Seq(Seq(S)), NEW h, h[Len(ss) + 1] = << >>,
         \A i \in 1 .. Len(ss) : h[i] = ss[i] \o h[i + 1]
  PROVE  FlattenSeq(ss) = h[1]
<1>1. PICK n \in Nat : n = Len(ss) /\ \A i \in 1 .. n : ss[i] \in Seq(S)
  BY LenProperties, ElementOfSeq
<1>h. h[n + 1] = << >> /\ \A i \in 1 .. n : h[i] = ss[i] \o h[i + 1]
  BY <1>1
<1>2. PICK f \in [0 .. n -> Seq(S)] : Parts(ss, f)
  BY <1>1, FlattenParts
<1>3. /\ f[0] = << >> /\ FlattenSeq(ss) = f[n]
      /\ \A i \in 1 .. n : f[i] = f[i - 1] \o ss[i]
  BY <1>1, <1>2 DEF Parts
<1>4. \A i \in 0 .. n : f[i] \in Seq(S)
  BY <1>2
<1>5. f[n] = h[1]
  <2>1. BothEnds(S, n, ss, f, h)
    BY ONLY n \in Nat, <1>1, <1>h, <1>3, <1>4, Zenon DEF BothEnds
  <2>2. EndsMeet(n, f, h)
    BY ONLY <2>1, FrontAndBack, Zenon
  <2> QED
    BY ONLY <2>2, Zenon DEF EndsMeet
<1> QED
  BY <1>3, <1>5

(* s is t from the place behind a on.                                      *)
LiesAt(t, a, s) == \A k \in 1 .. Len(s) : t[a + k] = s[k]

LEMMA LiesAtEnd ==
  ASSUME NEW S, NEW a \in Seq(S), NEW b \in Seq(S)
  PROVE  LiesAt(a \o b, Len(a), b)
<1>1. Len(a) \in Nat /\ Len(b) \in Nat
  BY LenProperties
<1>2. \A k \in 1 .. Len(a) + Len(b) : (a \o b)[k] = IF k <= Len(a) THEN a[k] ELSE b[k - Len(a)]
  BY ConcatProperties
<1>3. \A k \in 1 .. Len(b) : /\ Len(a) + k \in 1 .. Len(a) + Len(b) /\ ~ (Len(a) + k <= Len(a))
                             /\ (Len(a) + k) - Len(a) = k
  BY <1>1
<1> QED
  BY <1>2, <1>3 DEF LiesAt

LEMMA LiesAtKept ==
  ASSUME NEW S, NEW t \in Seq(S), NEW u \in Seq(S), NEW s \in Seq(S), NEW a \in Nat,
         LiesAt(t, a, s), a + Len(s) <= Len(t)
  PROVE  LiesAt(t \o u, a, s)
<1>1. Len(t) \in Nat /\ Len(u) \in Nat /\ Len(s) \in Nat
  BY LenProperties
<1>2. \A k \in 1 .. Len(t) + Len(u) : (t \o u)[k] = IF k <= Len(t) THEN t[k] ELSE u[k - Len(t)]
  BY ConcatProperties
<1>3. \A k \in 1 .. Len(s) : a + k \in 1 .. Len(t) + Len(u) /\ a + k <= Len(t)
  BY <1>1
<1> QED
  BY <1>2, <1>3 DEF LiesAt

(* Where each sequence begins, less one.                                   *)
Places(ss, off) ==
  /\ off \in [0 .. Len(ss) -> Nat]
  /\ off[0] = 0 /\ off[Len(ss)] = Len(FlattenSeq(ss))
  /\ \A i \in 1 .. Len(ss) :
       /\ off[i] = off[i - 1] + Len(ss[i]) /\ off[i] <= off[Len(ss)]
       /\ LiesAt(FlattenSeq(ss), off[i - 1], ss[i])

LEMMA FlattenPlaces ==
  ASSUME NEW S, NEW ss \in Seq(Seq(S))
  PROVE  \E off : Places(ss, off)
<1>1. PICK n \in Nat : /\ n = Len(ss)
                      /\ \A i \in 1 .. n : ss[i] \in Seq(S) /\ Len(ss[i]) \in Nat
  BY LenProperties, ElementOfSeq
<1>2. PICK f \in [0 .. n -> Seq(S)] : Parts(ss, f)
  BY <1>1, FlattenParts
<1>3. /\ f[0] = << >> /\ FlattenSeq(ss) = f[n]
      /\ \A i \in 1 .. n : f[i] = f[i - 1] \o ss[i]
  BY <1>1, <1>2 DEF Parts
<1>4. PICK off \in [0 .. n -> Nat] : \A i \in 0 .. n : off[i] = Len(f[i])
  <2>1. \A i \in 0 .. n : Len(f[i]) \in Nat
    BY <1>2, LenProperties
  <2>2. [i \in 0 .. n |-> Len(f[i])] \in [0 .. n -> Nat]
    BY <2>1
  <2> QED
    BY <2>2
<1>5. off[0] = 0 /\ off[n] = Len(FlattenSeq(ss))
  BY <1>3, <1>4, EmptySeq
<1>6. ASSUME NEW i \in 1 .. n
      PROVE  off[i] = off[i - 1] + Len(ss[i]) /\ LiesAt(f[i], off[i - 1], ss[i])
  <2>0. i \in 0 .. n /\ i - 1 \in 0 .. n
    OBVIOUS
  <2>1. PICK a, b \in Seq(S) : a = f[i - 1] /\ b = ss[i]
    <3>1. f[i - 1] \in Seq(S)
      BY <2>0
    <3>2. ss[i] \in Seq(S)
      BY <1>1
    <3> QED
      BY ONLY <3>1, <3>2
  <2>2. Len(a \o b) = Len(a) + Len(b) /\ LiesAt(a \o b, Len(a), b)
    BY ONLY a \in Seq(S), b \in Seq(S), ConcatProperties, LiesAtEnd
  <2>3. f[i] = a \o b
    BY ONLY i \in 1 .. n, <1>3, <2>1
  <2>4. off[i - 1] = Len(a) /\ off[i] = Len(a \o b)
    BY ONLY <1>4, <2>0, <2>1, <2>3
  <2> QED
    BY ONLY <2>1, <2>2, <2>3, <2>4
<1> DEFINE Fits(i, j) == off[i] <= off[j] /\ LiesAt(f[j], off[i - 1], ss[i])
           Good == {j \in Nat : j <= n => \A i \in 1 .. j : Fits(i, j)}
<1>7. 0 \in Good
  <2> HIDE DEF Fits
  <2> QED
    OBVIOUS
<1>8. ASSUME NEW j \in Nat, j \in Good PROVE j + 1 \in Good
  <2> SUFFICES ASSUME j + 1 <= n, NEW i \in 1 .. j + 1 PROVE Fits(i, j + 1)
    <3> HIDE DEF Fits
    <3> QED
      OBVIOUS
  <2>1. /\ j + 1 \in 1 .. n /\ (j + 1) - 1 = j /\ i \in 1 .. n /\ i - 1 \in 0 .. n
        /\ j \in 0 .. n /\ j + 1 \in 0 .. n /\ i \in 0 .. n
    OBVIOUS
  <2>2. CASE i = j + 1
    <3>1. LiesAt(f[i], off[i - 1], ss[i]) /\ off[i] \in Nat
      BY <1>6, <2>1
    <3> QED
      BY <2>2, <3>1
  <2>3. CASE i # j + 1
    <3>1. Fits(i, j)
      <4>1. i \in 1 .. j /\ j <= n
        BY <2>3
      <4> HIDE DEF Fits
      <4> QED
        BY <1>8, <4>1
    <3>2. PICK a \in Nat, b \in Nat, c \in Nat, d \in Nat :
            a = off[i - 1] /\ b = off[i] /\ c = off[j] /\ d = off[j + 1]
      BY <1>4, <2>1
    <3>3. PICK s \in Seq(S), t \in Seq(S), u \in Seq(S) : s = ss[i] /\ t = f[j] /\ u = ss[j + 1]
      BY <1>1, <1>2, <2>1
    <3>4. b = a + Len(s) /\ d = c + Len(u) /\ c = Len(t) /\ Len(u) \in Nat /\ f[j + 1] = t \o u
      BY <1>1, <1>3, <1>4, <1>6, <2>1, <3>2, <3>3
    <3>5. b <= c /\ LiesAt(t, a, s)
      BY <3>1, <3>2, <3>3
    <3>6. LiesAt(t \o u, a, s)
      BY ONLY s \in Seq(S), t \in Seq(S), u \in Seq(S), a \in Nat, <3>4, <3>5, LiesAtKept
    <3>7. b <= d
      BY <3>4, <3>5
    <3> QED
      BY <3>2, <3>3, <3>4, <3>6, <3>7
  <2> QED
    BY <2>2, <2>3
<1>9. \A i \in 1 .. n : Fits(i, n)
  <2>1. n \in Good
    <3>1. Nat \subseteq Good
      <4> HIDE DEF Good
      <4> QED
        BY <1>7, <1>8, Inductive
    <3> QED
      BY <3>1
  <2> HIDE DEF Fits
  <2> QED
    BY <2>1
<1>10. \A i \in 1 .. n : off[i] <= off[n] /\ LiesAt(f[n], off[i - 1], ss[i])
  BY <1>9
<1>11. \A i \in 1 .. n : off[i] = off[i - 1] + Len(ss[i])
  BY <1>6
<1> QED
  BY <1>1, <1>3, <1>5, <1>10, <1>11 DEF Places

-----------------------------------------------------------------------------
(* The parser. *)

(* The labels stand one behind the other from the place at[1] on, each     *)
(* behind its length, with a zero behind the last one.                     *)
Spells(msg, at, labels) ==
  /\ at \in [1 .. Len(labels) + 1 -> Pos]
  /\ Zero(msg, at[Len(labels) + 1])
  /\ \A i \in 1 .. Len(labels) :
       /\ at[i] <= Len(msg) /\ msg[at[i]] = Len(labels[i])
       /\ SubSeq(msg, at[i] + 1, at[i] + Len(labels[i])) = labels[i]
       /\ at[i + 1] = at[i] + 1 + Len(labels[i])

(* A name's labels are not empty: only the root is.                        *)
Labels(S) == {s \in Seq(S) : Len(s) >= 1}

(* The label i of a name with what the parser puts behind it.              *)
Dots(labels) == [i \in DOMAIN labels |-> labels[i] \o (IF i < Len(labels) THEN <<Dot>> ELSE << >>)]

LEMMA DotsType ==
  ASSUME NEW labels, NEW n \in Nat, DOMAIN labels = 1 .. n, Len(labels) = n,
         \A i \in 1 .. n : labels[i] \in Seq(Nat)
  PROVE  Dots(labels) \in Seq(Seq(Nat)) /\ Len(Dots(labels)) = n
<1>1. <<Dot>> \in Seq(Nat) /\ << >> \in Seq(Nat)
  BY DEF Dot
<1> HIDE DEF Dot
<1>2. ASSUME NEW i \in 1 .. n PROVE Dots(labels)[i] \in Seq(Nat)
  <2>1. PICK d \in Seq(Nat) : d = IF i < Len(labels) THEN <<Dot>> ELSE << >>
    BY <1>1
  <2>2. PICK s \in Seq(Nat) : s = labels[i]
    OBVIOUS
  <2>3. s \o d \in Seq(Nat)
    BY ONLY s \in Seq(Nat), d \in Seq(Nat), ConcatProperties
  <2> QED
    BY <2>1, <2>2, <2>3 DEF Dots
<1>3. Dots(labels) = [i \in 1 .. n |-> Dots(labels)[i]]
  BY DEF Dots
<1>4. Dots(labels) \in [1 .. n -> Seq(Nat)]
  BY SMTT(30), <1>2, <1>3
<1> QED
  BY <1>4, LenProperties

(* The parser gets the name that stands behind the header, its labels      *)
(* joined by dots, and the place behind the zero.                          *)
LEMMA QuestionSpells ==
  ASSUME NEW msg \in Seq(Nat), NEW at, NEW labels \in Seq(Labels(Nat)),
         Spells(msg, at, labels), at[1] = HeaderLen + 1
  PROVE  Question(msg) = [host |-> Dotted(labels), end |-> at[Len(labels) + 1] + 1]
<1>1. PICK n \in Nat : n = Len(labels) /\ DOMAIN labels = 1 .. n
  BY LenProperties
<1>2. \A i \in 1 .. n : labels[i] \in Seq(Nat) /\ Len(labels[i]) \in Nat /\ Len(labels[i]) >= 1
  BY <1>1, ElementOfSeq, LenProperties DEF Labels
<1>3. PICK L \in Nat : L = Len(msg) /\ \A p \in 1 .. L : msg[p] \in Nat
  BY LenProperties, ElementOfSeq
<1>s. /\ at \in [1 .. n + 1 -> Pos] /\ Zero(msg, at[n + 1])
      /\ \A i \in 1 .. n :
           /\ at[i] <= L /\ msg[at[i]] = Len(labels[i])
           /\ SubSeq(msg, at[i] + 1, at[i] + Len(labels[i])) = labels[i]
           /\ at[i + 1] = at[i] + 1 + Len(labels[i])
  BY <1>1, <1>3 DEF Spells
<1> DEFINE From(p, f) ==
             IF Zero(msg, p) THEN [host |-> << >>, end |-> p + 1]
             ELSE LET rest == p + 1 + msg[p]
                      dot  == IF Zero(msg, rest) THEN << >> ELSE <<Dot>>
                  IN  [host |-> SubSeq(msg, p + 1, rest - 1) \o dot \o f[rest].host,
                       end  |-> f[rest].end]
<1>4. \E f : f = [p \in Pos |-> From(p, f)]
  <2> DEFINE S == {p \in Pos : Zero(msg, p)}
             N == [p \in Pos |-> p + 1 + msg[p]]
             H == [p \in Pos |-> SubSeq(msg, p + 1, (p + 1 + msg[p]) - 1)
                                   \o (IF Zero(msg, p + 1 + msg[p]) THEN << >> ELSE <<Dot>>)]
  <2>1. ASSUME NEW p \in Pos, p \notin S PROVE p <= L /\ N[p] \in Pos /\ N[p] > p
    <3>1. ~ Zero(msg, p) /\ N[p] = p + 1 + msg[p] /\ p \in Nat /\ p # 0
      BY <2>1 DEF Pos
    <3>2. p <= L
      BY <1>3, <3>1 DEF Zero
    <3>3. msg[p] \in Nat
      BY <1>3, <3>1, <3>2
    <3> QED
      BY <3>1, <3>2, <3>3 DEF Pos
  <2>2. PICK f : Spelled(S, N, H, f)
    <3> HIDE DEF S, N, H
    <3> QED
      BY <2>1, SpelledExists
  <2>3. ASSUME NEW p \in Pos
        PROVE  From(p, f) = IF p \in S THEN [host |-> << >>, end |-> p + 1]
                            ELSE [host |-> H[p] \o f[N[p]].host, end |-> f[N[p]].end]
    OBVIOUS
  <2> HIDE DEF S, N, H, From
  <2>4. ASSUME NEW p \in Pos PROVE f[p] = From(p, f)
    BY <2>2, <2>3 DEF Spelled
  <2>5. f = [p \in Pos |-> f[p]]
    BY <2>2 DEF Spelled
  <2>6. f = [p \in Pos |-> From(p, f)]
    BY ONLY <2>4, <2>5
  <2> QED
    BY <2>6
<1>5. PICK f : Question(msg) = f[HeaderLen + 1] /\ f = [p \in Pos |-> From(p, f)]
  <2> DEFINE f == CHOOSE g : g = [p \in Pos |-> From(p, g)]
  <2>1. f = [p \in Pos |-> From(p, f)]
    <3> HIDE DEF From
    <3> QED
      BY <1>4
  <2>2. Question(msg) = f[HeaderLen + 1]
    BY DEF Question, Pos
  <2> HIDE DEF f, From
  <2> QED
    BY <2>1, <2>2
<1>6. \A p \in Pos : f[p] = From(p, f)
  <2> HIDE DEF From
  <2> QED
    BY <1>5
<1>7. f[at[n + 1]] = [host |-> << >>, end |-> at[n + 1] + 1]
  <2>1. at[n + 1] \in Pos
    BY <1>s
  <2> QED
    BY <1>s, <1>6, <2>1
<1>8. ASSUME NEW i \in 1 .. n
      PROVE  /\ f[at[i]].host = Dots(labels)[i] \o f[at[i + 1]].host
             /\ f[at[i]].end = f[at[i + 1]].end
  <2>1. /\ i + 1 \in 1 .. n + 1 /\ at[i] \in Pos /\ at[i + 1] \in Pos
        /\ at[i] \in Nat /\ at[i] # 0 /\ at[i + 1] \in Nat /\ at[i + 1] # 0
    BY <1>s DEF Pos
  <2>2. PICK a \in Nat, l \in Nat : a = at[i] /\ l = Len(labels[i]) /\ l >= 1
    BY <1>2, <2>1
  <2>p. a <= L /\ msg[a] = l /\ at[i + 1] = a + 1 + l
    BY ONLY i \in 1 .. n, <1>s, <2>2
  <2>3. ~ Zero(msg, a)
    BY ONLY a \in Nat, l \in Nat, L \in Nat, <1>3, <2>2, <2>p DEF Zero
  <2>4. a + 1 + msg[a] = at[i + 1] /\ (a + 1 + msg[a]) - 1 = a + l
    BY ONLY a \in Nat, l \in Nat, <2>p
  <2>5. PICK d : d = IF Zero(msg, at[i + 1]) THEN << >> ELSE <<Dot>>
    OBVIOUS
  <2>6. f[a] = [host |-> labels[i] \o d \o f[at[i + 1]].host, end |-> f[at[i + 1]].end]
    <3>1. f[a] = From(a, f) /\ a \in Pos
      BY <1>6, <2>1, <2>2
    <3>2. SubSeq(msg, a + 1, a + l) = labels[i]
      BY <1>s, <2>2
    <3> QED
      BY <2>3, <2>4, <2>5, <3>1, <3>2
  <2>7. Dots(labels)[i] = labels[i] \o d
    <3>1. Zero(msg, at[i + 1]) <=> i = n
      <4>1. CASE i = n
        BY <1>s, <4>1
      <4>2. CASE i # n
        <5>1. i + 1 \in 1 .. n
          BY <4>2
        <5>2. at[i + 1] <= L /\ msg[at[i + 1]] = Len(labels[i + 1]) /\ Len(labels[i + 1]) # 0
          BY <1>2, <1>s, <5>1
        <5> QED
          BY <1>3, <2>1, <4>2, <5>2 DEF Zero
      <4> QED
        BY <4>1, <4>2
    <3>2. d = IF i < Len(labels) THEN <<Dot>> ELSE << >>
      BY <1>1, <2>5, <3>1
    <3> QED
      BY <1>1, <3>2 DEF Dots
  <2>8. f[a].host = labels[i] \o d \o f[at[i + 1]].host /\ f[a].end = f[at[i + 1]].end
    <3>1. PICK u, v : u = labels[i] \o d \o f[at[i + 1]].host /\ v = f[at[i + 1]].end
      OBVIOUS
    <3>2. f[a] = [host |-> u, end |-> v]
      BY ONLY <2>6, <3>1, Zenon
    <3>3. [host |-> u, end |-> v].host = u /\ [host |-> u, end |-> v].end = v
      OBVIOUS
    <3> QED
      BY ONLY <3>1, <3>2, <3>3, Zenon
  <2> QED
    BY ONLY <2>2, <2>7, <2>8
<1>9. f[at[1]].host = Dotted(labels)
  <2> DEFINE h == [i \in 1 .. n + 1 |-> f[at[i]].host]
  <2>1. h[n + 1] = << >> /\ h[1] = f[at[1]].host
    BY <1>7
  <2>2. \A i \in 1 .. n : h[i] = Dots(labels)[i] \o h[i + 1]
    <3> SUFFICES ASSUME NEW i \in 1 .. n PROVE h[i] = Dots(labels)[i] \o h[i + 1]
      OBVIOUS
    <3>1. i \in 1 .. n + 1 /\ i + 1 \in 1 .. n + 1
      OBVIOUS
    <3> QED
      BY <1>8, <3>1
  <2> HIDE DEF h
  <2>3. Dots(labels) \in Seq(Seq(Nat)) /\ Len(Dots(labels)) = n
    BY <1>1, <1>2, DotsType
  <2>4. FlattenSeq(Dots(labels)) = h[1]
    BY <2>1, <2>2, <2>3, FlattenBack
  <2>5. Dotted(labels) = FlattenSeq(Dots(labels))
    BY DEF Dotted, Dots
  <2> QED
    BY <2>1, <2>4, <2>5
<1>10. f[at[1]].end = f[at[n + 1]].end
  <2> DEFINE P(k) == \A i \in 1 .. n + 1 : i + k > n => f[at[i]].end = f[at[n + 1]].end
  <2>1. P(0)
    <3> SUFFICES ASSUME NEW i \in 1 .. n + 1, i + 0 > n
                 PROVE  f[at[i]].end = f[at[n + 1]].end
      OBVIOUS
    <3>1. i = n + 1
      OBVIOUS
    <3> QED
      BY ONLY <3>1
  <2>2. ASSUME NEW k \in Nat, P(k) PROVE P(k + 1)
    <3> SUFFICES ASSUME NEW i \in 1 .. n + 1, i + (k + 1) > n
                 PROVE  f[at[i]].end = f[at[n + 1]].end
      OBVIOUS
    <3>1. CASE i = n + 1
      BY ONLY <3>1
    <3>2. CASE i # n + 1
      <4>1. i \in 1 .. n /\ i + 1 \in 1 .. n + 1 /\ (i + 1) + k > n
        BY <3>2
      <4>2. f[at[i + 1]].end = f[at[n + 1]].end
        BY <2>2, <4>1
      <4>3. f[at[i]].end = f[at[i + 1]].end
        BY <1>8, <4>1
      <4> QED
        BY ONLY <4>2, <4>3
    <3> QED
      BY ONLY <3>1, <3>2
  <2>3. \A k \in Nat : P(k)
    <3> HIDE DEF P
    <3> DEFINE Good == {k \in Nat : P(k)}
    <3>1. 0 \in Good
      BY <2>1
    <3>2. ASSUME NEW k \in Nat, k \in Good PROVE k + 1 \in Good
      BY <2>2, <3>2
    <3>3. Nat \subseteq Good
      <4> HIDE DEF Good
      <4> QED
        BY <3>1, <3>2, Inductive
    <3> QED
      BY <3>3
  <2>4. P(n)
    <3> HIDE DEF P
    <3> QED
      BY <2>3
  <2>5. 1 \in 1 .. n + 1 /\ 1 + n > n
    OBVIOUS
  <2> QED
    BY <2>4, <2>5
<1>11. f[at[1]] = [host |-> f[at[1]].host, end |-> f[at[1]].end]
  <2>1. PICK a \in Pos : a = at[1]
    BY <1>s
  <2>2. f[a] = From(a, f)
    BY <1>6
  <2>3. \E v, w : f[a] = [host |-> v, end |-> w]
    BY <2>2
  <2> QED
    BY ONLY <2>1, <2>3
<1>12. f[at[n + 1]].end = at[n + 1] + 1
  BY <1>7
<1> QED
  BY Zenon, <1>1, <1>5, <1>9, <1>10, <1>11, <1>12
-----------------------------------------------------------------------------
(* Names as they are written. *)

LEMMA Single ==
  ASSUME NEW S, NEW x \in S
  PROVE  <<x>> \in Seq(S) /\ Len(<<x>>) = 1 /\ <<x>>[1] = x
OBVIOUS

Sized(labels) == [i \in DOMAIN labels |-> <<Len(labels[i])>> \o labels[i]]

LEMMA SizedType ==
  ASSUME NEW labels, NEW n \in Nat, DOMAIN labels = 1 .. n,
         \A i \in 1 .. n : labels[i] \in Seq(Nat)
  PROVE  /\ Sized(labels) \in Seq(Seq(Nat)) /\ Len(Sized(labels)) = n
         /\ \A i \in 1 .. n :
              /\ Len(labels[i]) \in Nat
              /\ Len(Sized(labels)[i]) = Len(labels[i]) + 1
              /\ Sized(labels)[i][1] = Len(labels[i])
              /\ \A k \in 1 .. Len(labels[i]) : Sized(labels)[i][k + 1] = labels[i][k]
<1>1. ASSUME NEW i \in 1 .. n
      PROVE  /\ Len(labels[i]) \in Nat
             /\ Sized(labels)[i] \in Seq(Nat) /\ Len(Sized(labels)[i]) = Len(labels[i]) + 1
             /\ Sized(labels)[i][1] = Len(labels[i])
             /\ \A k \in 1 .. Len(labels[i]) : Sized(labels)[i][k + 1] = labels[i][k]
  <2>1. PICK s \in Seq(Nat) : s = labels[i]
    OBVIOUS
  <2>2. PICK l \in Nat : l = Len(s)
    BY LenProperties
  <2>3. PICK t \in Seq(Nat) : t = <<l>> /\ Len(t) = 1 /\ t[1] = l
    <3>1. <<l>> \in Seq(Nat) /\ Len(<<l>>) = 1 /\ <<l>>[1] = l
      BY ONLY l \in Nat, Single
    <3> QED
      BY ONLY <3>1, Zenon
  <2>4. /\ t \o s \in Seq(Nat) /\ Len(t \o s) = l + 1
        /\ \A k \in 1 .. l + 1 : (t \o s)[k] = IF k <= 1 THEN t[k] ELSE s[k - 1]
    <3>1. /\ t \o s \in Seq(Nat) /\ Len(t \o s) = Len(t) + Len(s)
          /\ \A k \in 1 .. Len(t) + Len(s) : (t \o s)[k] = IF k <= Len(t) THEN t[k] ELSE s[k - Len(t)]
      BY ONLY t \in Seq(Nat), s \in Seq(Nat), ConcatProperties
    <3>2. Len(t) + Len(s) = l + 1
      BY <2>2, <2>3
    <3> QED
      BY ONLY <3>1, <3>2, <2>3
  <2>5. (t \o s)[1] = l
    <3>1. 1 \in 1 .. l + 1
      OBVIOUS
    <3> QED
      BY ONLY <2>3, <2>4, <3>1
  <2>6. ASSUME NEW k \in 1 .. l PROVE (t \o s)[k + 1] = s[k]
    <3>1. k + 1 \in 1 .. l + 1 /\ ~ (k + 1 <= 1) /\ (k + 1) - 1 = k
      OBVIOUS
    <3> QED
      BY ONLY <2>4, <3>1
  <2>7. Sized(labels)[i] = t \o s
    BY <2>1, <2>2, <2>3 DEF Sized
  <2> QED
    BY ONLY l \in Nat, <2>1, <2>2, <2>4, <2>5, <2>6, <2>7
<1>2. Sized(labels) = [i \in 1 .. n |-> Sized(labels)[i]]
  BY DEF Sized
<1>3. Sized(labels) \in [1 .. n -> Seq(Nat)]
  BY <1>1, <1>2
<1>4. Sized(labels) \in Seq(Seq(Nat)) /\ Len(Sized(labels)) = n
  BY <1>3, LenProperties
<1> QED
  BY <1>1, <1>4

LEMMA NameIs ==
  ASSUME NEW labels, NEW n \in Nat, DOMAIN labels = 1 .. n,
         \A i \in 1 .. n : labels[i] \in Seq(Nat)
  PROVE  LET name == FlattenSeq(Sized(labels)) IN
         /\ name \in Seq(Nat) /\ Len(name) \in Nat
         /\ WireName(labels) \in Seq(Nat) /\ Len(WireName(labels)) = Len(name) + 1
         /\ \A k \in 1 .. Len(name) : WireName(labels)[k] = name[k]
         /\ WireName(labels)[Len(name) + 1] = 0
<1>1. FlattenSeq(Sized(labels)) \in Seq(Nat)
  BY SizedType, FlattenType
<1>2. PICK s \in Seq(Nat) : s = FlattenSeq(Sized(labels))
  BY <1>1
<1>3. WireName(labels) = s \o <<0>>
  BY <1>2 DEF WireName, Sized
<1>4. PICK l \in Nat : l = Len(s)
  BY LenProperties
<1>5. PICK z \in Seq(Nat) : z = <<0>> /\ Len(z) = 1 /\ z[1] = 0
  <2>1. <<0>> \in Seq(Nat) /\ Len(<<0>>) = 1 /\ <<0>>[1] = 0
    BY Single
  <2> QED
    BY ONLY <2>1, Zenon
<1>6. /\ s \o z \in Seq(Nat) /\ Len(s \o z) = Len(s) + Len(z)
      /\ \A k \in 1 .. Len(s) + Len(z) : (s \o z)[k] = IF k <= Len(s) THEN s[k] ELSE z[k - Len(s)]
  BY ONLY s \in Seq(Nat), z \in Seq(Nat), ConcatProperties
<1>7. Len(s) + Len(z) = l + 1 /\ l + 1 \in 1 .. l + 1 /\ ~ (l + 1 <= l) /\ (l + 1) - l = 1
  BY <1>4, <1>5
<1>8. (s \o z)[l + 1] = 0
  BY ONLY <1>4, <1>5, <1>6, <1>7
<1>9. ASSUME NEW k \in 1 .. l PROVE (s \o z)[k] = s[k]
  <2>1. k \in 1 .. l + 1 /\ k <= l
    OBVIOUS
  <2> QED
    BY ONLY <1>4, <1>6, <1>7, <2>1
<1> QED
  BY ONLY l \in Nat, s \in Seq(Nat), <1>2, <1>3, <1>4, <1>5, <1>6, <1>7, <1>8, <1>9

(* A name that stands in a message is spelled there.                       *)
Stands(msg, labels, n, a) ==
  /\ n \in Nat /\ DOMAIN labels = 1 .. n /\ n = Len(labels) /\ \A i \in 1 .. n : labels[i] \in Seq(Nat)
  /\ a \in Nat /\ Len(msg) \in Nat
  /\ LiesAt(msg, a, WireName(labels)) /\ a + Len(WireName(labels)) <= Len(msg)

SpelledFrom(msg, labels, n, a) ==
  \E at : Spells(msg, at, labels) /\ at[1] = a + 1 /\ at[n + 1] = a + Len(WireName(labels))

LEMMA NameSpells == \A msg, labels, n, a : Stands(msg, labels, n, a) => SpelledFrom(msg, labels, n, a)
<1> SUFFICES ASSUME NEW msg, NEW labels, NEW n, NEW a, Stands(msg, labels, n, a)
             PROVE  \E at : Spells(msg, at, labels) /\ at[1] = a + 1 /\ at[n + 1] = a + Len(WireName(labels))
  BY Zenon DEF SpelledFrom
<1> /\ n \in Nat /\ DOMAIN labels = 1 .. n /\ n = Len(labels) /\ \A i \in 1 .. n : labels[i] \in Seq(Nat)
    /\ a \in Nat /\ Len(msg) \in Nat
    /\ LiesAt(msg, a, WireName(labels)) /\ a + Len(WireName(labels)) <= Len(msg)
  BY Zenon DEF Stands
<1>1. PICK ss : ss = Sized(labels)
  OBVIOUS
<1>2. /\ ss \in Seq(Seq(Nat)) /\ Len(ss) = n
      /\ \A i \in 1 .. n :
           /\ Len(labels[i]) \in Nat /\ Len(ss[i]) = Len(labels[i]) + 1 /\ ss[i][1] = Len(labels[i])
           /\ \A k \in 1 .. Len(labels[i]) : ss[i][k + 1] = labels[i][k]
  <2>1. DOMAIN labels = 1 .. n /\ \A i \in 1 .. n : labels[i] \in Seq(Nat)
    OBVIOUS
  <2>2. /\ Sized(labels) \in Seq(Seq(Nat)) /\ Len(Sized(labels)) = n
        /\ \A i \in 1 .. n :
             /\ Len(labels[i]) \in Nat
             /\ Len(Sized(labels)[i]) = Len(labels[i]) + 1
             /\ Sized(labels)[i][1] = Len(labels[i])
             /\ \A k \in 1 .. Len(labels[i]) : Sized(labels)[i][k + 1] = labels[i][k]
    BY ONLY n \in Nat, <2>1, SizedType
  <2> QED
    BY ONLY <1>1, <2>2, Zenon
<1>3. PICK name : name = FlattenSeq(ss)
  OBVIOUS
<1>4. PICK e \in Nat :
        /\ e = Len(name) /\ Len(WireName(labels)) = e + 1
        /\ \A k \in 1 .. e : WireName(labels)[k] = name[k]
        /\ WireName(labels)[e + 1] = 0
  BY <1>1, <1>3, NameIs
<1>5. PICK off : Places(ss, off)
  BY <1>2, FlattenPlaces
<1>6. /\ off \in [0 .. n -> Nat] /\ off[0] = 0 /\ off[n] = e
      /\ \A i \in 1 .. n : /\ off[i] = off[i - 1] + Len(ss[i]) /\ off[i] <= e
                           /\ LiesAt(name, off[i - 1], ss[i])
  BY <1>2, <1>3, <1>4, <1>5 DEF Places
<1>7. /\ \A k \in 1 .. e : msg[a + k] = name[k]
      /\ msg[a + (e + 1)] = 0 /\ a + (e + 1) <= Len(msg)
  <2>1. \A k \in 1 .. e + 1 : msg[a + k] = WireName(labels)[k]
    BY <1>4 DEF LiesAt
  <2>2. e + 1 \in 1 .. e + 1 /\ \A k \in 1 .. e : k \in 1 .. e + 1
    OBVIOUS
  <2> QED
    BY ONLY a + Len(WireName(labels)) <= Len(msg), <1>4, <2>1, <2>2
<1>8. PICK at \in [1 .. n + 1 -> Pos] : \A i \in 1 .. n + 1 : at[i] = a + off[i - 1] + 1
  <2> DEFINE at == [i \in 1 .. n + 1 |-> a + off[i - 1] + 1]
  <2>1. ASSUME NEW i \in 1 .. n + 1 PROVE a + off[i - 1] + 1 \in Pos
    <3>1. i - 1 \in 0 .. n
      OBVIOUS
    <3>2. off[i - 1] \in Nat
      BY <1>6, <3>1
    <3> QED
      BY <3>2 DEF Pos
  <2>2. at \in [1 .. n + 1 -> Pos]
    BY <2>1
  <2> QED
    BY <2>2
<1>9. at[1] = a + 1 /\ at[n + 1] = a + e + 1
  <2>1. 1 \in 1 .. n + 1 /\ n + 1 \in 1 .. n + 1 /\ 1 - 1 = 0 /\ (n + 1) - 1 = n
    OBVIOUS
  <2>2. at[1] = a + off[1 - 1] + 1 /\ at[n + 1] = a + off[(n + 1) - 1] + 1
    BY ONLY <1>8, <2>1
  <2>3. off[1 - 1] = 0 /\ off[(n + 1) - 1] = e
    BY ONLY <1>6, <2>1
  <2> QED
    BY ONLY a \in Nat, <2>2, <2>3
<1>10. ASSUME NEW i \in 1 .. n
       PROVE  /\ at[i] <= Len(msg) /\ msg[at[i]] = Len(labels[i])
              /\ SubSeq(msg, at[i] + 1, at[i] + Len(labels[i])) = labels[i]
              /\ at[i + 1] = at[i] + 1 + Len(labels[i])
  <2>1. PICK l \in Nat, b \in Nat, c \in Nat :
          l = Len(labels[i]) /\ b = off[i - 1] /\ c = off[i]
    <3>1. i - 1 \in 0 .. n /\ i \in 0 .. n
      OBVIOUS
    <3> QED
      BY <1>2, <1>6, <3>1
  <2>2. /\ c = b + l + 1 /\ c <= e
        /\ \A k \in 1 .. l + 1 : name[b + k] = ss[i][k]
    <3>1. /\ off[i] = off[i - 1] + Len(ss[i]) /\ off[i] <= e
          /\ LiesAt(name, off[i - 1], ss[i]) /\ Len(ss[i]) = l + 1
      BY ONLY i \in 1 .. n, <1>2, <1>6, <2>1
    <3>2. LiesAt(name, b, ss[i]) /\ Len(ss[i]) = l + 1
      BY ONLY <2>1, <3>1
    <3>3. \A k \in 1 .. l + 1 : name[b + k] = ss[i][k]
      BY ONLY <3>2 DEF LiesAt
    <3>4. c = b + (l + 1) /\ c <= e
      BY ONLY <2>1, <3>1, Zenon
    <3>5. b + (l + 1) = b + l + 1
      BY ONLY b \in Nat, l \in Nat
    <3> QED
      BY ONLY <3>3, <3>4, <3>5, Zenon
  <2>3. /\ at[i] = a + b + 1 /\ at[i + 1] = a + c + 1
    <3>1. i \in 1 .. n + 1 /\ i + 1 \in 1 .. n + 1 /\ (i + 1) - 1 = i
      OBVIOUS
    <3> QED
      BY <1>8, <2>1, <3>1
  <2>4. \A k \in 1 .. l + 1 : msg[a + (b + k)] = ss[i][k]
    <3> SUFFICES ASSUME NEW k \in 1 .. l + 1 PROVE msg[a + (b + k)] = ss[i][k]
      OBVIOUS
    <3>1. b + k \in 1 .. e
      BY ONLY b \in Nat, l \in Nat, e \in Nat, c \in Nat, k \in 1 .. l + 1, <2>2
    <3> QED
      BY <1>7, <2>2, <3>1
  <2>5. msg[at[i]] = l
    <3>1. 1 \in 1 .. l + 1 /\ at[i] = a + (b + 1)
      BY <2>3
    <3>2. ss[i][1] = l
      BY <1>2, <2>1
    <3> QED
      BY ONLY <2>4, <3>1, <3>2
  <2>6. \A k \in 1 .. l : msg[at[i] + k] = labels[i][k]
    <3> SUFFICES ASSUME NEW k \in 1 .. l PROVE msg[at[i] + k] = labels[i][k]
      OBVIOUS
    <3>1. k + 1 \in 1 .. l + 1 /\ at[i] + k = a + (b + (k + 1))
      BY <2>3
    <3>2. ss[i][k + 1] = labels[i][k]
      BY <1>2, <2>1
    <3> QED
      BY ONLY <2>4, <3>1, <3>2
  <2>7. SubSeq(msg, at[i] + 1, at[i] + l) = labels[i]
    <3>0. a + b + 1 \in Nat /\ labels[i] \in Seq(Nat)
      OBVIOUS
    <3>1. PICK d \in Nat, s \in Seq(Nat) : d = at[i] /\ s = labels[i] /\ Len(s) = l
      BY ONLY <2>1, <2>3, <3>0
    <3>2. s = [k \in 1 .. l |-> s[k]]
      BY <3>1, LenProperties
    <3>3. SubSeq(msg, d + 1, d + l) = [k \in 1 .. (d + l) - (d + 1) + 1 |-> msg[(d + 1) + k - 1]]
      OBVIOUS
    <3>4. (d + l) - (d + 1) + 1 = l /\ \A k \in 1 .. l : (d + 1) + k - 1 = d + k
      OBVIOUS
    <3>5. SubSeq(msg, d + 1, d + l) = [k \in 1 .. l |-> msg[d + k]]
      BY <3>3, <3>4
    <3>6. \A k \in 1 .. l : msg[d + k] = s[k]
      BY <2>6, <3>1
    <3> QED
      BY ONLY <3>1, <3>2, <3>5, <3>6
  <2>8. at[i] <= Len(msg) /\ at[i + 1] = at[i] + 1 + l
    BY <1>7, <2>2, <2>3
  <2> QED
    BY ONLY <2>1, <2>5, <2>7, <2>8
<1>11. Zero(msg, at[n + 1])
  BY <1>7, <1>9 DEF Zero
<1>12. Spells(msg, at, labels)
  BY <1>8, <1>10, <1>11 DEF Spells
<1> QED
  BY SMTT(30), <1>4, <1>9, <1>12
-----------------------------------------------------------------------------
(* Messages put together of pieces. *)

LEMMA TwoPieces ==
  \A S : \A p, q \in Seq(S) :
    /\ p \o q \in Seq(S) /\ Len(p \o q) = Len(p) + Len(q)
    /\ LiesAt(p \o q, 0, p) /\ LiesAt(p \o q, Len(p), q)
<1> SUFFICES ASSUME NEW S, NEW p \in Seq(S), NEW q \in Seq(S)
             PROVE  /\ p \o q \in Seq(S) /\ Len(p \o q) = Len(p) + Len(q)
                    /\ LiesAt(p \o q, 0, p) /\ LiesAt(p \o q, Len(p), q)
  OBVIOUS
<1>1. PICK a \in Nat, b \in Nat : a = Len(p) /\ b = Len(q)
  BY LenProperties
<1>2. p \o q \in Seq(S) /\ Len(p \o q) = Len(p) + Len(q)
  BY ConcatProperties
<1>3. \A k \in 1 .. a + b : (p \o q)[k] = IF k <= a THEN p[k] ELSE q[k - a]
  BY <1>1, ConcatProperties
<1>4. LiesAt(p \o q, 0, p)
  <2>1. \A k \in 1 .. a : k \in 1 .. a + b /\ k <= a /\ 0 + k = k
    OBVIOUS
  <2> QED
    BY <1>1, <1>3, <2>1 DEF LiesAt
<1>5. LiesAt(p \o q, a, q)
  <2>1. \A k \in 1 .. b : a + k \in 1 .. a + b /\ ~ (a + k <= a) /\ (a + k) - a = k
    OBVIOUS
  <2> QED
    BY <1>1, <1>3, <2>1 DEF LiesAt
<1> QED
  BY <1>1, <1>2, <1>4, <1>5

Sequence(S, p, a) == p \in Seq(S) /\ a = Len(p) /\ a \in Nat
Joins(p, q, m) == m = p \o q

LEMMA JoinedPieces ==
  \A S, p, a, q, b, m : Sequence(S, p, a) /\ Sequence(S, q, b) /\ Joins(p, q, m)
                        => Sequence(S, m, a + b) /\ LiesAt(m, 0, p) /\ LiesAt(m, a, q)
<1> SUFFICES ASSUME NEW S, NEW p, NEW a, NEW q, NEW b, NEW m,
                    Sequence(S, p, a), Sequence(S, q, b), Joins(p, q, m)
             PROVE  Sequence(S, m, a + b) /\ LiesAt(m, 0, p) /\ LiesAt(m, a, q)
  OBVIOUS
<1>1. p \in Seq(S) /\ q \in Seq(S) /\ a \in Nat /\ b \in Nat /\ a = Len(p) /\ b = Len(q) /\ m = p \o q
  BY DEF Sequence, Joins
<1>2. m \in Seq(S) /\ Len(m) = a + b /\ LiesAt(m, 0, p) /\ LiesAt(m, a, q)
  BY ONLY <1>1, TwoPieces, Zenon
<1>3. a + b \in Nat
  BY <1>1
<1> QED
  BY ONLY <1>2, <1>3 DEF Sequence

LEMMA LiesWithin ==
  ASSUME NEW m, NEW t, NEW s, NEW a \in Nat, NEW c \in Nat, NEW l \in Nat, l = Len(t), NEW k \in Nat, k = Len(s),
         LiesAt(m, a, t), LiesAt(t, c, s), c + k <= l
  PROVE  LiesAt(m, a + c, s)
<1> SUFFICES ASSUME NEW i \in 1 .. k PROVE m[(a + c) + i] = s[i]
  BY DEF LiesAt
<1>1. c + i \in 1 .. l /\ a + (c + i) = (a + c) + i
  OBVIOUS
<1>2. m[a + (c + i)] = t[c + i]
  BY <1>1 DEF LiesAt
<1>3. t[c + i] = s[i]
  BY DEF LiesAt
<1> QED
  BY <1>1, <1>2, <1>3

Five(S, p0, p1, p2, p3, p4, a0, a1, a2, a3, a4, m) ==
  /\ p0 \in Seq(S) /\ p1 \in Seq(S) /\ p2 \in Seq(S) /\ p3 \in Seq(S) /\ p4 \in Seq(S)
  /\ a0 \in Nat /\ a1 \in Nat /\ a2 \in Nat /\ a3 \in Nat /\ a4 \in Nat
  /\ a0 = Len(p0) /\ a1 = Len(p1) /\ a2 = Len(p2) /\ a3 = Len(p3) /\ a4 = Len(p4)
  /\ m = p0 \o p1 \o p2 \o p3 \o p4
Laid(S, p0, p1, p2, p3, p4, a0, a1, a2, a3, a4, m) ==
  /\ m \in Seq(S) /\ Len(m) = a0 + a1 + a2 + a3 + a4
  /\ LiesAt(m, 0, p0) /\ LiesAt(m, a0, p1) /\ LiesAt(m, a0 + a1, p2)
  /\ LiesAt(m, a0 + a1 + a2, p3) /\ LiesAt(m, a0 + a1 + a2 + a3, p4)

LEMMA FiveLaid ==
  \A S, p0, p1, p2, p3, p4, a0, a1, a2, a3, a4, m :
    Five(S, p0, p1, p2, p3, p4, a0, a1, a2, a3, a4, m) => Laid(S, p0, p1, p2, p3, p4, a0, a1, a2, a3, a4, m)
<1> SUFFICES ASSUME NEW S, NEW p0, NEW p1, NEW p2, NEW p3, NEW p4, NEW a0, NEW a1, NEW a2, NEW a3, NEW a4, NEW m,
                    Five(S, p0, p1, p2, p3, p4, a0, a1, a2, a3, a4, m)
             PROVE  Laid(S, p0, p1, p2, p3, p4, a0, a1, a2, a3, a4, m)
  BY Zenon
<1>a. /\ p0 \in Seq(S) /\ p1 \in Seq(S) /\ p2 \in Seq(S) /\ p3 \in Seq(S) /\ p4 \in Seq(S)
      /\ a0 = Len(p0) /\ a1 = Len(p1) /\ a2 = Len(p2) /\ a3 = Len(p3) /\ a4 = Len(p4)
      /\ m = p0 \o p1 \o p2 \o p3 \o p4
  BY Zenon DEF Five
<1>b. a0 \in Nat /\ a1 \in Nat /\ a2 \in Nat /\ a3 \in Nat /\ a4 \in Nat
  BY Zenon DEF Five
<1>0. /\ Sequence(S, p0, a0) /\ Sequence(S, p1, a1) /\ Sequence(S, p2, a2)
      /\ Sequence(S, p3, a3) /\ Sequence(S, p4, a4)
  BY ONLY <1>a, <1>b, Zenon DEF Sequence
<1>1. PICK m1, m2, m3 : Joins(p0, p1, m1) /\ Joins(m1, p2, m2) /\ Joins(m2, p3, m3) /\ Joins(m3, p4, m)
  BY ONLY <1>a DEF Joins
<1>4. PICK b1 \in Nat, b2 \in Nat, b3 \in Nat, b4 \in Nat :
        b1 = a0 + a1 /\ b2 = b1 + a2 /\ b3 = b2 + a3 /\ b4 = b3 + a4
  <2>1. a0 + a1 \in Nat /\ (a0 + a1) + a2 \in Nat /\ ((a0 + a1) + a2) + a3 \in Nat
        /\ (((a0 + a1) + a2) + a3) + a4 \in Nat
    BY ONLY <1>b
  <2> QED
    BY ONLY <2>1, Zenon
<1>5. Sequence(S, m1, b1) /\ LiesAt(m1, 0, p0) /\ LiesAt(m1, a0, p1)
  BY ONLY <1>0, <1>1, <1>4, JoinedPieces, Zenon
<1>6. Sequence(S, m2, b2) /\ LiesAt(m2, 0, m1) /\ LiesAt(m2, b1, p2)
  BY ONLY <1>0, <1>1, <1>4, <1>5, JoinedPieces, Zenon
<1>7. Sequence(S, m3, b3) /\ LiesAt(m3, 0, m2) /\ LiesAt(m3, b2, p3)
  BY ONLY <1>0, <1>1, <1>4, <1>6, JoinedPieces, Zenon
<1>8. Sequence(S, m, b4) /\ LiesAt(m, 0, m3) /\ LiesAt(m, b3, p4)
  BY ONLY <1>0, <1>1, <1>4, <1>7, JoinedPieces, Zenon
<1>s. b1 = Len(m1) /\ b2 = Len(m2) /\ b3 = Len(m3)
  BY ONLY <1>5, <1>6, <1>7 DEF Sequence
<1>9. LiesAt(m, b2, p3) /\ LiesAt(m, 0, m2)
  <2>1. b2 + a3 <= b3 /\ 0 + b2 <= b3 /\ 0 + b2 = b2 /\ 0 + 0 = 0
    BY ONLY <1>4, <1>b
  <2>2. LiesAt(m, 0 + b2, p3)
    BY ONLY b1 \in Nat, b2 \in Nat, b3 \in Nat, <1>a, <1>b, <1>s, <1>7, <1>8, <2>1, LiesWithin
  <2>3. LiesAt(m, 0 + 0, m2)
    BY ONLY b1 \in Nat, b2 \in Nat, b3 \in Nat, <1>a, <1>b, <1>s, <1>6, <1>7, <1>8, <2>1, LiesWithin
  <2> QED
    BY ONLY <2>1, <2>2, <2>3
<1>10. LiesAt(m, b1, p2) /\ LiesAt(m, 0, m1)
  <2>1. b1 + a2 <= b2 /\ 0 + b1 <= b2 /\ 0 + b1 = b1 /\ 0 + 0 = 0
    BY ONLY <1>4, <1>b
  <2>2. LiesAt(m, 0 + b1, p2)
    BY ONLY b1 \in Nat, b2 \in Nat, b3 \in Nat, <1>a, <1>b, <1>s, <1>6, <1>9, <2>1, LiesWithin
  <2>3. LiesAt(m, 0 + 0, m1)
    BY ONLY b1 \in Nat, b2 \in Nat, b3 \in Nat, <1>a, <1>b, <1>s, <1>5, <1>6, <1>9, <2>1, LiesWithin
  <2> QED
    BY ONLY <2>1, <2>2, <2>3
<1>11. LiesAt(m, a0, p1) /\ LiesAt(m, 0, p0)
  <2>1. a0 + a1 <= b1 /\ 0 + a0 <= b1 /\ 0 + a0 = a0 /\ 0 + 0 = 0
    BY ONLY <1>4, <1>b
  <2>2. LiesAt(m, 0 + a0, p1)
    BY ONLY b1 \in Nat, b2 \in Nat, b3 \in Nat, <1>a, <1>b, <1>s, <1>5, <1>10, <2>1, LiesWithin
  <2>3. LiesAt(m, 0 + 0, p0)
    BY ONLY b1 \in Nat, b2 \in Nat, b3 \in Nat, <1>a, <1>b, <1>s, <1>5, <1>10, <2>1, LiesWithin
  <2> QED
    BY ONLY <2>1, <2>2, <2>3
<1>12. m \in Seq(S) /\ Len(m) = b4
  BY ONLY <1>8 DEF Sequence
<1>13. a0 + a1 = b1 /\ a0 + a1 + a2 = b2 /\ a0 + a1 + a2 + a3 = b3 /\ a0 + a1 + a2 + a3 + a4 = b4
  BY ONLY <1>4
<1> QED
  BY ONLY <1>8, <1>9, <1>10, <1>11, <1>12, <1>13 DEF Laid

LEMMA PairAt ==
  ASSUME NEW m, NEW a \in Nat, NEW x, NEW y, LiesAt(m, a, <<x, y>>)
  PROVE  m[a + 1] = x /\ m[a + 2] = y
<1>1. Len(<<x, y>>) = 2 /\ <<x, y>>[1] = x /\ <<x, y>>[2] = y
  OBVIOUS
<1> QED
  BY <1>1 DEF LiesAt

LEMMA PairIs ==
  ASSUME NEW S, NEW x \in S, NEW y \in S
  PROVE  <<x, y>> \in Seq(S) /\ Len(<<x, y>>) = 2
OBVIOUS

LEMMA WordIs ==
  ASSUME NEW n \in Nat
  PROVE  Octets16(n) \in Seq(Nat) /\ Len(Octets16(n)) = 2
<1>1. n \div 256 \in Nat /\ n % 256 \in Nat
  OBVIOUS
<1> QED
  BY <1>1, PairIs DEF Octets16

LEMMA WordAt ==
  ASSUME NEW m, NEW a \in Nat, NEW n \in Nat, LiesAt(m, a, Octets16(n))
  PROVE  U16(m, a + 1) = n /\ m[a + 1] = n \div 256 /\ m[a + 2] = n % 256
<1>1. PICK x \in Int, y \in Int : x = n \div 256 /\ y = n % 256 /\ n = 256 * x + y
  OBVIOUS
<1>2. m[a + 1] = x /\ m[a + 2] = y
  <2>1. LiesAt(m, a, <<x, y>>)
    BY <1>1 DEF Octets16
  <2> QED
    BY <2>1, PairAt
<1>3. (a + 1) + 1 = a + 2
  OBVIOUS
<1>4. U16(m, a + 1) = 256 * x + y
  BY <1>2, <1>3 DEF U16
<1> QED
  BY <1>1, <1>2, <1>4
(* What begins a message of ten octets or more begins the longer one, too.  *)
LEMMA LiesBefore ==
  \A t, c, w \in Nat : \A m, h, p :
    t = Len(h) /\ w = Len(p) /\ c + w <= t /\ LiesAt(m, 0, h) /\ LiesAt(h, c, p) => LiesAt(m, c, p)
<1> SUFFICES ASSUME NEW t \in Nat, NEW c \in Nat, NEW w \in Nat, NEW m, NEW h, NEW p,
                    t = Len(h), w = Len(p), c + w <= t, LiesAt(m, 0, h), LiesAt(h, c, p)
             PROVE  LiesAt(m, c, p)
  OBVIOUS
<1>1. PICK z \in Nat : z = 0
  OBVIOUS
<1>2. LiesAt(m, z, h)
  BY <1>1
<1>3. LiesAt(m, z + c, p)
  BY ONLY z \in Nat, t \in Nat, c \in Nat, w \in Nat, t = Len(h), w = Len(p), c + w <= t, LiesAt(h, c, p), <1>2, LiesWithin
<1>4. z + c = c
  BY <1>1
<1> QED
  BY <1>3, <1>4

(* A header is six words. *)
NumbersOf(m, iden, f1, f2, qd, an, ns, ar) ==
  /\ Iden(m) = iden /\ m[3] = f1 /\ m[4] = f2
  /\ QdCount(m) = qd /\ AnCount(m) = an /\ NsCount(m) = ns /\ ArCount(m) = ar
Header(m, iden, f1, f2, qd, an, ns, ar) ==
  /\ iden \in Nat /\ f1 \in Nat /\ f2 \in Nat /\ qd \in Nat /\ an \in Nat /\ ns \in Nat /\ ar \in Nat
  /\ m = Octets16(iden) \o <<f1, f2>> \o Octets16(qd) \o Octets16(an) \o Octets16(ns) \o Octets16(ar)

LEMMA HeaderLayout ==
  \A m, iden, f1, f2, qd, an, ns, ar :
    Header(m, iden, f1, f2, qd, an, ns, ar)
    => m \in Seq(Nat) /\ Len(m) = HeaderLen /\ NumbersOf(m, iden, f1, f2, qd, an, ns, ar)
<1> SUFFICES ASSUME NEW m, NEW iden, NEW f1, NEW f2, NEW qd, NEW an, NEW ns, NEW ar,
                    Header(m, iden, f1, f2, qd, an, ns, ar)
             PROVE  m \in Seq(Nat) /\ Len(m) = HeaderLen /\ NumbersOf(m, iden, f1, f2, qd, an, ns, ar)
  BY Zenon
<1> /\ iden \in Nat /\ f1 \in Nat /\ f2 \in Nat /\ qd \in Nat /\ an \in Nat /\ ns \in Nat /\ ar \in Nat
    /\ m = Octets16(iden) \o <<f1, f2>> \o Octets16(qd) \o Octets16(an) \o Octets16(ns) \o Octets16(ar)
  BY Zenon DEF Header
<1>2. PICK p0, p1, p2, p3, p4, p5 :
        /\ p0 = Octets16(iden) /\ p1 = <<f1, f2>> /\ p2 = Octets16(qd)
        /\ p3 = Octets16(an) /\ p4 = Octets16(ns) /\ p5 = Octets16(ar)
  OBVIOUS
<1>1. PICK a0 \in Nat, a1 \in Nat, a2 \in Nat, a3 \in Nat, a4 \in Nat, a5 \in Nat :
        a0 = 2 /\ a1 = 2 /\ a2 = 2 /\ a3 = 2 /\ a4 = 2 /\ a5 = 2
  OBVIOUS
<1>3. /\ p0 \in Seq(Nat) /\ p1 \in Seq(Nat) /\ p2 \in Seq(Nat)
      /\ p3 \in Seq(Nat) /\ p4 \in Seq(Nat) /\ p5 \in Seq(Nat)
      /\ a0 = Len(p0) /\ a1 = Len(p1) /\ a2 = Len(p2) /\ a3 = Len(p3) /\ a4 = Len(p4) /\ a5 = Len(p5)
  BY <1>1, <1>2, WordIs, PairIs
<1>4. PICK h : h = p0 \o p1 \o p2 \o p3 \o p4
  OBVIOUS
<1>5. Joins(h, p5, m)
  BY ONLY m = Octets16(iden) \o <<f1, f2>> \o Octets16(qd) \o Octets16(an) \o Octets16(ns) \o Octets16(ar),
          <1>2, <1>4 DEF Joins
<1>6. /\ h \in Seq(Nat) /\ Len(h) = a0 + a1 + a2 + a3 + a4
      /\ LiesAt(h, 0, p0) /\ LiesAt(h, a0, p1) /\ LiesAt(h, a0 + a1, p2)
      /\ LiesAt(h, a0 + a1 + a2, p3) /\ LiesAt(h, a0 + a1 + a2 + a3, p4)
  <2>1. Five(Nat, p0, p1, p2, p3, p4, a0, a1, a2, a3, a4, h)
    BY ONLY a0 \in Nat, a1 \in Nat, a2 \in Nat, a3 \in Nat, a4 \in Nat, <1>3, <1>4, Zenon DEF Five
  <2>2. Laid(Nat, p0, p1, p2, p3, p4, a0, a1, a2, a3, a4, h)
    BY ONLY <2>1, FiveLaid, Zenon
  <2> QED
    BY ONLY <2>2, Zenon DEF Laid
<1>7. PICK z \in Nat, c2 \in Nat, c3 \in Nat, c4 \in Nat, c5 \in Nat, t \in Nat :
        /\ z = 0 /\ c2 = a0 + a1 /\ c3 = a0 + a1 + a2 /\ c4 = a0 + a1 + a2 + a3
        /\ c5 = a0 + a1 + a2 + a3 + a4 /\ t = c5 + a5
  BY <1>1
<1>8. Sequence(Nat, h, c5) /\ Sequence(Nat, p5, a5)
  BY ONLY c5 \in Nat, a5 \in Nat, <1>3, <1>6, <1>7 DEF Sequence
<1>9. Sequence(Nat, m, c5 + a5) /\ LiesAt(m, 0, h) /\ LiesAt(m, c5, p5)
  BY ONLY <1>5, <1>8, JoinedPieces, Zenon
<1>10. /\ LiesAt(h, z, p0) /\ LiesAt(h, a0, p1) /\ LiesAt(h, c2, p2) /\ LiesAt(h, c3, p3) /\ LiesAt(h, c4, p4)
  BY ONLY <1>6, <1>7
<1>11. c5 = Len(h) /\ z + a0 <= c5 /\ a0 + a1 <= c5 /\ c2 + a2 <= c5 /\ c3 + a3 <= c5 /\ c4 + a4 <= c5
  BY ONLY <1>1, <1>6, <1>7
<1>12. /\ LiesAt(m, z, p0) /\ LiesAt(m, a0, p1) /\ LiesAt(m, c2, p2) /\ LiesAt(m, c3, p3) /\ LiesAt(m, c4, p4)
  BY ONLY z \in Nat, c2 \in Nat, c3 \in Nat, c4 \in Nat, c5 \in Nat,
          a0 \in Nat, a1 \in Nat, a2 \in Nat, a3 \in Nat, a4 \in Nat,
          <1>3, <1>9, <1>10, <1>11, LiesBefore, Zenon
<1>13. z + 1 = 1 /\ a0 + 1 = 3 /\ a0 + 2 = 4 /\ c2 + 1 = 5 /\ c3 + 1 = 7 /\ c4 + 1 = 9 /\ c5 + 1 = 11 /\ t = 12
  BY ONLY <1>1, <1>7
<1>14. U16(m, z + 1) = iden
  BY ONLY z \in Nat, iden \in Nat, <1>2, <1>12, WordAt
<1>15. m[a0 + 1] = f1 /\ m[a0 + 2] = f2
  BY ONLY a0 \in Nat, <1>2, <1>12, PairAt
<1>16. U16(m, c2 + 1) = qd
  BY ONLY c2 \in Nat, qd \in Nat, <1>2, <1>12, WordAt
<1>17. U16(m, c3 + 1) = an
  BY ONLY c3 \in Nat, an \in Nat, <1>2, <1>12, WordAt
<1>18. U16(m, c4 + 1) = ns
  BY ONLY c4 \in Nat, ns \in Nat, <1>2, <1>12, WordAt
<1>19. U16(m, c5 + 1) = ar
  BY ONLY c5 \in Nat, ar \in Nat, <1>2, <1>9, WordAt
<1>20. m \in Seq(Nat) /\ Len(m) = HeaderLen
  BY ONLY <1>7, <1>9, <1>13 DEF Sequence, HeaderLen
<1>21. m[3] = f1 /\ m[4] = f2
  BY ONLY <1>13, <1>15
<1> QED
  BY ONLY <1>13, <1>14, <1>16, <1>17, <1>18, <1>19, <1>20, <1>21 DEF NumbersOf, Iden, QdCount, AnCount, NsCount, ArCount

(* Where the pieces of a message lie: header, question, records; and what  *)
(* the parser makes of it.                                                 *)
LEMMA NameLength ==
  ASSUME NEW labels \in Seq(Labels(Nat))
  PROVE  /\ WireName(labels) \in Seq(Nat) /\ Len(WireName(labels)) \in Nat /\ Len(WireName(labels)) >= 1
         /\ \E n \in Nat : n = Len(labels) /\ DOMAIN labels = 1 .. n /\ \A i \in 1 .. n : labels[i] \in Seq(Nat)
<1>1. PICK n \in Nat : n = Len(labels) /\ DOMAIN labels = 1 .. n
  BY LenProperties
<1>2. \A i \in 1 .. n : labels[i] \in Seq(Nat)
  BY <1>1, ElementOfSeq DEF Labels
<1>3. /\ Len(FlattenSeq(Sized(labels))) \in Nat /\ WireName(labels) \in Seq(Nat)
      /\ Len(WireName(labels)) = Len(FlattenSeq(Sized(labels))) + 1
  BY ONLY n \in Nat, <1>1, <1>2, NameIs
<1>4. Len(WireName(labels)) \in Nat /\ Len(WireName(labels)) >= 1
  BY ONLY <1>3
<1> QED
  BY ONLY n \in Nat, <1>1, <1>2, <1>3, <1>4

Message(m, iden, f1, f2, qd, an, ns, ar, labels, type, rest) ==
  /\ iden \in Nat /\ f1 \in Nat /\ f2 \in Nat /\ qd \in Nat /\ an \in Nat /\ ns \in Nat /\ ar \in Nat
  /\ type \in Nat /\ labels \in Seq(Labels(Nat)) /\ rest \in Seq(Nat)
  /\ m = Octets16(iden) \o <<f1, f2>> \o Octets16(qd) \o Octets16(an) \o Octets16(ns) \o Octets16(ar)
         \o WireName(labels) \o Octets16(type) \o Octets16(ClassIN) \o rest
QuestionAndRest(m, labels, type, rest) ==
  \E k \in Nat, r \in Nat, q \in Nat :
    /\ k = Len(WireName(labels)) /\ r = Len(rest) /\ q = HeaderLen + k
    /\ m \in Seq(Nat) /\ Len(m) = q + 4 + r
    /\ LiesAt(m, HeaderLen, WireName(labels))
    /\ U16(m, q + 1) = type /\ U16(m, q + 3) = ClassIN
    /\ LiesAt(m, q + 4, rest)

LEMMA MessageLayout ==
  \A m, iden, f1, f2, qd, an, ns, ar, labels, type, rest :
    Message(m, iden, f1, f2, qd, an, ns, ar, labels, type, rest)
    => NumbersOf(m, iden, f1, f2, qd, an, ns, ar) /\ QuestionAndRest(m, labels, type, rest)
<1> SUFFICES ASSUME NEW m, NEW iden, NEW f1, NEW f2, NEW qd, NEW an, NEW ns, NEW ar, NEW labels, NEW type, NEW rest,
                    Message(m, iden, f1, f2, qd, an, ns, ar, labels, type, rest)
             PROVE  NumbersOf(m, iden, f1, f2, qd, an, ns, ar) /\ QuestionAndRest(m, labels, type, rest)
  BY Zenon
<1> /\ iden \in Nat /\ f1 \in Nat /\ f2 \in Nat /\ qd \in Nat /\ an \in Nat /\ ns \in Nat /\ ar \in Nat
    /\ type \in Nat /\ labels \in Seq(Labels(Nat)) /\ rest \in Seq(Nat)
    /\ m = Octets16(iden) \o <<f1, f2>> \o Octets16(qd) \o Octets16(an) \o Octets16(ns) \o Octets16(ar)
           \o WireName(labels) \o Octets16(type) \o Octets16(ClassIN) \o rest
  BY Zenon DEF Message
<1>1. PICK h : h = Octets16(iden) \o <<f1, f2>> \o Octets16(qd) \o Octets16(an) \o Octets16(ns) \o Octets16(ar)
  OBVIOUS
<1>2. h \in Seq(Nat) /\ Len(h) = HeaderLen /\ NumbersOf(h, iden, f1, f2, qd, an, ns, ar)
  <2>1. Header(h, iden, f1, f2, qd, an, ns, ar)
    BY <1>1, Zenon DEF Header
  <2> QED
    BY ONLY <2>1, HeaderLayout, Zenon
<1>a. PICK in \in Nat : in = ClassIN
  BY DEF ClassIN
<1>3. PICK name, t, c : name = WireName(labels) /\ t = Octets16(type) /\ in = ClassIN /\ c = Octets16(in)
  BY <1>a
<1>4. m = h \o name \o t \o c \o rest
  BY ONLY m = Octets16(iden) \o <<f1, f2>> \o Octets16(qd) \o Octets16(an) \o Octets16(ns) \o Octets16(ar)
              \o WireName(labels) \o Octets16(type) \o Octets16(ClassIN) \o rest, <1>1, <1>3
<1>5. PICK z \in Nat, d \in Nat, k \in Nat, w1 \in Nat, w2 \in Nat, r \in Nat :
        /\ z = 0 /\ d = HeaderLen /\ k = Len(name) /\ w1 = 2 /\ w2 = 2 /\ r = Len(rest)
  BY <1>3, NameLength, LenProperties DEF HeaderLen
<1>6. Five(Nat, h, name, t, c, rest, d, k, w1, w2, r, m)
  <2>1. name \in Seq(Nat)
    BY <1>3, NameLength
  <2>2. t \in Seq(Nat) /\ c \in Seq(Nat) /\ w1 = Len(t) /\ w2 = Len(c)
    BY <1>3, <1>5, WordIs
  <2> QED
    BY <1>2, <1>4, <1>5, <2>1, <2>2, Zenon DEF Five
<1>7. Laid(Nat, h, name, t, c, rest, d, k, w1, w2, r, m)
  BY ONLY <1>6, FiveLaid, Zenon
<1>8. /\ m \in Seq(Nat) /\ Len(m) = d + k + w1 + w2 + r
      /\ LiesAt(m, 0, h) /\ LiesAt(m, d, name) /\ LiesAt(m, d + k, t)
      /\ LiesAt(m, d + k + w1, c) /\ LiesAt(m, d + k + w1 + w2, rest)
  BY ONLY <1>7, Zenon DEF Laid
<1>9. PICK q \in Nat, q2 \in Nat, q4 \in Nat : q = d + k /\ q2 = q + 2 /\ q4 = q + 4
  OBVIOUS
<1>10. LiesAt(m, q, t) /\ LiesAt(m, q2, c) /\ LiesAt(m, q4, rest)
  BY ONLY <1>5, <1>8, <1>9
<1>11. U16(m, q + 1) = type /\ U16(m, q2 + 1) = in
  BY ONLY q \in Nat, q2 \in Nat, type \in Nat, in \in Nat, <1>3, <1>10, WordAt
<1>12. NumbersOf(m, iden, f1, f2, qd, an, ns, ar)
  <2>1. \A i \in 1 .. 12 : m[i] = h[i]
    <3>1. 1 .. 12 = 1 .. Len(h) /\ \A i \in 1 .. 12 : 0 + i = i
      BY <1>2 DEF HeaderLen
    <3> QED
      BY ONLY <1>8, <3>1 DEF LiesAt
  <2>2. /\ m[1] = h[1] /\ m[2] = h[2] /\ m[3] = h[3] /\ m[4] = h[4] /\ m[5] = h[5] /\ m[6] = h[6]
        /\ m[7] = h[7] /\ m[8] = h[8] /\ m[9] = h[9] /\ m[10] = h[10] /\ m[11] = h[11] /\ m[12] = h[12]
    BY ONLY <2>1
  <2> QED
    BY ONLY <1>2, <2>2 DEF NumbersOf, Iden, QdCount, AnCount, NsCount, ArCount, U16
<1> QED
  <2>1. k = Len(WireName(labels)) /\ r = Len(rest) /\ q = HeaderLen + k
    BY ONLY <1>3, <1>5, <1>9
  <2>2. Len(m) = q + 4 + r
    BY ONLY <1>5, <1>8, <1>9
  <2>3. LiesAt(m, HeaderLen, WireName(labels))
    BY ONLY <1>3, <1>5, <1>8
  <2>4. U16(m, q + 3) = ClassIN /\ LiesAt(m, q + 4, rest)
    <3>1. q2 + 1 = q + 3
      BY ONLY q \in Nat, <1>9
    <3> QED
      BY ONLY <1>3, <1>9, <1>10, <1>11, <3>1
  <2> QED
    BY ONLY k \in Nat, r \in Nat, q \in Nat, <1>8, <1>11, <1>12, <2>1, <2>2, <2>3, <2>4 DEF QuestionAndRest

(* The parser reads the question out of it; the first octet of the name is *)
(* zero just where it is the root, and else the length of the first label. *)
LEMMA MessageQuestion ==
  ASSUME NEW m \in Seq(Nat), NEW labels \in Seq(Labels(Nat)), NEW k \in Nat, k = Len(WireName(labels)),
         LiesAt(m, HeaderLen, WireName(labels)), HeaderLen + k <= Len(m)
  PROVE  /\ Question(m) = [host |-> Dotted(labels), end |-> HeaderLen + k + 1]
         /\ m[HeaderLen + 1] = 0 <=> labels = << >>
         /\ labels # << >> => m[HeaderLen + 1] = Len(labels[1])
<1>1. PICK n \in Nat : n = Len(labels) /\ DOMAIN labels = 1 .. n /\ \A i \in 1 .. n : labels[i] \in Seq(Nat)
  BY NameLength
<1>2. PICK d \in Nat : d = HeaderLen
  BY DEF HeaderLen
<1>3. Len(m) \in Nat /\ LiesAt(m, d, WireName(labels)) /\ d + Len(WireName(labels)) <= Len(m)
  BY <1>2, LenProperties
<1>4. PICK at : Spells(m, at, labels) /\ at[1] = d + 1 /\ at[n + 1] = d + Len(WireName(labels))
  <2>1. Stands(m, labels, n, d)
    BY ONLY n \in Nat, d \in Nat, <1>1, <1>3, Zenon DEF Stands
  <2>2. SpelledFrom(m, labels, n, d)
    BY ONLY <2>1, NameSpells, Zenon
  <2> QED
    BY ONLY <2>2 DEF SpelledFrom
<1>5. at[1] = HeaderLen + 1 /\ at[Len(labels) + 1] = HeaderLen + k
  BY ONLY k = Len(WireName(labels)), <1>1, <1>2, <1>4
<1>6. Question(m) = [host |-> Dotted(labels), end |-> at[Len(labels) + 1] + 1]
  BY ONLY m \in Seq(Nat), labels \in Seq(Labels(Nat)), <1>4, <1>5, QuestionSpells
<1>7. m[HeaderLen + 1] = 0 <=> labels = << >>
  <2>1. CASE n = 0
    <3>1. labels = << >>
      BY <1>1, <2>1, EmptySeq
    <3>2. Zero(m, at[n + 1]) /\ at[n + 1] = d + 1
      BY ONLY n \in Nat, <1>1, <1>4, <2>1 DEF Spells
    <3>3. Len(WireName(labels)) >= 1
      BY NameLength
    <3>4. ~ (d + 1 > Len(m))
      BY ONLY d \in Nat, <1>3, <3>3, k \in Nat, k = Len(WireName(labels))
    <3> QED
      BY ONLY <1>2, <3>1, <3>2, <3>4 DEF Zero
  <2>2. CASE n # 0
    <3>1. labels # << >>
      BY <1>1, <2>2, EmptySeq
    <3>2. 1 \in 1 .. n
      BY <2>2
    <3>3. m[at[1]] = Len(labels[1]) /\ Len(labels[1]) >= 1
      BY ONLY SMTT(30), <1>1, <1>4, <3>2, labels \in Seq(Labels(Nat)), ElementOfSeq DEF Spells, Labels
    <3>4. labels[1] \in Seq(Nat) /\ Len(labels[1]) \in Nat
      BY <1>1, <3>2, LenProperties
    <3> QED
      BY ONLY <1>5, <3>1, <3>3, <3>4
  <2> QED
    BY <2>1, <2>2
<1>8. ASSUME labels # << >> PROVE m[HeaderLen + 1] = Len(labels[1])
  <2>1. n # 0
    BY <1>1, <1>8, EmptySeq
  <2>2. 1 \in 1 .. Len(labels)
    BY ONLY n \in Nat, <1>1, <2>1
  <2>3. m[at[1]] = Len(labels[1])
    BY ONLY <1>4, <2>2, Zenon DEF Spells
  <2> QED
    BY ONLY <1>5, <2>3
<1> QED
  BY ONLY <1>5, <1>6, <1>7, <1>8
-----------------------------------------------------------------------------
(* What is in the messages are octets.                                     *)

LEMMA Between == \A b \in Int : \A w : w \in 0 .. b <=> w \in Int /\ 0 <= w /\ w <= b
OBVIOUS

LEMMA OctetNumbers ==
  /\ Octet \subseteq Nat /\ \A w \in Word : w \in Nat
  /\ \A w \in Word : w \div 256 \in Octet /\ w % 256 \in Octet
  /\ \A l \in 1 .. 63 : l \in Octet
  /\ 255 \in Octet /\ 192 \in Octet /\ 128 \in Octet /\ 60 \in Octet /\ Dot \in Octet /\ 1 \in Octet /\ 0 \in Octet
<1>1. PICK b \in Int, c \in Int : b = 256 * 256 - 1 /\ c = 255
  OBVIOUS
<1>2. Word = 0 .. b /\ Octet = 0 .. c
  BY ONLY <1>1 DEF Word, Octet
<1>3. \A w : (w \in Word <=> w \in Int /\ 0 <= w /\ w <= b) /\ (w \in Octet <=> w \in Int /\ 0 <= w /\ w <= c)
  BY ONLY b \in Int, c \in Int, <1>2, Between
<1>4. \A w \in Int : 0 <= w => w \in Nat
  OBVIOUS
<1>5. ASSUME NEW w \in Word PROVE w \div 256 \in Octet /\ w % 256 \in Octet
  <2>1. w \in Int /\ 0 <= w /\ w <= b
    BY <1>3
  <2>2. PICK x, y : x = w \div 256 /\ y = w % 256
    OBVIOUS
  <2>3. x \in Int /\ y \in Int /\ w = 256 * x + y /\ 0 <= y /\ y <= c
    BY ONLY <1>1, <2>1, <2>2
  <2>4. 0 <= x /\ x <= c
    BY ONLY <1>1, <2>1, <2>3
  <2>5. x \in Octet /\ y \in Octet
    BY ONLY <1>3, <2>3, <2>4, Zenon
  <2> QED
    BY ONLY <2>2, <2>5, Zenon
<1>6. ASSUME NEW l \in 1 .. 63 PROVE l \in Octet
  <2>1. l \in Int /\ 0 <= l /\ l <= c
    BY ONLY l \in 1 .. 63, <1>1
  <2> QED
    BY ONLY <1>3, <2>1, Zenon
<1>7. 255 \in Octet /\ 192 \in Octet /\ 128 \in Octet /\ 60 \in Octet /\ 46 \in Octet /\ 1 \in Octet /\ 0 \in Octet
  BY ONLY <1>1, <1>3
<1>8. Octet \subseteq Nat /\ \A w \in Word : w \in Nat
  BY ONLY <1>3, <1>4, Zenon
<1> QED
  BY ONLY <1>5, <1>6, <1>7, <1>8, Zenon DEF Dot

LEMMA OctetSequences ==
  /\ Seq(Octet) \subseteq Seq(Nat) /\ Label \subseteq Labels(Nat) /\ Label \subseteq Seq(Octet)
  /\ Seq(Label) \subseteq Seq(Labels(Nat))
<1>1. Seq(Octet) \subseteq Seq(Nat)
  BY OctetNumbers, SeqMonotonic
<1>2. Label \subseteq Labels(Nat) /\ Label \subseteq Seq(Octet)
  <2>1. ASSUME NEW s \in Label PROVE s \in Labels(Nat) /\ s \in Seq(Octet)
    <3>1. s \in Seq(Octet) /\ Len(s) \in 1 .. 63
      BY ONLY s \in Label, Zenon DEF Label
    <3>2. s \in Seq(Nat)
      BY ONLY <1>1, <3>1, Zenon
    <3>3. PICK l \in 1 .. 63 : l = Len(s)
      BY ONLY <3>1, Zenon
    <3>4. l >= 1
      BY ONLY l \in 1 .. 63
    <3> QED
      BY ONLY <3>1, <3>2, <3>3, <3>4, Zenon DEF Labels
  <2> QED
    BY ONLY <2>1, Zenon
<1>3. Seq(Label) \subseteq Seq(Labels(Nat))
  BY <1>2, SeqMonotonic
<1> QED
  BY <1>1, <1>2, <1>3

LEMMA Concat == \A S : \A s, t \in Seq(S) : s \o t \in Seq(S)
BY ConcatProperties

LEMMA WordOctets ==
  ASSUME NEW w \in Word
  PROVE  Octets16(w) \in Seq(Octet)
<1>1. PICK x \in Octet, y \in Octet : x = w \div 256 /\ y = w % 256
  BY OctetNumbers
<1>2. <<x, y>> \in Seq(Octet)
  BY PairIs
<1> QED
  BY <1>1, <1>2 DEF Octets16

LEMMA SomeOctets ==
  /\ <<0>> \in Seq(Octet) /\ << >> \in Seq(Octet) /\ <<1, 0>> \in Seq(Octet)
  /\ <<0, 0, 0, 60>> \in Seq(Octet)
  /\ 0 \in Word /\ 1 \in Word /\ ClassIN \in Word /\ TypeOPT \in Word
<1>1. PICK a \in Octet, b \in Octet, c \in Octet : a = 0 /\ b = 1 /\ c = 60
  BY DEF Octet
<1>2. <<a>> \in Seq(Octet) /\ <<b, a>> \in Seq(Octet)
  BY PairIs
<1>3. <<a, a, a, c>> \in Seq(Octet)
  OBVIOUS
<1>4. 0 \in Word /\ 1 \in Word /\ 41 \in Word
  BY DEF Word
<1> QED
  BY <1>1, <1>2, <1>3, <1>4, EmptySeq DEF ClassIN, TypeOPT

LEMMA NameOctets ==
  ASSUME NEW labels \in Seq(Label)
  PROVE  WireName(labels) \in Seq(Octet)
<1>1. PICK n \in Nat : n = Len(labels) /\ DOMAIN labels = 1 .. n
  BY LenProperties
<1>2. ASSUME NEW i \in 1 .. n PROVE labels[i] \in Seq(Octet) /\ Len(labels[i]) \in Octet
  <2>1. labels[i] \in Label
    BY <1>1, ElementOfSeq
  <2>2. labels[i] \in Seq(Octet) /\ Len(labels[i]) \in 1 .. 63
    BY ONLY <2>1, Zenon DEF Label
  <2> QED
    BY ONLY <2>2, OctetNumbers, Zenon
<1>3. ASSUME NEW i \in 1 .. n PROVE <<Len(labels[i])>> \o labels[i] \in Seq(Octet)
  <2>1. PICK s \in Seq(Octet), l \in Octet : s = labels[i] /\ l = Len(labels[i])
    BY <1>2
  <2>2. <<l>> \in Seq(Octet)
    OBVIOUS
  <2> QED
    BY <2>1, <2>2, Concat
<1>4. PICK ss : ss = [i \in DOMAIN labels |-> <<Len(labels[i])>> \o labels[i]]
  OBVIOUS
<1>5. ss \in Seq(Seq(Octet))
  <2>1. ss \in [1 .. n -> Seq(Octet)]
    BY <1>1, <1>3, <1>4
  <2> QED
    BY <2>1, SeqDef
<1>6. FlattenSeq(ss) \in Seq(Octet)
  BY <1>5, FlattenType
<1> QED
  BY <1>4, <1>6, SomeOctets, Concat DEF WireName

LEMMA DottedOctets ==
  ASSUME NEW labels \in Seq(Label)
  PROVE  Dotted(labels) \in Seq(Octet)
<1>1. PICK n \in Nat : n = Len(labels) /\ DOMAIN labels = 1 .. n
  BY LenProperties
<1>2. \A i \in 1 .. n : labels[i] \in Seq(Octet)
  BY <1>1, ElementOfSeq DEF Label
<1>3. <<Dot>> \in Seq(Octet)
  <2>1. PICK d \in Octet : d = Dot
    BY DEF Dot, Octet
  <2>2. <<d>> \in Seq(Octet)
    OBVIOUS
  <2> QED
    BY <2>1, <2>2
<1>4. ASSUME NEW i \in 1 .. n PROVE labels[i] \o (IF i < Len(labels) THEN <<Dot>> ELSE << >>) \in Seq(Octet)
  <2>1. PICK d \in Seq(Octet) : d = IF i < Len(labels) THEN <<Dot>> ELSE << >>
    BY <1>3, SomeOctets
  <2>2. labels[i] \o d \in Seq(Octet)
    BY <1>2, Concat
  <2> QED
    BY <2>1, <2>2
<1>5. PICK ss : ss = [i \in DOMAIN labels |-> labels[i] \o (IF i < Len(labels) THEN <<Dot>> ELSE << >>)]
  OBVIOUS
<1>6. ss \in Seq(Seq(Octet))
  <2>1. ss \in [1 .. n -> Seq(Octet)]
    BY <1>1, <1>4, <1>5
  <2> QED
    BY <2>1, SeqDef
<1> QED
  BY <1>5, <1>6, FlattenType DEF Dotted

LEMMA RecordOctets ==
  ASSUME NEW r \in Records
  PROVE  WireRecord(r) \in Seq(Octet)
<1>1. r.owner \in Seq(Octet) /\ r.type \in Word /\ r.data \in Seq(Octet) /\ Len(r.data) \in Word
  BY DEF Records
<1>2. PICK o \in Seq(Octet), t \in Seq(Octet), c \in Seq(Octet), l \in Seq(Octet), ttl \in Seq(Octet), d \in Seq(Octet) :
        /\ o = r.owner /\ t = Octets16(r.type) /\ c = Octets16(ClassIN)
        /\ ttl = <<0, 0, 0, 60>> /\ l = Octets16(Len(r.data)) /\ d = r.data
  BY <1>1, WordOctets, SomeOctets
<1>3. o \o t \o c \in Seq(Octet)
  BY Concat
<1>4. o \o t \o c \o ttl \o l \in Seq(Octet)
  BY <1>3, Concat
<1>5. o \o t \o c \o ttl \o l \o d \in Seq(Octet)
  BY <1>4, Concat
<1> QED
  BY <1>2, <1>5 DEF WireRecord

LEMMA RecordsOctets ==
  ASSUME NEW rs \in Seq(Records)
  PROVE  /\ WireRecords(rs) \in Seq(Octet)
         /\ [i \in DOMAIN rs |-> WireRecord(rs[i])] \in Seq(Seq(Octet))
<1>1. PICK n \in Nat : n = Len(rs) /\ DOMAIN rs = 1 .. n /\ \A i \in 1 .. n : rs[i] \in Records
  BY LenProperties, ElementOfSeq
<1>2. PICK ss : ss = [i \in DOMAIN rs |-> WireRecord(rs[i])]
  OBVIOUS
<1>3. ss \in Seq(Seq(Octet))
  <2>1. ss \in [1 .. n -> Seq(Octet)]
    BY <1>1, <1>2, RecordOctets
  <2> QED
    BY <2>1, SeqDef
<1>4. FlattenSeq(ss) \in Seq(Octet)
  BY <1>3, FlattenType
<1> QED
  BY <1>2, <1>3, <1>4 DEF WireRecords

LEMMA ExtrasType ==
  ASSUME NEW q
  PROVE  Extras(q) \in Seq(Records) /\ Len(Extras(q)) \in Word
<1>1. OptRecord \in Records
  <2>1. Len(<< >>) \in Word
    BY SomeOctets, EmptySeq
  <2>2. PICK o, d, t : o = <<0>> /\ d = << >> /\ t = TypeOPT
    OBVIOUS
  <2>3. [owner |-> o, type |-> t, data |-> d] \in Records
    BY <2>1, <2>2, SomeOctets DEF Records
  <2>4. OptRecord = [owner |-> o, type |-> t, data |-> d]
    BY <2>2 DEF OptRecord
  <2> QED
    BY <2>3, <2>4
<1>2. PICK opt \in Records : opt = OptRecord
  BY <1>1
<1>3. /\ <<opt>> \in Seq(Records) /\ << >> \in Seq(Records)
      /\ Len(<<opt>>) = 1 /\ Len(<< >>) = 0
  BY EmptySeq
<1>4. Extras(q) = IF q.edns THEN <<opt>> ELSE << >>
  BY <1>2 DEF Extras
<1>5. CASE q.edns
  BY <1>3, <1>4, <1>5, SomeOctets
<1>6. CASE ~q.edns
  BY <1>3, <1>4, <1>6, SomeOctets
<1> QED
  BY <1>5, <1>6

(* A query as clients may send it.                                         *)
Proper(q) == q.iden \in Word /\ q.type \in Word /\ q.name \in Seq(Label) /\ q.edns \in BOOLEAN

LEMMA QueryOctets ==
  ASSUME NEW q, Proper(q)
  PROVE  WireQuery(q) \in Seq(Octet)
<1>1. PICK p0 \in Seq(Octet), p1 \in Seq(Octet), p2 \in Seq(Octet), p3 \in Seq(Octet), p4 \in Seq(Octet),
           p5 \in Seq(Octet), p6 \in Seq(Octet), p7 \in Seq(Octet), p8 \in Seq(Octet) :
        /\ p0 = Octets16(q.iden) /\ p1 = <<1, 0>> /\ p2 = Octets16(1) /\ p3 = Octets16(0)
        /\ p4 = Octets16(Len(Extras(q))) /\ p5 = WireName(q.name) /\ p6 = Octets16(q.type)
        /\ p7 = Octets16(ClassIN) /\ p8 = WireRecords(Extras(q))
  <2>1. /\ Octets16(q.iden) \in Seq(Octet) /\ Octets16(1) \in Seq(Octet) /\ Octets16(0) \in Seq(Octet)
        /\ Octets16(Len(Extras(q))) \in Seq(Octet) /\ Octets16(q.type) \in Seq(Octet)
        /\ Octets16(ClassIN) \in Seq(Octet)
    BY WordOctets, ExtrasType, SomeOctets DEF Proper
  <2>2. WireName(q.name) \in Seq(Octet) /\ WireRecords(Extras(q)) \in Seq(Octet)
    BY NameOctets, ExtrasType, RecordsOctets DEF Proper
  <2> QED
    BY <2>1, <2>2, SomeOctets
<1>2. p0 \o p1 \o p2 \in Seq(Octet)
  BY Concat
<1>3. p0 \o p1 \o p2 \o p3 \o p3 \in Seq(Octet)
  BY <1>2, Concat
<1>4. p0 \o p1 \o p2 \o p3 \o p3 \o p4 \o p5 \in Seq(Octet)
  BY <1>3, Concat
<1>5. p0 \o p1 \o p2 \o p3 \o p3 \o p4 \o p5 \o p6 \o p7 \in Seq(Octet)
  BY <1>4, Concat
<1>6. p0 \o p1 \o p2 \o p3 \o p3 \o p4 \o p5 \o p6 \o p7 \o p8 \in Seq(Octet)
  BY <1>5, Concat
<1> QED
  BY <1>1, <1>6 DEF WireQuery
-----------------------------------------------------------------------------
(* Queries and answers.                                                    *)

LEMMA QueryRead ==
  ASSUME NEW q, Proper(q), NEW m, m = WireQuery(q)
  PROVE  /\ NumbersOf(m, q.iden, 1, 0, 1, 0, 0, Len(Extras(q)))
         /\ QuestionAndRest(m, q.name, q.type, WireRecords(Extras(q)))
<1>1. PICK i \in Nat, t \in Nat, e \in Nat, n1 \in Nat, n0 \in Nat :
        i = q.iden /\ t = q.type /\ e = Len(Extras(q)) /\ n1 = 1 /\ n0 = 0
  BY OctetNumbers, ExtrasType DEF Proper
<1>2. PICK labels \in Seq(Labels(Nat)), rest \in Seq(Nat) : labels = q.name /\ rest = WireRecords(Extras(q))
  BY OctetSequences, ExtrasType, RecordsOctets DEF Proper
<1>3. m = Octets16(i) \o <<n1, n0>> \o Octets16(n1) \o Octets16(n0) \o Octets16(n0) \o Octets16(e)
          \o WireName(labels) \o Octets16(t) \o Octets16(ClassIN) \o rest
  BY <1>1, <1>2 DEF WireQuery
<1>4. Message(m, i, n1, n0, n1, n0, n0, e, labels, t, rest)
  BY <1>3, Zenon DEF Message
<1>5. NumbersOf(m, i, n1, n0, n1, n0, n0, e) /\ QuestionAndRest(m, labels, t, rest)
  BY ONLY <1>4, MessageLayout, Zenon
<1> QED
  BY ONLY <1>1, <1>2, <1>5

LEMMA AnswerRead ==
  ASSUME NEW q, Proper(q), NEW rs \in Seq(Records), NEW m, m = WireAnswer(q, rs)
  PROVE  /\ NumbersOf(m, q.iden, 129, 128, 1, Len(rs), 0, Len(Extras(q)))
         /\ QuestionAndRest(m, q.name, q.type, WireRecords(rs \o Extras(q)))
         /\ rs \o Extras(q) \in Seq(Records)
<1>0. rs \o Extras(q) \in Seq(Records)
  BY ExtrasType, Concat
<1>1. PICK i \in Nat, t \in Nat, e \in Nat, c \in Nat, n1 \in Nat, n0 \in Nat, f1 \in Nat, f2 \in Nat :
        /\ i = q.iden /\ t = q.type /\ e = Len(Extras(q)) /\ c = Len(rs) /\ n1 = 1 /\ n0 = 0
        /\ f1 = 129 /\ f2 = 128
  BY ZenonT(40), OctetNumbers, ExtrasType, LenProperties DEF Proper
<1>2. PICK labels \in Seq(Labels(Nat)), rest \in Seq(Nat) : labels = q.name /\ rest = WireRecords(rs \o Extras(q))
  BY <1>0, OctetSequences, RecordsOctets DEF Proper
<1>3. m = Octets16(i) \o <<f1, f2>> \o Octets16(n1) \o Octets16(c) \o Octets16(n0) \o Octets16(e)
          \o WireName(labels) \o Octets16(t) \o Octets16(ClassIN) \o rest
  BY <1>1, <1>2 DEF WireAnswer
<1>4. Message(m, i, f1, f2, n1, c, n0, e, labels, t, rest)
  BY <1>3, Zenon DEF Message
<1>5. NumbersOf(m, i, f1, f2, n1, c, n0, e) /\ QuestionAndRest(m, labels, t, rest)
  BY ONLY <1>4, MessageLayout, Zenon
<1> QED
  BY ONLY <1>0, <1>1, <1>2, <1>5

LEMMA ExtrasCount ==
  ASSUME NEW q
  PROVE  Len(Extras(q)) <= 1 /\ (~q.edns => Extras(q) = << >> /\ WireRecords(Extras(q)) = << >>)
<1>1. Len(<<OptRecord>>) = 1 /\ Len(<< >>) = 0
  OBVIOUS
<1>2. Len(Extras(q)) <= 1 /\ (~q.edns => Extras(q) = << >>)
  BY <1>1 DEF Extras
<1>3. ASSUME ~q.edns PROVE WireRecords(Extras(q)) = << >>
  <2>1. PICK ss : ss = [i \in DOMAIN Extras(q) |-> WireRecord(Extras(q)[i])]
    OBVIOUS
  <2>2. DOMAIN Extras(q) = {}
    BY <1>2, <1>3
  <2>3. ss = << >>
    BY <2>1, <2>2
  <2>4. Len(ss) = 0
    BY <1>1, <2>3
  <2>5. FlattenSeq(ss) = ss
    BY <2>4 DEF FlattenSeq
  <2> QED
    BY <2>1, <2>3, <2>5 DEF WireRecords
<1> QED
  BY <1>2, <1>3

(* What the parser makes of a query, and that the forwarder's setting RD   *)
(* leaves it as it is.                                                     *)
THEOREM QueryParsed ==
  ASSUME NEW q, Proper(q), NEW m, m = WireQuery(q)
  PROVE  /\ Iden(m) = q.iden /\ Question(m).host = Dotted(q.name)
         /\ Accepted(m) <=> q.type = TypeA /\ q.name # << >>
         /\ AskRecursion(m) = m
<1>1. /\ NumbersOf(m, q.iden, 1, 0, 1, 0, 0, Len(Extras(q)))
      /\ QuestionAndRest(m, q.name, q.type, WireRecords(Extras(q)))
  BY QueryRead
<1>2. PICK k \in Nat, r \in Nat, e \in Nat :
        /\ k = Len(WireName(q.name)) /\ e = HeaderLen + k
        /\ m \in Seq(Nat) /\ Len(m) = e + 4 + r
        /\ LiesAt(m, HeaderLen, WireName(q.name))
        /\ U16(m, e + 1) = q.type
  BY ONLY <1>1, Zenon DEF QuestionAndRest
<1>3. q.name \in Seq(Labels(Nat)) /\ HeaderLen + k <= Len(m)
  BY SMTT(30), <1>2, OctetSequences DEF Proper
<1>4. /\ Question(m) = [host |-> Dotted(q.name), end |-> HeaderLen + k + 1]
      /\ m[HeaderLen + 1] \in 1 .. 127 <=> q.name # << >>
  <2>1. /\ Question(m) = [host |-> Dotted(q.name), end |-> HeaderLen + k + 1]
        /\ m[HeaderLen + 1] = 0 <=> q.name = << >>
        /\ q.name # << >> => m[HeaderLen + 1] = Len(q.name[1])
    BY ONLY k \in Nat, <1>2, <1>3, MessageQuestion
  <2>2. ASSUME q.name # << >> PROVE Len(q.name[1]) \in 1 .. 127
    <3>1. q.name \in Seq(Label)
      BY DEF Proper
    <3>2. 1 \in 1 .. Len(q.name)
      BY ONLY <2>2, <3>1, EmptySeq, LenProperties
    <3>3. q.name[1] \in Label
      BY ONLY <3>1, <3>2, ElementOfSeq
    <3>4. Len(q.name[1]) \in 1 .. 63
      BY ONLY <3>3, Zenon DEF Label
    <3> QED
      BY ONLY <3>4
  <2>3. ~ (0 \in 1 .. 127)
    OBVIOUS
  <2> QED
    BY ONLY <2>1, <2>2, <2>3, Zenon
<1>5. Question(m).host = Dotted(q.name) /\ Question(m).end = e + 1
  <2>1. PICK u, v : u = Dotted(q.name) /\ v = HeaderLen + k + 1 /\ v = e + 1
    BY ONLY <1>2
  <2>2. Question(m) = [host |-> u, end |-> v]
    BY ONLY <1>4, <2>1
  <2> QED
    BY ONLY <2>1, <2>2
<1>6. Iden(m) = q.iden /\ QdCount(m) = 1 /\ AnCount(m) = 0 /\ NsCount(m) = 0 /\ ArCount(m) <= 1 /\ m[3] = 1
  BY ONLY <1>1, ExtrasCount DEF NumbersOf
<1>7. Accepted(m) <=> q.type = TypeA /\ q.name # << >>
  <2>1. U16(m, Question(m).end) = q.type
    BY ONLY <1>2, <1>5
  <2> QED
    BY ONLY <1>4, <1>6, <2>1, Zenon DEF Accepted
<1>8. AskRecursion(m) = m
  <2>1. (1 \div 1) % 2 = 1
    OBVIOUS
  <2>2. WithBit(m[3], 1) = m[3]
    BY ONLY <1>6, <2>1 DEF WithBit
  <2>3. m = [i \in DOMAIN m |-> m[i]]
    BY ONLY <1>2, SeqDef
  <2> QED
    BY ONLY <2>2, <2>3 DEF AskRecursion
<1> QED
  BY <1>5, <1>6, <1>7, <1>8
-----------------------------------------------------------------------------
(* The reply.                                                              *)

LEMMA WithNone ==
  ASSUME NEW S, NEW s \in Seq(S)
  PROVE  s \o << >> = s
<1>1. PICK n \in Nat : n = Len(s)
  BY LenProperties
<1>2. << >> \in Seq(S) /\ Len(<< >>) = 0
  BY EmptySeq
<1>3. PICK t \in Seq(S) : t = s \o << >>
  BY <1>2, Concat
<1>4. Len(t) = n /\ \A i \in 1 .. n : t[i] = s[i]
  BY <1>1, <1>2, <1>3, ConcatProperties
<1> QED
  BY ONLY <1>1, <1>3, <1>4, s \in Seq(S), SeqEqual

(* A query with the flags and the count of a reply.                        *)
Marked(w) == [w EXCEPT ![3] = WithBit(@, 128), ![4] = WithBit(@, 128), ![7] = 0, ![8] = 1]

IsMarked(h, w, l) ==
  /\ h \in Seq(Nat) /\ Len(h) = l /\ h[3] = 129 /\ h[7] = 0 /\ h[8] = 1
  /\ \A i \in 1 .. l : i \notin {3, 4, 7, 8} => h[i] = w[i]

LEMMA MarkedIs ==
  ASSUME NEW w \in Seq(Nat), NEW l \in Nat, l = Len(w), l >= 8, w[3] = 1, w[4] = 0, NEW h, h = Marked(w)
  PROVE  IsMarked(h, w, l)
<1>1. DOMAIN w = 1 .. l /\ \A i \in 1 .. l : w[i] \in Nat
  BY LenProperties, ElementOfSeq
<1>2. WithBit(w[3], 128) = 129 /\ WithBit(w[4], 128) = 128
  <2>1. (1 \div 128) % 2 = 0 /\ (0 \div 128) % 2 = 0
    OBVIOUS
  <2> QED
    BY <2>1 DEF WithBit
<1>3. h = [i \in 1 .. l |-> IF i = 3 THEN 129 ELSE IF i = 4 THEN 128 ELSE IF i = 7 THEN 0 ELSE IF i = 8 THEN 1 ELSE w[i]]
  <2>1. PICK x, y : x = WithBit(w[3], 128) /\ y = WithBit(w[4], 128) /\ x = 129 /\ y = 128
    BY <1>2
  <2>2. PICK h1, h2, h3 : /\ h1 = [w EXCEPT ![3] = x] /\ h2 = [h1 EXCEPT ![4] = y] /\ h3 = [h2 EXCEPT ![7] = 0]
    OBVIOUS
  <2>3. DOMAIN h1 = 1 .. l /\ \A i \in 1 .. l : h1[i] = IF i = 3 THEN x ELSE w[i]
    BY ONLY l \in Nat, l >= 8, <1>1, <2>2
  <2>4. DOMAIN h2 = 1 .. l /\ \A i \in 1 .. l : h2[i] = IF i = 4 THEN y ELSE h1[i]
    BY ONLY l \in Nat, l >= 8, <2>3, <2>2
  <2>5. DOMAIN h3 = 1 .. l /\ \A i \in 1 .. l : h3[i] = IF i = 7 THEN 0 ELSE h2[i]
    BY ONLY l \in Nat, l >= 8, <2>4, <2>2
  <2>6. h = [h3 EXCEPT ![8] = 1]
    <3>1. h1[4] = w[4]
      BY ONLY l \in Nat, l >= 8, <2>3
    <3> QED
      BY ONLY <2>1, <2>2, <3>1, h = Marked(w) DEF Marked
  <2>7. h = [i \in 1 .. l |-> IF i = 8 THEN 1 ELSE h3[i]]
    BY ONLY <2>5, <2>6
  <2> QED
    BY ONLY <2>1, <2>3, <2>4, <2>5, <2>7
<1>4. 3 \in 1 .. l /\ 4 \in 1 .. l /\ 7 \in 1 .. l /\ 8 \in 1 .. l
  BY ONLY l \in Nat, l >= 8
<1>5. \A i \in 1 .. l : h[i] \in Nat
  BY ONLY <1>1, <1>3
<1>6. h = [i \in 1 .. l |-> h[i]]
  BY ONLY <1>3
<1>7. h \in Seq(Nat) /\ Len(h) = l
  <2>1. h \in [1 .. l -> Nat]
    BY ONLY <1>5, <1>6
  <2>2. h \in Seq(Nat)
    BY <2>1, SeqDef
  <2> QED
    BY <2>1, <2>2, LenProperties
<1>8. h[3] = 129 /\ h[7] = 0 /\ h[8] = 1
  BY ONLY <1>3, <1>4
<1>9. \A i \in 1 .. l : i \notin {3, 4, 7, 8} => h[i] = w[i]
  BY ONLY <1>3
<1> QED
  BY ONLY <1>7, <1>8, <1>9, Zenon DEF IsMarked

(* Where the pieces of the record of a reply lie.                          *)
ReplyLies(m, h, l, addr) ==
  /\ m \in Seq(Nat) /\ Len(m) = l + 16 /\ LiesAt(m, 0, h)
  /\ m[l + 1] = 192 /\ U16(m, l + 3) = TypeA /\ U16(m, l + 5) = ClassIN
  /\ U16(m, l + 11) = 4 /\ LiesAt(m, l + 12, addr)

ReplyFrom(m, h, l, addr) ==
  /\ h \in Seq(Nat) /\ l \in Nat /\ l = Len(h) /\ addr \in Seq(Nat) /\ Len(addr) = 4
  /\ m = h \o <<192, HeaderLen>> \o Octets16(TypeA) \o Octets16(ClassIN)
         \o Octets16(128) \o <<0, 0>> \o Octets16(4) \o addr

LEMMA ReplyLayout == \A m, h, l, addr : ReplyFrom(m, h, l, addr) => ReplyLies(m, h, l, addr)
<1> SUFFICES ASSUME NEW m, NEW h, NEW l, NEW addr, ReplyFrom(m, h, l, addr) PROVE ReplyLies(m, h, l, addr)
  BY Zenon
<1> /\ h \in Seq(Nat) /\ l \in Nat /\ l = Len(h) /\ addr \in Seq(Nat) /\ Len(addr) = 4
    /\ m = h \o <<192, HeaderLen>> \o Octets16(TypeA) \o Octets16(ClassIN)
           \o Octets16(128) \o <<0, 0>> \o Octets16(4) \o addr
  BY Zenon DEF ReplyFrom
<1>1. PICK n192 \in Nat, n12 \in Nat, ta \in Nat, in \in Nat, n128 \in Nat, n0 \in Nat, n4 \in Nat :
        /\ n192 = 192 /\ n12 = HeaderLen /\ ta = TypeA /\ in = ClassIN /\ n128 = 128 /\ n0 = 0 /\ n4 = 4
  BY DEF HeaderLen, TypeA, ClassIN
<1>2. PICK p1, p2, p3, p4, p5, p6, p7 :
        /\ p1 = <<n192, n12>> /\ p2 = Octets16(ta) /\ p3 = Octets16(in)
        /\ p4 = Octets16(n128) /\ p5 = <<n0, n0>> /\ p6 = Octets16(n4) /\ p7 = << >>
  OBVIOUS
<1>3. PICK a1 \in Nat, a2 \in Nat, a3 \in Nat, a4 \in Nat, a5 \in Nat, a6 \in Nat, a7 \in Nat, aa \in Nat :
        a1 = 2 /\ a2 = 2 /\ a3 = 2 /\ a4 = 2 /\ a5 = 2 /\ a6 = 2 /\ a7 = 0 /\ aa = 4
  OBVIOUS
<1>4. /\ p1 \in Seq(Nat) /\ p2 \in Seq(Nat) /\ p3 \in Seq(Nat) /\ p4 \in Seq(Nat)
      /\ p5 \in Seq(Nat) /\ p6 \in Seq(Nat) /\ p7 \in Seq(Nat)
      /\ a1 = Len(p1) /\ a2 = Len(p2) /\ a3 = Len(p3) /\ a4 = Len(p4) /\ a5 = Len(p5) /\ a6 = Len(p6)
      /\ a7 = Len(p7) /\ aa = Len(addr)
  BY <1>2, <1>3, WordIs, PairIs, EmptySeq
<1>5. PICK g : g = h \o p1 \o p2 \o p3 \o p4
  OBVIOUS
<1>6. PICK c1 \in Nat, c2 \in Nat, c3 \in Nat, gl \in Nat :
        c1 = l + a1 /\ c2 = l + a1 + a2 /\ c3 = l + a1 + a2 + a3 /\ gl = l + a1 + a2 + a3 + a4
  <2>1. l + a1 \in Nat /\ l + a1 + a2 \in Nat /\ l + a1 + a2 + a3 \in Nat /\ l + a1 + a2 + a3 + a4 \in Nat
    OBVIOUS
  <2> QED
    BY ONLY <2>1, Zenon
<1>7. Laid(Nat, h, p1, p2, p3, p4, l, a1, a2, a3, a4, g)
  <2>1. Five(Nat, h, p1, p2, p3, p4, l, a1, a2, a3, a4, g)
    BY ONLY h \in Seq(Nat), l \in Nat, l = Len(h), a1 \in Nat, a2 \in Nat, a3 \in Nat, a4 \in Nat, <1>4, <1>5, Zenon DEF Five
  <2> QED
    BY ONLY <2>1, FiveLaid, Zenon
<1>8. /\ g \in Seq(Nat) /\ gl = Len(g) /\ LiesAt(g, 0, h) /\ LiesAt(g, l, p1) /\ LiesAt(g, c1, p2)
      /\ LiesAt(g, c2, p3) /\ LiesAt(g, c3, p4)
  BY ONLY <1>6, <1>7, Zenon DEF Laid
<1>9. m = g \o p5 \o p6 \o addr \o p7
  <2>1. m = g \o p5 \o p6 \o addr
    BY ONLY <1>1, <1>2, <1>5, m = h \o <<192, HeaderLen>> \o Octets16(TypeA) \o Octets16(ClassIN)
             \o Octets16(128) \o <<0, 0>> \o Octets16(4) \o addr
  <2>2. m \in Seq(Nat)
    <3>1. g \o p5 \o p6 \in Seq(Nat)
      BY ONLY <1>4, <1>8, Concat
    <3> QED
      BY ONLY <2>1, <3>1, addr \in Seq(Nat), Concat
  <2>3. m \o p7 = m
    BY <1>2, <2>2, WithNone
  <2> QED
    BY ONLY <2>1, <2>3
<1>10. Laid(Nat, g, p5, p6, addr, p7, gl, a5, a6, aa, a7, m)
  <2>1. Five(Nat, g, p5, p6, addr, p7, gl, a5, a6, aa, a7, m)
    BY ONLY addr \in Seq(Nat), gl \in Nat, a5 \in Nat, a6 \in Nat, a7 \in Nat, aa \in Nat, <1>4, <1>8, <1>9, Zenon DEF Five
  <2> QED
    BY ONLY <2>1, FiveLaid, Zenon
<1>11. PICK d5 \in Nat, d6 \in Nat : d5 = gl + a5 /\ d6 = gl + a5 + a6
  OBVIOUS
<1>12. /\ m \in Seq(Nat) /\ Len(m) = gl + a5 + a6 + aa + a7
       /\ LiesAt(m, 0, g) /\ LiesAt(m, d5, p6) /\ LiesAt(m, d6, addr)
  BY ONLY <1>10, <1>11, Zenon DEF Laid
<1>13. PICK z \in Nat : z = 0
  OBVIOUS
<1>14. z + l <= gl /\ l + a1 <= gl /\ c1 + a2 <= gl /\ c2 + a3 <= gl
  BY ONLY l \in Nat, <1>3, <1>6, <1>13
<1>15. LiesAt(m, z, h) /\ LiesAt(m, l, p1) /\ LiesAt(m, c1, p2) /\ LiesAt(m, c2, p3)
  <2>1. LiesAt(g, z, h)
    BY ONLY <1>8, <1>13
  <2> QED
    BY ONLY <2>1, <1>4, <1>8, <1>12, <1>14, l = Len(h), l \in Nat, z \in Nat, gl \in Nat, c1 \in Nat, c2 \in Nat,
            a1 \in Nat, a2 \in Nat, a3 \in Nat, LiesBefore, Zenon
<1>16. m[l + 1] = n192
  BY ONLY <1>2, <1>15, l \in Nat, PairAt
<1>17. U16(m, c1 + 1) = ta
  BY ONLY c1 \in Nat, ta \in Nat, <1>2, <1>15, WordAt
<1>18. U16(m, c2 + 1) = in
  BY ONLY c2 \in Nat, in \in Nat, <1>2, <1>15, WordAt
<1>19. U16(m, d5 + 1) = n4
  BY ONLY d5 \in Nat, n4 \in Nat, <1>2, <1>12, WordAt
<1>20. c1 + 1 = l + 3 /\ c2 + 1 = l + 5 /\ d5 + 1 = l + 11 /\ d6 = l + 12 /\ gl + a5 + a6 + aa + a7 = l + 16
  BY ONLY l \in Nat, <1>3, <1>6, <1>11
<1> QED
  BY ONLY <1>1, <1>12, <1>13, <1>15, <1>16, <1>17, <1>18, <1>19, <1>20 DEF ReplyLies

(* A client reads its identifier, its question and the address out of the  *)
(* reply to a query that ends with its question.                           *)
THEOREM ReplyReads ==
  ASSUME NEW q, Proper(q), ~q.edns, NEW addr \in Seq(Octet), Len(addr) = 4, NEW m, m = Reply(WireQuery(q), addr)
  PROVE  /\ ReadReply(m) = [iden |-> q.iden, response |-> TRUE, counts |-> <<1, 1>>,
                            type |-> TypeA, class |-> ClassIN, data |-> addr, left |-> 0]
         /\ Question(m).host = Dotted(q.name)
<1>1. PICK w : w = WireQuery(q)
  OBVIOUS
<1>2. /\ NumbersOf(w, q.iden, 1, 0, 1, 0, 0, Len(Extras(q)))
      /\ QuestionAndRest(w, q.name, q.type, WireRecords(Extras(q)))
  BY <1>1, QueryRead
<1>3. PICK k \in Nat, r \in Nat, e \in Nat :
        /\ k = Len(WireName(q.name)) /\ r = Len(WireRecords(Extras(q))) /\ e = HeaderLen + k
        /\ w \in Seq(Nat) /\ Len(w) = e + 4 + r
        /\ LiesAt(w, HeaderLen, WireName(q.name))
  BY ONLY <1>2, Zenon DEF QuestionAndRest
<1>d. PICK d \in Nat : d = HeaderLen /\ d = 12
  BY DEF HeaderLen
<1>4. PICK l \in Nat : l = e + 4 /\ l = d + k + 4 /\ l = Len(w) /\ d = 12
  <2>1. r = 0
    BY <1>3, ExtrasCount, EmptySeq
  <2>2. e = d + k
    BY ONLY <1>3, <1>d
  <2>3. e + 4 + r = e + 4 /\ e + 4 = d + k + 4 /\ e + 4 \in Nat
    BY ONLY e \in Nat, k \in Nat, d \in Nat, <2>1, <2>2
  <2>4. Len(w) = e + 4
    BY ONLY <1>3, <2>3
  <2> QED
    BY ONLY <1>d, <2>3, <2>4, Zenon
<1>5. PICK h : h = Marked(w)
  OBVIOUS
<1>6. /\ h \in Seq(Nat) /\ Len(h) = l /\ h[3] = 129 /\ h[7] = 0 /\ h[8] = 1
      /\ \A i \in 1 .. l : i \notin {3, 4, 7, 8} => h[i] = w[i]
  <2>1. w[3] = 1 /\ w[4] = 0
    BY ONLY <1>2 DEF NumbersOf
  <2>2. l >= 8
    BY ONLY k \in Nat, <1>4
  <2> QED
    <3>1. w \in Seq(Nat) /\ l = Len(w)
      BY ONLY <1>3, <1>4
    <3>2. IsMarked(h, w, l)
      BY ONLY l \in Nat, <1>5, <2>1, <2>2, <3>1, MarkedIs
    <3> QED
      BY ONLY <3>2, Zenon DEF IsMarked
<1>7. addr \in Seq(Nat)
  BY OctetSequences
<1>8. ReplyLies(m, h, l, addr)
  <2>1. m = h \o <<192, HeaderLen>> \o Octets16(TypeA) \o Octets16(ClassIN)
            \o Octets16(128) \o <<0, 0>> \o Octets16(4) \o addr
    BY ONLY m = Reply(WireQuery(q), addr), <1>1, <1>5 DEF Reply, Marked
  <2> QED
    <3>1. ReplyFrom(m, h, l, addr)
      BY ONLY l \in Nat, <1>6, <1>7, Len(addr) = 4, <2>1 DEF ReplyFrom
    <3> QED
      BY ONLY <3>1, ReplyLayout, Zenon
<1>9. /\ m \in Seq(Nat) /\ Len(m) = l + 16 /\ LiesAt(m, 0, h)
      /\ m[l + 1] = 192 /\ U16(m, l + 3) = TypeA /\ U16(m, l + 5) = ClassIN
      /\ U16(m, l + 11) = 4 /\ LiesAt(m, l + 12, addr)
  BY ONLY <1>8, Zenon DEF ReplyLies
<1>10. \A i \in 1 .. l : m[i] = h[i]
  BY ONLY l \in Nat, <1>6, <1>9 DEF LiesAt
<1>11. LiesAt(m, HeaderLen, WireName(q.name))
  <2>0. k = Len(WireName(q.name)) /\ LiesAt(w, d, WireName(q.name))
    BY ONLY <1>3, <1>d
  <2> SUFFICES ASSUME NEW i \in 1 .. k PROVE m[d + i] = WireName(q.name)[i]
    <3>1. LiesAt(m, d, WireName(q.name))
      BY ONLY <2>0, \A i \in 1 .. k : m[d + i] = WireName(q.name)[i] DEF LiesAt
    <3> QED
      BY ONLY <1>d, <3>1
  <2>1. d + i \in 1 .. l /\ d + i \notin {3, 4, 7, 8}
    BY ONLY d \in Nat, l \in Nat, k \in Nat, i \in 1 .. k, <1>4
  <2>2. w[d + i] = WireName(q.name)[i]
    BY ONLY i \in 1 .. k, <2>0 DEF LiesAt
  <2> QED
    BY ONLY <1>6, <1>10, <2>1, <2>2
<1>12. /\ Question(m) = [host |-> Dotted(q.name), end |-> HeaderLen + k + 1]
  <2>1. q.name \in Seq(Labels(Nat))
    BY OctetSequences DEF Proper
  <2>2. HeaderLen + k <= Len(m)
    <3>1. d + k <= l + 16
      BY ONLY l \in Nat, d \in Nat, k \in Nat, <1>4
    <3> QED
      BY ONLY <1>d, <1>9, <3>1
  <2>3. m \in Seq(Nat) /\ k = Len(WireName(q.name))
    BY ONLY <1>3, <1>9
  <2> QED
    BY ONLY k \in Nat, <1>11, <2>1, <2>2, <2>3, MessageQuestion
<1>13. Question(m).host = Dotted(q.name) /\ Question(m).end + 4 = l + 1
  <2>1. PICK u, v : u = Dotted(q.name) /\ v = HeaderLen + k + 1
    OBVIOUS
  <2>2. Question(m) = [host |-> u, end |-> v]
    BY ONLY <1>12, <2>1
  <2>3. v + 4 = l + 1
    <3>1. v = d + k + 1
      BY ONLY <1>d, <2>1
    <3> QED
      BY ONLY d \in Nat, k \in Nat, l \in Nat, <1>4, <3>1
  <2> QED
    BY ONLY <2>1, <2>2, <2>3
<1>14. Iden(m) = q.iden /\ m[3] >= 128 /\ QdCount(m) = 1 /\ AnCount(m) = 1
  <2>1. Iden(w) = q.iden /\ QdCount(w) = 1
    BY ONLY <1>2, Zenon DEF NumbersOf
  <2>2. /\ 1 \in 1 .. l /\ 2 \in 1 .. l /\ 3 \in 1 .. l /\ 5 \in 1 .. l
        /\ 6 \in 1 .. l /\ 7 \in 1 .. l /\ 8 \in 1 .. l
    BY ONLY l \in Nat, k \in Nat, d \in Nat, <1>4
  <2>3. m[1] = w[1] /\ m[2] = w[2] /\ m[5] = w[5] /\ m[6] = w[6] /\ m[3] = 129 /\ m[7] = 0 /\ m[8] = 1
    BY ONLY SMTT(30), <1>6, <1>10, <2>2
  <2> QED
    BY ONLY <2>1, <2>3 DEF Iden, QdCount, AnCount, U16
<1>15. SubSeq(m, l + 13, l + 16) = addr
  <2>1. PICK s : s = SubSeq(m, l + 13, l + 16)
    OBVIOUS
  <2>2. s = [i \in 1 .. 4 |-> m[l + 12 + i]]
    <3>1. PICK b \in Nat : b = l + 13
      OBVIOUS
    <3>2. l + 16 = b + 3
      BY <3>1
    <3>3. SubSeq(m, b, b + 3) = [i \in 1 .. 4 |-> m[b + i - 1]]
      BY DEF SubSeq
    <3>4. \A i \in 1 .. 4 : b + i - 1 = l + 12 + i
      BY <3>1
    <3> QED
      BY <2>1, <3>1, <3>2, <3>3, <3>4
  <2>3. DOMAIN addr = 1 .. 4
    BY <1>7, LenProperties
  <2>4. \A i \in 1 .. 4 : m[l + 12 + i] = addr[i]
    BY <1>9 DEF LiesAt
  <2>5. addr = [i \in 1 .. 4 |-> addr[i]]
    BY <1>7, <2>3, SeqDef
  <2> QED
    BY ONLY <2>1, <2>2, <2>4, <2>5
<1>16. ReadReply(m) = [iden |-> q.iden, response |-> TRUE, counts |-> <<1, 1>>,
                       type |-> TypeA, class |-> ClassIN, data |-> addr, left |-> 0]
  <2>1. PICK o \in Nat, f \in Nat : o = l + 1 /\ f = l + 3 /\ f = o + 2 /\ m[o] # 0
    <3>1. m[l + 1] # 0
      BY ONLY <1>9
    <3> QED
      BY <3>1
  <2>2. f + 2 = l + 5 /\ f + 8 = l + 11 /\ f + 10 = l + 13 /\ f + 9 + 4 = l + 16 /\ (l + 16) - (f + 9 + 4) = 0
    BY ONLY l \in Nat, <2>1
  <2>3. U16(m, f) = TypeA /\ U16(m, f + 2) = ClassIN /\ U16(m, f + 8) = 4
    BY ONLY <1>9, <2>1, <2>2
  <2>4. SubSeq(m, f + 10, f + 9 + 4) = addr
    BY ONLY <1>15, <2>2
  <2>5. Len(m) - (f + 9 + 4) = 0
    BY ONLY <1>9, <2>2
  <2>6. ReadReply(m) =
          [iden |-> Iden(m), response |-> m[3] >= 128, counts |-> <<QdCount(m), AnCount(m)>>,
           type |-> U16(m, f), class |-> U16(m, f + 2),
           data |-> SubSeq(m, f + 10, f + 9 + U16(m, f + 8)), left |-> Len(m) - (f + 9 + U16(m, f + 8))]
    <3>1. Question(m).end + 4 = o
      BY ONLY <1>13, <2>1
    <3>2. (IF m[o] = 0 THEN o + 1 ELSE o + 2) = f
      BY ONLY <2>1
    <3> QED
      BY ONLY <3>1, <3>2 DEF ReadReply
  <2>7. (m[3] >= 128) = TRUE
    BY ONLY <1>14
  <2> QED
    BY ONLY <1>14, <2>3, <2>4, <2>5, <2>6, <2>7
<1> QED
  BY ONLY <1>13, <1>16
-----------------------------------------------------------------------------
(* The walk over the records of an answer.                                 *)

(* Along links that lead forward, up to the last place L.                  *)
Walked(L, S, N, V, e, f) ==
  f = [p \in 1 .. L |-> IF p \in S THEN V[p] ELSE IF N[p] \in p + 1 .. L THEN f[N[p]] ELSE e]

LEMMA WalkedExists == \A L \in Nat : \A S, N, V, e : \E f : Walked(L, S, N, V, e, f)
<1> SUFFICES ASSUME NEW L \in Nat, NEW S, NEW N, NEW V, NEW e PROVE \E f : Walked(L, S, N, V, e, f)
  BY Zenon
<1> DEFINE Body(p, f) == IF p \in S THEN V[p] ELSE IF N[p] \in p + 1 .. L THEN f[N[p]] ELSE e
           Upper(k, f) == \A p \in 1 .. L : p + k > L => f[p] = Body(p, f)
           P(k) == \E f : f = [p \in 1 .. L |-> f[p]] /\ Upper(k, f)
<1>1. P(0)
  <2> DEFINE f == [p \in 1 .. L |-> e]
  <2>1. Upper(0, f)
    <3> SUFFICES ASSUME NEW p \in 1 .. L, p + 0 > L PROVE FALSE
      OBVIOUS
    <3> QED
      OBVIOUS
  <2>2. f = [p \in 1 .. L |-> f[p]]
    OBVIOUS
  <2> HIDE DEF f, Upper
  <2> QED
    BY <2>1, <2>2
<1>2. ASSUME NEW k \in Nat, P(k) PROVE P(k + 1)
  <2>1. PICK f : f = [p \in 1 .. L |-> f[p]] /\ Upper(k, f)
    BY <1>2
  <2> DEFINE g == [p \in 1 .. L |-> IF p + k = L THEN Body(p, f) ELSE f[p]]
  <2>2. ASSUME NEW p \in 1 .. L, p + (k + 1) > L PROVE g[p] = Body(p, g)
    <3>1. p + k = L \/ p + k > L
      BY <2>2
    <3>2. g[p] = Body(p, f)
      <4> HIDE DEF Body
      <4> QED
        BY <2>1, <3>1
    <3>3. CASE p \in S
      BY ONLY <3>2, <3>3
    <3>4. CASE p \notin S /\ N[p] \notin p + 1 .. L
      BY ONLY <3>2, <3>4
    <3>5. CASE p \notin S /\ N[p] \in p + 1 .. L
      <4>1. PICK m \in 1 .. L : m = N[p] /\ m > p
        BY <3>5
      <4>2. m + k # L
        BY <3>1, <4>1
      <4>3. g[m] = f[m]
        BY <4>1, <4>2
      <4> HIDE DEF g
      <4> QED
        BY ONLY <3>2, <3>5, <4>1, <4>3
    <3> QED
      BY ONLY <3>3, <3>4, <3>5
  <2>3. g = [p \in 1 .. L |-> g[p]]
    OBVIOUS
  <2> HIDE DEF g, Body
  <2>4. Upper(k + 1, g)
    BY <2>2
  <2> HIDE DEF Upper
  <2> QED
    BY <2>3, <2>4
<1>3. \A k \in Nat : P(k)
  <2> HIDE DEF P
  <2> DEFINE Good == {k \in Nat : P(k)}
  <2>1. 0 \in Good
    BY <1>1
  <2>2. ASSUME NEW k \in Nat, k \in Good PROVE k + 1 \in Good
    BY <1>2, <2>2
  <2>3. Nat \subseteq Good
    <3> HIDE DEF Good
    <3> QED
      BY <2>1, <2>2, Inductive
  <2> QED
    BY <2>3
<1>4. PICK f : f = [p \in 1 .. L |-> f[p]] /\ Upper(L, f)
  <2>1. P(L)
    <3> HIDE DEF P
    <3> QED
      BY <1>3
  <2> HIDE DEF Upper
  <2> QED
    BY <2>1
<1>5. f = [p \in 1 .. L |-> Body(p, f)]
  <2>1. ASSUME NEW p \in 1 .. L PROVE f[p] = Body(p, f)
    <3>1. p + L > L
      OBVIOUS
    <3> HIDE DEF Body
    <3> QED
      BY <1>4, <3>1
  <2> HIDE DEF Body
  <2> QED
    BY <1>4, <2>1
<1> QED
  BY <1>5 DEF Walked

DataOf(msg, p) == (IF msg[p] >= 192 THEN p + 2 ELSE AfterZero(msg, p)) + 10
LengthOf(msg, p) == U16(msg, DataOf(msg, p) - 2)
Walk(msg, L, f) ==
  \A p \in 1 .. L :
    f[p] = IF LengthOf(msg, p) = 4 THEN SubSeq(msg, DataOf(msg, p), DataOf(msg, p) + 3)
           ELSE IF DataOf(msg, p) + LengthOf(msg, p) \in p + 1 .. L THEN f[DataOf(msg, p) + LengthOf(msg, p)]
           ELSE Unresolved

WalkStarts(msg, L, hostLen, start) == L = Len(msg) /\ L \in Nat /\ start = HeaderLen + hostLen + 6 + 1
AddressWalk(msg, L, hostLen, start) ==
  \E f : Walk(msg, L, f) /\ AddressIn(msg, hostLen) = IF start > L THEN Unresolved ELSE f[start]

LEMMA WalkIs ==
  \A msg, L, hostLen, start : WalkStarts(msg, L, hostLen, start) => AddressWalk(msg, L, hostLen, start)
<1> SUFFICES ASSUME NEW msg, NEW L, NEW hostLen, NEW start, WalkStarts(msg, L, hostLen, start)
             PROVE  AddressWalk(msg, L, hostLen, start)
  BY Zenon
<1> L = Len(msg) /\ L \in Nat /\ start = HeaderLen + hostLen + 6 + 1
  BY Zenon DEF WalkStarts
<1> DEFINE From(p, f) ==
             LET fixed == IF msg[p] >= 192 THEN p + 2 ELSE AfterZero(msg, p)
                 data  == fixed + 10
                 len   == U16(msg, data - 2)
             IN  IF len = 4 THEN SubSeq(msg, data, data + 3)
                 ELSE IF data + len \in p + 1 .. Len(msg) THEN f[data + len] ELSE Unresolved
<1>1. \E f : f = [p \in 1 .. Len(msg) |-> From(p, f)]
  <2> DEFINE S == {p \in 1 .. L : LengthOf(msg, p) = 4}
             N == [p \in 1 .. L |-> DataOf(msg, p) + LengthOf(msg, p)]
             V == [p \in 1 .. L |-> SubSeq(msg, DataOf(msg, p), DataOf(msg, p) + 3)]
  <2>1. PICK f : Walked(L, S, N, V, Unresolved, f)
    <3> HIDE DEF S, N, V
    <3> QED
      BY L \in Nat, WalkedExists, Zenon
  <2>2. ASSUME NEW p \in 1 .. L
        PROVE  From(p, f) = IF p \in S THEN V[p] ELSE IF N[p] \in p + 1 .. L THEN f[N[p]] ELSE Unresolved
    BY DEF DataOf, LengthOf
  <2> HIDE DEF S, N, V, From
  <2>3. f = [p \in 1 .. L |-> From(p, f)]
    BY ONLY <2>1, <2>2 DEF Walked
  <2> QED
    BY <2>3
<1>2. PICK f : /\ AddressIn(msg, hostLen) = IF start > Len(msg) THEN Unresolved ELSE f[start]
               /\ f = [p \in 1 .. Len(msg) |-> From(p, f)]
  <2> DEFINE f == CHOOSE g : g = [p \in 1 .. Len(msg) |-> From(p, g)]
  <2>1. f = [p \in 1 .. Len(msg) |-> From(p, f)]
    <3> HIDE DEF From
    <3> QED
      BY <1>1
  <2>2. AddressIn(msg, hostLen) = IF start > Len(msg) THEN Unresolved ELSE f[start]
    BY DEF AddressIn
  <2> HIDE DEF f, From
  <2> QED
    BY <2>1, <2>2
<1>3. \A p \in 1 .. L : f[p] = From(p, f)
  <2> HIDE DEF From
  <2> QED
    BY <1>2
<1>4. Walk(msg, L, f)
  BY <1>3 DEF Walk, DataOf, LengthOf
<1> QED
  BY <1>2, <1>4 DEF AddressWalk

LEMMA AfterZeroIs ==
  ASSUME NEW msg, NEW L \in Nat, L = Len(msg), NEW p \in 1 .. L
  PROVE  /\ AfterZero(msg, p) \in Nat
         /\ \A z \in p .. L : msg[z] = 0 /\ (\A y \in p .. z - 1 : msg[y] # 0) => AfterZero(msg, p) = z + 1
<1> DEFINE IsFirst(z) == z \in p .. L + 1 /\ Zero(msg, z) /\ \A y \in p .. z - 1 : ~Zero(msg, y)
<1>1. \E z : IsFirst(z)
  <2> DEFINE S == {z \in Nat : p <= z /\ Zero(msg, z)}
  <2>1. L + 1 \in S
    BY DEF Zero
  <2>2. PICK z \in S : \A y \in S : z <= y
    <3> S \in SUBSET Nat /\ S # {}
      BY <2>1
    <3> HIDE DEF S
    <3> QED
      BY LeastNat
  <2>3. z \in p .. L + 1 /\ Zero(msg, z)
    BY <2>1, <2>2
  <2>4. ASSUME NEW y \in p .. z - 1 PROVE ~Zero(msg, y)
    <3>1. y \in Nat /\ p <= y /\ ~ (z <= y)
      BY <2>3
    <3> QED
      BY <2>2, <3>1
  <2> QED
    BY <2>3, <2>4
<1>2. \A z, y : IsFirst(z) /\ IsFirst(y) => z = y
  <2> SUFFICES ASSUME NEW z, NEW y, IsFirst(z), IsFirst(y) PROVE z = y
    OBVIOUS
  <2>1. z \in Int /\ y \in Int /\ p <= z /\ p <= y
    OBVIOUS
  <2>2. ~ (z < y)
    <3> SUFFICES ASSUME z < y PROVE FALSE
      OBVIOUS
    <3>1. z \in p .. y - 1
      BY ONLY <2>1, z < y, p \in 1 .. L
    <3> QED
      BY <3>1
  <2>3. ~ (y < z)
    <3> SUFFICES ASSUME y < z PROVE FALSE
      OBVIOUS
    <3>1. y \in p .. z - 1
      BY ONLY <2>1, y < z, p \in 1 .. L
    <3> QED
      BY <3>1
  <2> QED
    BY ONLY <2>1, <2>2, <2>3
<1>3. PICK c : IsFirst(c) /\ AfterZero(msg, p) = 1 + c
  <2> DEFINE c == CHOOSE z \in p .. Len(msg) + 1 : Zero(msg, z) /\ \A y \in p .. z - 1 : ~Zero(msg, y)
  <2>1. \E z \in p .. Len(msg) + 1 : Zero(msg, z) /\ \A y \in p .. z - 1 : ~Zero(msg, y)
    BY <1>1
  <2>2. IsFirst(c)
    BY <2>1
  <2>3. AfterZero(msg, p) = 1 + c
    BY DEF AfterZero
  <2> HIDE DEF c
  <2> QED
    BY <2>2, <2>3
<1>4. AfterZero(msg, p) \in Nat
  <2>1. c \in Nat
    BY <1>3
  <2> QED
    BY <1>3, <2>1
<1>5. ASSUME NEW z \in p .. L, msg[z] = 0, \A y \in p .. z - 1 : msg[y] # 0 PROVE AfterZero(msg, p) = z + 1
  <2>1. IsFirst(z)
    <3>1. z \in p .. L + 1 /\ Zero(msg, z)
      BY <1>5 DEF Zero
    <3>2. ASSUME NEW y \in p .. z - 1 PROVE ~Zero(msg, y)
      <4>1. ~ (y > Len(msg))
        OBVIOUS
      <4> QED
        BY <1>5, <4>1 DEF Zero
    <3> QED
      BY <3>1, <3>2
  <2>2. c = z
    <3> HIDE DEF IsFirst
    <3> QED
      BY <1>2, <1>3, <2>1
  <2> QED
    BY <1>3, <2>2
<1> QED
  BY <1>4, <1>5

(* Whatever the answer, an address is four octets.                         *)
LEMMA FourLong ==
  ASSUME NEW s, NEW d \in Nat
  PROVE  Len(SubSeq(s, d, d + 3)) = 4
OBVIOUS

LEMMA WalkFour ==
  ASSUME NEW msg, NEW L \in Nat, L = Len(msg), NEW f, Walk(msg, L, f), NEW p \in 1 .. L
  PROVE  Len(f[p]) = 4
<1>0. Len(Unresolved) = 4
  BY DEF Unresolved
<1>1. \A i \in 1 .. L : DataOf(msg, i) \in Nat
  <2> SUFFICES ASSUME NEW i \in 1 .. L PROVE DataOf(msg, i) \in Nat
    OBVIOUS
  <2>1. PICK c \in Nat : c = IF msg[i] >= 192 THEN i + 2 ELSE AfterZero(msg, i)
    BY AfterZeroIs
  <2>2. DataOf(msg, i) = c + 10
    BY <2>1 DEF DataOf
  <2> QED
    BY <2>2
<1>2. \A i \in 1 .. L :
        \/ \E d \in Nat : f[i] = SubSeq(msg, d, d + 3)
        \/ \E j \in i + 1 .. L : f[i] = f[j]
        \/ f[i] = Unresolved
  BY <1>1 DEF Walk
<1> DEFINE R(k) == \A i \in 1 .. L : i + k > L => Len(f[i]) = 4
<1>3. R(0)
  OBVIOUS
<1>4. ASSUME NEW k \in Nat, R(k) PROVE R(k + 1)
  <2> SUFFICES ASSUME NEW i \in 1 .. L, i + (k + 1) > L PROVE Len(f[i]) = 4
    OBVIOUS
  <2>1. CASE \E d \in Nat : f[i] = SubSeq(msg, d, d + 3)
    BY <2>1, FourLong
  <2>2. CASE \E j \in i + 1 .. L : f[i] = f[j]
    <3>1. PICK j \in i + 1 .. L : f[i] = f[j]
      BY <2>2
    <3>2. j \in 1 .. L /\ j + k > L
      OBVIOUS
    <3>3. Len(f[j]) = 4
      BY <1>4, <3>2
    <3> QED
      BY ONLY <3>1, <3>3
  <2>3. CASE f[i] = Unresolved
    BY ONLY <1>0, <2>3
  <2> QED
    BY <1>2, <2>1, <2>2, <2>3
<1>5. \A k \in Nat : R(k)
  <2> HIDE DEF R
  <2> DEFINE Good == {k \in Nat : R(k)}
  <2>1. 0 \in Good
    BY <1>3
  <2>2. ASSUME NEW k \in Nat, k \in Good PROVE k + 1 \in Good
    BY <1>4, <2>2
  <2>3. Nat \subseteq Good
    <3> HIDE DEF Good
    <3> QED
      BY <2>1, <2>2, Inductive
  <2> QED
    BY <2>3
<1>6. R(L)
  <2> HIDE DEF R
  <2> QED
    BY <1>5
<1> QED
  BY <1>6

LEMMA AddressFour ==
  ASSUME NEW msg, Len(msg) \in Nat, NEW hostLen \in Nat
  PROVE  Len(AddressIn(msg, hostLen)) = 4
<1>1. PICK L \in Nat, start \in Nat : L = Len(msg) /\ start = HeaderLen + hostLen + 6 + 1
  BY DEF HeaderLen
<1>2. PICK f : Walk(msg, L, f) /\ AddressIn(msg, hostLen) = IF start > L THEN Unresolved ELSE f[start]
  <2>1. WalkStarts(msg, L, hostLen, start)
    BY <1>1 DEF WalkStarts
  <2>2. AddressWalk(msg, L, hostLen, start)
    BY ONLY <2>1, WalkIs, Zenon
  <2> QED
    BY ONLY <2>2 DEF AddressWalk
<1>3. CASE start > L
  BY <1>2, <1>3 DEF Unresolved
<1>4. CASE ~ (start > L)
  <2>1. start \in 1 .. L
    BY <1>1, <1>4 DEF HeaderLen
  <2>2. Len(f[start]) = 4
    BY ONLY L \in Nat, <1>1, <1>2, <2>1, WalkFour
  <2> QED
    BY <1>2, <1>4, <2>2
<1> QED
  BY <1>3, <1>4
(* Where the pieces of a record lie: n octets of owner, l of data.         *)
RecordLies(m, a, r, n, l) ==
  /\ n \in Nat /\ l \in Nat /\ n = Len(r.owner) /\ l = Len(r.data) /\ Len(WireRecord(r)) = n + 10 + l
  /\ LiesAt(m, a, r.owner) /\ U16(m, a + n + 9) = l /\ LiesAt(m, a + n + 10, r.data)

LEMMA RecordLayout ==
  \A m, r : \A a \in Nat : r \in Records /\ LiesAt(m, a, WireRecord(r)) => \E n, l : RecordLies(m, a, r, n, l)
<1> SUFFICES ASSUME NEW m, NEW r, NEW a \in Nat, r \in Records, LiesAt(m, a, WireRecord(r))
             PROVE  \E n, l : RecordLies(m, a, r, n, l)
  BY Zenon
<1>1. r.owner \in Seq(Nat) /\ r.type \in Nat /\ r.data \in Seq(Nat) /\ Len(r.data) \in Nat
  BY OctetSequences, OctetNumbers, LenProperties DEF Records
<1>2. PICK ty \in Nat, in \in Nat, l \in Nat, n \in Nat, w \in Nat, w4 \in Nat :
        ty = r.type /\ in = ClassIN /\ l = Len(r.data) /\ n = Len(r.owner) /\ w = 2 /\ w4 = 4
  BY <1>1, LenProperties DEF ClassIN
<1>3. PICK o \in Seq(Nat), t \in Seq(Nat), c \in Seq(Nat), ttl \in Seq(Nat), g \in Seq(Nat), d \in Seq(Nat) :
        /\ o = r.owner /\ t = Octets16(ty) /\ c = Octets16(in) /\ ttl = <<0, 0, 0, 60>>
        /\ g = Octets16(l) /\ d = r.data
        /\ n = Len(o) /\ w = Len(t) /\ w = Len(c) /\ w4 = Len(ttl) /\ w = Len(g) /\ l = Len(d)
  <2>1. <<0, 0, 0, 60>> \in Seq(Nat) /\ Len(<<0, 0, 0, 60>>) = 4
    OBVIOUS
  <2>2. /\ Octets16(ty) \in Seq(Nat) /\ Octets16(in) \in Seq(Nat) /\ Octets16(l) \in Seq(Nat)
        /\ Len(Octets16(ty)) = 2 /\ Len(Octets16(in)) = 2 /\ Len(Octets16(l)) = 2
    BY WordIs
  <2> QED
    BY <1>1, <1>2, <2>1, <2>2
<1>4. PICK h : h = o \o t \o c \o ttl \o g
  OBVIOUS
<1>5. PICK rec : rec = WireRecord(r) /\ rec = h \o d
  BY <1>2, <1>3, <1>4 DEF WireRecord
<1>6. Laid(Nat, o, t, c, ttl, g, n, w, w, w4, w, h)
  <2>1. Five(Nat, o, t, c, ttl, g, n, w, w, w4, w, h)
    BY <1>3, <1>4, Zenon DEF Five
  <2> QED
    BY ONLY <2>1, FiveLaid, Zenon
<1>7. PICK hl \in Nat, gl \in Nat : hl = n + w + w + w4 + w /\ gl = n + w + w + w4 /\ gl = n + 8 /\ hl = n + 10
  <2>1. n + w + w + w4 + w \in Nat /\ n + w + w + w4 \in Nat
    BY ONLY n \in Nat, w \in Nat, w4 \in Nat
  <2>2. n + w + w + w4 + w = n + 10 /\ n + w + w + w4 = n + 8
    BY ONLY n \in Nat, w \in Nat, w4 \in Nat, <1>2
  <2> QED
    BY ONLY <2>1, <2>2, Zenon
<1>8. h \in Seq(Nat) /\ hl = Len(h) /\ LiesAt(h, 0, o) /\ LiesAt(h, gl, g)
  BY ONLY <1>6, <1>7, Zenon DEF Laid
<1>9. Sequence(Nat, rec, hl + l) /\ LiesAt(rec, 0, h) /\ LiesAt(rec, hl, d)
  <2>1. Sequence(Nat, h, hl) /\ Sequence(Nat, d, l) /\ Joins(h, d, rec)
    BY <1>3, <1>5, <1>8 DEF Sequence, Joins
  <2> QED
    BY ONLY <2>1, JoinedPieces, Zenon
<1>10. PICK z \in Nat, rl \in Nat : z = 0 /\ rl = hl + l /\ rl = Len(rec)
  BY ONLY hl \in Nat, l \in Nat, <1>9 DEF Sequence
<1>11. LiesAt(rec, z, o) /\ LiesAt(rec, gl, g) /\ LiesAt(rec, hl, d)
  <2>1. z + n <= hl /\ gl + w <= hl
    BY ONLY n \in Nat, z \in Nat, w \in Nat, <1>2, <1>7, <1>10
  <2>2. LiesAt(h, z, o)
    BY ONLY <1>8, <1>10
  <2> QED
    BY ONLY z \in Nat, n \in Nat, gl \in Nat, hl \in Nat, w \in Nat, <1>3, <1>8, <1>9, <2>1, <2>2, LiesBefore, Zenon
<1>12. LiesAt(m, a + z, o) /\ LiesAt(m, a + gl, g) /\ LiesAt(m, a + hl, d)
  <2>1. z + n <= rl /\ gl + w <= rl /\ hl + l <= rl
    <3>1. hl \in Nat /\ gl \in Nat /\ gl = n + 8 /\ hl = n + 10 /\ w = 2 /\ z = 0 /\ rl = hl + l
      BY ONLY <1>2, <1>7, <1>10
    <3> QED
      BY ONLY n \in Nat, l \in Nat, <3>1
  <2>2. LiesAt(m, a, rec)
    BY <1>5
  <2>3. LiesAt(m, a + z, o)
    BY ONLY a \in Nat, z \in Nat, rl \in Nat, n \in Nat, <1>3, <1>10, <1>11, <2>1, <2>2, LiesWithin
  <2>4. LiesAt(m, a + gl, g)
    BY ONLY a \in Nat, gl \in Nat, rl \in Nat, w \in Nat, <1>3, <1>10, <1>11, <2>1, <2>2, LiesWithin
  <2>5. LiesAt(m, a + hl, d)
    BY ONLY a \in Nat, hl \in Nat, rl \in Nat, l \in Nat, <1>3, <1>10, <1>11, <2>1, <2>2, LiesWithin
  <2> QED
    BY ONLY <2>3, <2>4, <2>5
<1>13. PICK b \in Nat : b = a + gl
  OBVIOUS
<1>14. U16(m, b + 1) = l
  <2>1. LiesAt(m, b, Octets16(l))
    BY ONLY <1>3, <1>12, <1>13
  <2> QED
    BY ONLY b \in Nat, l \in Nat, <2>1, WordAt
<1>15. b + 1 = a + n + 9 /\ a + hl = a + n + 10 /\ a + z = a /\ rl = n + 10 + l
  BY <1>7, <1>10, <1>13
<1>16. RecordLies(m, a, r, n, l)
  BY ONLY n \in Nat, l \in Nat, <1>2, <1>3, <1>5, <1>10, <1>12, <1>14, <1>15 DEF RecordLies
<1> QED
  BY <1>16

(* The walk reads over an owner name to the data and what is behind it.    *)
RecordRead(m, p, r, l) ==
  /\ l = Len(r.data) /\ LengthOf(m, p) = l /\ DataOf(m, p) \in Nat
  /\ DataOf(m, p) + l = p + Len(WireRecord(r)) /\ l + 11 <= Len(WireRecord(r))
  /\ \A k \in 1 .. l : m[DataOf(m, p) + k - 1] = r.data[k]

LEMMA RecordIsRead ==
  ASSUME NEW m, NEW L \in Nat, L = Len(m), NEW r \in Records, ReadableOwner(r.owner), NEW p \in 1 .. L,
         LiesAt(m, p - 1, WireRecord(r)), p - 1 + Len(WireRecord(r)) <= L
  PROVE  RecordRead(m, p, r, Len(r.data))
<1>1. PICK a \in Nat : a = p - 1 /\ p = a + 1
  OBVIOUS
<1>2. PICK n, l : RecordLies(m, a, r, n, l)
  BY <1>1, RecordLayout, Zenon
<1>3. /\ n \in Nat /\ l \in Nat /\ n = Len(r.owner) /\ l = Len(r.data) /\ Len(WireRecord(r)) = n + 10 + l
      /\ LiesAt(m, a, r.owner) /\ U16(m, a + n + 9) = l /\ LiesAt(m, a + n + 10, r.data)
  BY ONLY <1>2, Zenon DEF RecordLies
<1>4. \A i \in 1 .. n : m[a + i] = r.owner[i]
  BY ONLY <1>3 DEF LiesAt
<1>5. r.owner \in Seq(Nat)
  BY OctetSequences DEF Records
<1>6. n >= 1 /\ DataOf(m, p) = a + n + 11
  <2>1. CASE Len(r.owner) = 2 /\ r.owner[1] >= 192
    <3>1. n = 2 /\ m[p] >= 192
      BY <1>1, <1>3, <1>4, <2>1
    <3> QED
      BY <1>1, <3>1 DEF DataOf
  <2>2. CASE /\ r.owner # << >> /\ r.owner[1] < 192 /\ r.owner[Len(r.owner)] = 0
             /\ \A i \in 1 .. Len(r.owner) - 1 : r.owner[i] # 0
    <3>1. n >= 1
      BY <1>3, <1>5, <2>2, EmptySeq
    <3>2. m[p] < 192 /\ m[p] \in Nat
      <4>1. 1 \in 1 .. n
        BY <1>3, <3>1
      <4>2. r.owner[1] \in Nat
        BY <1>3, <1>5, <4>1, ElementOfSeq
      <4> QED
        BY <1>1, <1>4, <2>2, <4>1, <4>2
    <3>3. m[a + n] = 0 /\ a + n \in p .. L
      <4>1. a + n <= L
        <5>1. PICK wr : wr = Len(WireRecord(r))
          BY Zenon
        <5>2. n \in Nat /\ l \in Nat /\ wr = n + 10 + l /\ p - 1 + wr <= L
          BY ONLY <1>3, <5>1, p - 1 + Len(WireRecord(r)) <= L
        <5> QED
          BY ONLY a \in Nat, L \in Nat, <1>1, <5>2
      <4>2. a + n \in p .. L
        BY ONLY a \in Nat, L \in Nat, <1>1, <1>3, <3>1, <4>1
      <4>3. n \in 1 .. n
        BY ONLY <1>3, <3>1
      <4> QED
        BY ONLY <1>3, <1>4, <2>2, <4>2, <4>3
    <3>4. ASSUME NEW y \in p .. a + n - 1 PROVE m[y] # 0
      <4>1. PICK i \in 1 .. n - 1 : y = a + i
        <5>1. y - a \in 1 .. n - 1 /\ y = a + (y - a)
          BY <1>1, <1>3, <3>1
        <5> QED
          BY <5>1
      <4>2. r.owner[i] # 0 /\ m[a + i] = r.owner[i]
        <5>1. i \in 1 .. n
          BY <1>3
        <5> QED
          BY ONLY <1>3, <1>4, <2>2, <4>1, <5>1
      <4> QED
        BY ONLY <4>1, <4>2
    <3>5. PICK z \in p .. L : z = a + n
      BY <3>3
    <3>6. AfterZero(m, p) = z + 1
      <4>1. m[z] = 0 /\ \A y \in p .. z - 1 : m[y] # 0
        <5>1. z - 1 = a + n - 1
          BY ONLY a \in Nat, <1>3, <3>5
        <5> QED
          BY ONLY <3>3, <3>4, <3>5, <5>1, Zenon
      <4> QED
        BY ONLY SMTT(30), L \in Nat, L = Len(m), p \in 1 .. L, z \in p .. L, <4>1, AfterZeroIs
    <3>7. ~ (m[p] >= 192)
      BY ONLY <3>2
    <3> QED
      BY ONLY a \in Nat, <1>3, <3>1, <3>5, <3>6, <3>7 DEF DataOf
  <2> QED
    BY <2>1, <2>2 DEF ReadableOwner
<1>7. LengthOf(m, p) = l
  <2>1. a + n + 11 - 2 = a + n + 9
    BY ONLY a \in Nat, <1>3
  <2> QED
    BY ONLY <1>3, <1>6, <2>1 DEF LengthOf
<1>8. \A k \in 1 .. l : m[DataOf(m, p) + k - 1] = r.data[k]
  <2> SUFFICES ASSUME NEW k \in 1 .. l PROVE m[DataOf(m, p) + k - 1] = r.data[k]
    OBVIOUS
  <2>1. DataOf(m, p) + k - 1 = a + n + 10 + k
    BY ONLY a \in Nat, k \in 1 .. l, <1>3, <1>6
  <2> QED
    BY ONLY k \in 1 .. l, <1>3, <2>1 DEF LiesAt
<1>9. DataOf(m, p) \in Nat /\ DataOf(m, p) + l = p + Len(WireRecord(r)) /\ l + 11 <= Len(WireRecord(r))
  <2>1. PICK d, wr : d = DataOf(m, p) /\ wr = Len(WireRecord(r))
    BY Zenon
  <2>2. n \in Nat /\ l \in Nat /\ wr = n + 10 + l /\ n >= 1 /\ d = a + n + 11
    BY ONLY <1>3, <1>6, <2>1
  <2>3. d \in Nat /\ d + l = p + wr /\ l + 11 <= wr
    BY ONLY a \in Nat, <1>1, <2>2
  <2> QED
    BY ONLY <2>1, <2>3
<1> QED
  BY ONLY <1>3, <1>7, <1>8, <1>9 DEF RecordRead
(* What the walk makes of a record: its data if they are four octets, else *)
(* what it makes of the place behind it.                                   *)
Found(L, f, p) == IF p > L THEN Unresolved ELSE f[p]

LEMMA FourIs ==
  ASSUME NEW s \in Seq(Nat), Len(s) = 4, NEW m, NEW d \in Nat, \A k \in 1 .. 4 : m[d + k - 1] = s[k]
  PROVE  SubSeq(m, d, d + 3) = s
<1>1. s = [k \in 1 .. 4 |-> s[k]]
  BY SeqDef
<1>2. SubSeq(m, d, d + 3) = [k \in 1 .. 4 |-> m[d + k - 1]]
  OBVIOUS
<1> QED
  BY <1>1, <1>2

AtRecord(m, L, f, r, p, l, w) ==
  /\ L \in Nat /\ Walk(m, L, f) /\ r \in Records /\ p \in 1 .. L
  /\ RecordRead(m, p, r, l) /\ w \in Nat /\ w = Len(WireRecord(r))
StepsOver(L, f, r, p, l, w) == f[p] = IF l = 4 THEN r.data ELSE Found(L, f, p + w)

LEMMA WalkStep == \A m, L, f, r, p, l, w : AtRecord(m, L, f, r, p, l, w) => StepsOver(L, f, r, p, l, w)
<1> SUFFICES ASSUME NEW m, NEW L, NEW f, NEW r, NEW p, NEW l, NEW w, AtRecord(m, L, f, r, p, l, w)
             PROVE  f[p] = IF l = 4 THEN r.data ELSE Found(L, f, p + w)
  BY Zenon DEF StepsOver
<1> /\ L \in Nat /\ Walk(m, L, f) /\ r \in Records /\ p \in 1 .. L
    /\ RecordRead(m, p, r, l) /\ w \in Nat /\ w = Len(WireRecord(r))
  BY Zenon DEF AtRecord
<1>1. /\ l = Len(r.data) /\ LengthOf(m, p) = l /\ DataOf(m, p) \in Nat
      /\ DataOf(m, p) + l = p + w /\ l + 11 <= w
      /\ \A k \in 1 .. l : m[DataOf(m, p) + k - 1] = r.data[k]
  BY Zenon DEF RecordRead
<1>2. r.data \in Seq(Nat) /\ l \in Nat
  BY <1>1, OctetSequences, LenProperties DEF Records
<1>3. PICK d \in Nat : d = DataOf(m, p)
  BY <1>1
<1>4. f[p] = IF l = 4 THEN SubSeq(m, d, d + 3) ELSE IF d + l \in p + 1 .. L THEN f[d + l] ELSE Unresolved
  BY ONLY Walk(m, L, f), p \in 1 .. L, <1>1, <1>3, Zenon DEF Walk
<1>5. d + l = p + w /\ p + w > p /\ p + w \in Nat
  BY ONLY p \in 1 .. L, L \in Nat, w \in Nat, <1>1, <1>2, <1>3
<1>6. CASE l = 4
  <2>1. \A k \in 1 .. 4 : m[d + k - 1] = r.data[k]
    BY ONLY <1>1, <1>3, <1>6
  <2>2. SubSeq(m, d, d + 3) = r.data
    BY ONLY d \in Nat, <1>1, <1>2, <1>6, <2>1, FourIs
  <2> QED
    BY ONLY <1>4, <1>6, <2>2
<1>7. CASE l # 4 /\ p + w > L
  <2>1. ~ (d + l \in p + 1 .. L)
    BY ONLY L \in Nat, <1>5, <1>7
  <2> QED
    BY ONLY <1>4, <1>7, <2>1, Zenon DEF Found
<1>8. CASE l # 4 /\ ~ (p + w > L)
  <2>1. d + l \in p + 1 .. L
    BY ONLY L \in Nat, p \in 1 .. L, <1>5, <1>8
  <2> QED
    BY ONLY <1>4, <1>5, <1>8, <2>1, Zenon DEF Found
<1> QED
  BY <1>6, <1>7, <1>8

(* The first of n places that holds decides; without one, what is behind.  *)
LEMMA FirstDecides ==
  ASSUME NEW n \in Nat, NEW v, NEW G, \A i \in 1 .. n : i \notin G => v[i] = v[i + 1]
  PROVE  \E i \in 1 .. n + 1 : (i = n + 1 \/ i \in G) /\ v[1] = v[i] /\ \A j \in 1 .. i - 1 : j \notin G
<1> DEFINE S == {i \in Nat : 1 <= i /\ (i \in G \/ i = n + 1)}
<1>1. n + 1 \in S
  OBVIOUS
<1>2. PICK i \in S : \A j \in S : i <= j
  <2> S \in SUBSET Nat /\ S # {}
    BY <1>1
  <2> HIDE DEF S
  <2> QED
    BY LeastNat
<1>3. i \in 1 .. n + 1 /\ (i = n + 1 \/ i \in G)
  BY <1>1, <1>2
<1>4. ASSUME NEW j \in 1 .. i - 1 PROVE j \notin G
  <2>1. j \in Nat /\ 1 <= j /\ ~ (i <= j)
    BY <1>3
  <2> QED
    BY <1>2, <2>1
<1> DEFINE P(k) == k + 1 <= i => v[1] = v[k + 1]
<1>5. P(0)
  OBVIOUS
<1>6. ASSUME NEW k \in Nat, P(k) PROVE P(k + 1)
  <2> SUFFICES ASSUME (k + 1) + 1 <= i PROVE v[1] = v[(k + 1) + 1]
    OBVIOUS
  <2>1. k + 1 <= i /\ k + 1 \in 1 .. i - 1 /\ k + 1 \in 1 .. n
    BY <1>3
  <2>2. v[1] = v[k + 1]
    BY ONLY <1>6, <2>1
  <2> QED
    BY <1>4, <2>1, <2>2
<1>7. \A k \in Nat : P(k)
  <2> HIDE DEF P
  <2> DEFINE Good == {k \in Nat : P(k)}
  <2>1. 0 \in Good
    BY <1>5
  <2>2. ASSUME NEW k \in Nat, k \in Good PROVE k + 1 \in Good
    BY <1>6, <2>2
  <2>3. Nat \subseteq Good
    <3> HIDE DEF Good
    <3> QED
      BY <2>1, <2>2, Inductive
  <2> QED
    BY <2>3
<1>8. v[1] = v[i]
  <2>1. PICK k \in Nat : i = k + 1
    <3>1. i - 1 \in Nat /\ i = (i - 1) + 1
      BY <1>3
    <3> QED
      BY ONLY <3>1
  <2>2. P(k)
    <3> HIDE DEF P
    <3> QED
      BY <1>7
  <2> QED
    BY ONLY i \in Nat, <2>1, <2>2
<1> QED
  BY <1>3, <1>4, <1>8
(* The walk over records that stand at the end of a message.               *)
Chain(rs, n, v) ==
  /\ v[n + 1] = Unresolved
  /\ \A i \in 1 .. n : v[i] = IF Len(rs[i].data) = 4 THEN rs[i].data ELSE v[i + 1]

AtRecords(m, L, f, rs, n, b) ==
  /\ L \in Nat /\ L = Len(m) /\ Walk(m, L, f)
  /\ rs \in Seq(Records) /\ n \in Nat /\ n = Len(rs) /\ \A i \in 1 .. n : ReadableOwner(rs[i].owner)
  /\ b \in Nat /\ LiesAt(m, b, WireRecords(rs)) /\ b + Len(WireRecords(rs)) = L
Chained(L, f, rs, n, b) == \E v : v[1] = Found(L, f, b + 1) /\ Chain(rs, n, v)

LEMMA RecordsWalk == \A m, L, f, rs, n, b : AtRecords(m, L, f, rs, n, b) => Chained(L, f, rs, n, b)
<1> SUFFICES ASSUME NEW m, NEW L, NEW f, NEW rs, NEW n, NEW b, AtRecords(m, L, f, rs, n, b)
             PROVE  \E v : v[1] = Found(L, f, b + 1) /\ Chain(rs, n, v)
  BY Zenon DEF Chained
<1> /\ L \in Nat /\ L = Len(m) /\ Walk(m, L, f)
    /\ rs \in Seq(Records) /\ n \in Nat /\ n = Len(rs) /\ \A i \in 1 .. n : ReadableOwner(rs[i].owner)
    /\ b \in Nat /\ LiesAt(m, b, WireRecords(rs)) /\ b + Len(WireRecords(rs)) = L
  BY Zenon DEF AtRecords
<1>1. DOMAIN rs = 1 .. n /\ \A i \in 1 .. n : rs[i] \in Records
  BY LenProperties, ElementOfSeq
<1>2. PICK ss : ss = [i \in DOMAIN rs |-> WireRecord(rs[i])]
  OBVIOUS
<1>3. ss \in Seq(Seq(Octet))
  BY <1>2, RecordsOctets
<1>4. Len(ss) = n /\ \A i \in 1 .. n : ss[i] = WireRecord(rs[i]) /\ ss[i] \in Seq(Octet)
  <2>1. ss = [i \in 1 .. n |-> WireRecord(rs[i])]
    BY ONLY <1>1, <1>2
  <2>2. Len([i \in 1 .. n |-> WireRecord(rs[i])]) = n
    BY ONLY n \in Nat
  <2>3. Len(ss) = n
    BY ONLY <2>1, <2>2
  <2> QED
    BY <1>1, <1>2, <1>3, <2>3, ElementOfSeq
<1>5. PICK t : t = FlattenSeq(ss) /\ t = WireRecords(rs)
  BY <1>2 DEF WireRecords
<1>6. PICK off : Places(ss, off)
  BY <1>3, FlattenPlaces
<1>7. /\ off \in [0 .. n -> Nat] /\ off[0] = 0 /\ off[n] = Len(t)
      /\ \A i \in 1 .. n : /\ off[i] = off[i - 1] + Len(ss[i]) /\ off[i] <= off[n]
                           /\ LiesAt(t, off[i - 1], ss[i])
  BY ONLY <1>4, <1>5, <1>6 DEF Places
<1>8. PICK T \in Nat : T = Len(t) /\ b + T = L /\ LiesAt(m, b, t) /\ T = off[n]
  BY <1>5, <1>7
<1> DEFINE v == [i \in 1 .. n + 1 |-> Found(L, f, b + off[i - 1] + 1)]
<1>9. ASSUME NEW i \in 1 .. n PROVE v[i] = IF Len(rs[i].data) = 4 THEN rs[i].data ELSE v[i + 1]
  <2>1. PICK a \in Nat, c \in Nat, w \in Nat :
          a = off[i - 1] /\ c = off[i] /\ w = Len(ss[i])
    <3>1. i - 1 \in 0 .. n /\ i \in 0 .. n
      OBVIOUS
    <3>2. off[i - 1] \in Nat /\ off[i] \in Nat
      BY ONLY <1>7, <3>1
    <3>3. Len(ss[i]) \in Nat
      BY <1>4, LenProperties
    <3> QED
      BY ONLY <3>2, <3>3, Zenon
  <2>2. c = a + w /\ c <= T /\ LiesAt(t, a, ss[i])
    BY ONLY i \in 1 .. n, <1>7, <1>8, <2>1
  <2>3. PICK r \in Records : r = rs[i] /\ ss[i] = WireRecord(r) /\ ReadableOwner(r.owner)
    BY <1>1, <1>4
  <2>4. LiesAt(m, b + a, ss[i])
    BY ONLY a \in Nat, b \in Nat, T \in Nat, w \in Nat, <1>8, <2>1, <2>2, LiesWithin
  <2>5. PICK g \in Nat : g = b + a
    OBVIOUS
  <2>6. LiesAt(m, g, WireRecord(r))
    BY ONLY <2>3, <2>4, <2>5
  <2>7. w >= 10
    <3>1. PICK x, y : RecordLies(m, g, r, x, y)
      BY ONLY g \in Nat, r \in Records, <2>6, RecordLayout, Zenon
    <3>2. x \in Nat /\ y \in Nat /\ Len(WireRecord(r)) = x + 10 + y
      BY ONLY <3>1, Zenon DEF RecordLies
    <3>3. w = x + 10 + y
      BY ONLY <2>1, <2>3, <3>2
    <3> QED
      BY ONLY w \in Nat, <3>2, <3>3
  <2>8. PICK p \in 1 .. L : p = g + 1 /\ p - 1 = g /\ p - 1 + w <= L
    <3>1. g + w <= L
      BY ONLY a \in Nat, b \in Nat, T \in Nat, w \in Nat, c \in Nat, <1>8, <2>2, <2>5
    <3>2. g + 1 \in 1 .. L /\ (g + 1) - 1 = g /\ (g + 1) - 1 + w <= L
      BY ONLY L \in Nat, g \in Nat, w \in Nat, <2>7, <3>1
    <3> QED
      BY ONLY <3>2
  <2>9. w = Len(WireRecord(r))
    BY ONLY <2>1, <2>3
  <2>10. LiesAt(m, p - 1, WireRecord(r)) /\ p - 1 + Len(WireRecord(r)) <= L
    BY ONLY <2>6, <2>8, <2>9
  <2>11. RecordRead(m, p, r, Len(r.data))
    BY ONLY L \in Nat, L = Len(m), r \in Records, p \in 1 .. L, <2>3, <2>10, RecordIsRead
  <2>12. f[p] = IF Len(r.data) = 4 THEN r.data ELSE Found(L, f, p + w)
    <3>1. PICK l : l = Len(r.data)
      BY Zenon
    <3>2. RecordRead(m, p, r, l)
      BY ONLY <2>11, <3>1
    <3>3. AtRecord(m, L, f, r, p, l, w)
      BY ONLY L \in Nat, Walk(m, L, f), r \in Records, p \in 1 .. L, w \in Nat, <2>9, <3>2, Zenon DEF AtRecord
    <3>4. StepsOver(L, f, r, p, l, w)
      BY ONLY <3>3, WalkStep, Zenon
    <3> QED
      BY ONLY <3>1, <3>4, Zenon DEF StepsOver
  <2>13. v[i] = f[p]
    <3>1. b + off[i - 1] + 1 = p /\ ~ (p > L)
      <4>1. b + a + 1 = p /\ ~ (p > L)
        BY ONLY a \in Nat, b \in Nat, L \in Nat, p \in 1 .. L, <2>5, <2>8
      <4> QED
        BY ONLY <2>1, <4>1
    <3>2. i \in 1 .. n + 1
      OBVIOUS
    <3>3. v[i] = Found(L, f, p)
      BY ONLY <3>1, <3>2
    <3> QED
      BY ONLY <3>1, <3>3, Zenon DEF Found
  <2>14. v[i + 1] = Found(L, f, p + w)
    <3>1. i + 1 \in 1 .. n + 1 /\ (i + 1) - 1 = i
      OBVIOUS
    <3>2. b + off[i] + 1 = p + w
      <4>1. b + (a + w) + 1 = p + w
        BY ONLY a \in Nat, b \in Nat, w \in Nat, <2>5, <2>8
      <4> QED
        BY ONLY <2>1, <2>2, <4>1
    <3> QED
      BY ONLY <3>1, <3>2
  <2> QED
    BY ONLY <2>3, <2>12, <2>13, <2>14
<1>10. v[n + 1] = Unresolved
  <2>1. n + 1 \in 1 .. n + 1 /\ (n + 1) - 1 = n /\ b + off[n] + 1 > L
    BY <1>8
  <2> QED
    BY ONLY <2>1 DEF Found
<1>11. v[1] = Found(L, f, b + 1)
  <2>1. 1 \in 1 .. n + 1 /\ 1 - 1 = 0 /\ b + off[0] + 1 = b + 1
    BY <1>7
  <2> QED
    BY ONLY <2>1
<1> HIDE DEF v
<1> QED
  BY ONLY <1>9, <1>10, <1>11, Zenon DEF Chain
(* A name is two octets longer than its labels joined by dots.             *)
LEMMA DotsLengths ==
  ASSUME NEW labels, NEW n \in Nat, DOMAIN labels = 1 .. n, Len(labels) = n,
         \A i \in 1 .. n : labels[i] \in Seq(Nat)
  PROVE  \A i \in 1 .. n : Len(Dots(labels)[i]) = Len(labels[i]) + (IF i < n THEN 1 ELSE 0)
<1> SUFFICES ASSUME NEW i \in 1 .. n PROVE Len(Dots(labels)[i]) = Len(labels[i]) + (IF i < n THEN 1 ELSE 0)
  OBVIOUS
<1>1. PICK s \in Seq(Nat) : s = labels[i]
  OBVIOUS
<1>2. PICK d \in Nat : d = Dot
  BY DEF Dot
<1>3. Dots(labels)[i] = s \o (IF i < n THEN <<d>> ELSE << >>)
  BY ONLY DOMAIN labels = 1 .. n, Len(labels) = n, i \in 1 .. n, <1>1, <1>2 DEF Dots
<1>4. Len(s \o <<d>>) = Len(s) + 1 /\ Len(s \o << >>) = Len(s) + 0
  BY ONLY s \in Seq(Nat), d \in Nat
<1>5. CASE i < n
  BY ONLY <1>1, <1>3, <1>4, <1>5
<1>6. CASE ~ (i < n)
  BY ONLY <1>1, <1>3, <1>4, <1>6
<1> QED
  BY <1>5, <1>6

LEMMA DottedLength ==
  ASSUME NEW labels \in Seq(Labels(Nat)), labels # << >>
  PROVE  Len(Dotted(labels)) \in Nat /\ Len(WireName(labels)) = Len(Dotted(labels)) + 2
<1>1. PICK n \in Nat : n = Len(labels) /\ DOMAIN labels = 1 .. n
  BY LenProperties
<1>2. \A i \in 1 .. n : labels[i] \in Seq(Nat)
  BY <1>1, ElementOfSeq DEF Labels
<1>3. n >= 1
  BY <1>1, EmptySeq
<1>4. PICK len \in [1 .. n -> Nat] : \A i \in 1 .. n : len[i] = Len(labels[i])
  <2>1. [i \in 1 .. n |-> Len(labels[i])] \in [1 .. n -> Nat]
    BY <1>2, LenProperties
  <2> QED
    BY <2>1
<1>5. PICK so, do : Places(Sized(labels), so) /\ Places(Dots(labels), do)
  <2>1. Sized(labels) \in Seq(Seq(Nat)) /\ Dots(labels) \in Seq(Seq(Nat))
    BY <1>1, <1>2, SizedType, DotsType
  <2> QED
    BY ONLY <2>1, FlattenPlaces
<1>6. Len(Sized(labels)) = n /\ Len(Dots(labels)) = n
  BY <1>1, <1>2, SizedType, DotsType
<1>7. /\ so \in [0 .. n -> Nat] /\ do \in [0 .. n -> Nat] /\ so[0] = 0 /\ do[0] = 0
      /\ so[n] = Len(FlattenSeq(Sized(labels))) /\ do[n] = Len(FlattenSeq(Dots(labels)))
  BY ONLY <1>5, <1>6 DEF Places
<1>8. \A i \in 1 .. n : so[i] = so[i - 1] + len[i] + 1 /\ do[i] = do[i - 1] + len[i] + (IF i < n THEN 1 ELSE 0)
  <2> SUFFICES ASSUME NEW i \in 1 .. n
               PROVE  so[i] = so[i - 1] + len[i] + 1 /\ do[i] = do[i - 1] + len[i] + (IF i < n THEN 1 ELSE 0)
    OBVIOUS
  <2>1. so[i] = so[i - 1] + Len(Sized(labels)[i]) /\ do[i] = do[i - 1] + Len(Dots(labels)[i])
    BY ONLY i \in 1 .. n, <1>5, <1>6 DEF Places
  <2>2. Len(Sized(labels)[i]) = Len(labels[i]) + 1
    BY <1>1, <1>2, SizedType
  <2>3. Len(Dots(labels)[i]) = Len(labels[i]) + (IF i < n THEN 1 ELSE 0)
    BY <1>1, <1>2, DotsLengths
  <2>4. PICK l \in Nat, x \in Nat, y \in Nat : l = len[i] /\ x = so[i - 1] /\ y = do[i - 1]
    <3>1. i - 1 \in 0 .. n
      OBVIOUS
    <3> QED
      BY ONLY i \in 1 .. n, len \in [1 .. n -> Nat], <1>7, <3>1
  <2>5. PICK z \in Nat : z = IF i < n THEN 1 ELSE 0
    OBVIOUS
  <2>6. so[i] = x + (l + 1) /\ do[i] = y + (l + z)
    BY ONLY i \in 1 .. n, <1>4, <2>1, <2>2, <2>3, <2>4, <2>5
  <2>7. x + (l + 1) = x + l + 1 /\ y + (l + z) = y + l + z
    OBVIOUS
  <2> QED
    BY ONLY <2>4, <2>5, <2>6, <2>7
<1> DEFINE P(k) == k <= n => do[k] = so[k] - (IF k = n THEN 1 ELSE 0)
<1>9. P(0)
  <2>1. do[0] = 0 /\ so[0] = 0
    BY ONLY <1>7
  <2>2. 0 # n
    BY ONLY <1>3
  <2>3. (IF 0 = n THEN 1 ELSE 0) = 0
    BY ONLY <2>2, Zenon
  <2>4. 0 - 0 = 0
    OBVIOUS
  <2>5. do[0] = so[0] - (IF 0 = n THEN 1 ELSE 0)
    BY ONLY <2>1, <2>3, <2>4, Zenon
  <2> QED
    BY <2>5
<1>10. ASSUME NEW k \in Nat, P(k) PROVE P(k + 1)
  <2> SUFFICES ASSUME k + 1 <= n PROVE do[k + 1] = so[k + 1] - (IF k + 1 = n THEN 1 ELSE 0)
    OBVIOUS
  <2>1. k <= n /\ k # n /\ k + 1 \in 1 .. n /\ (k + 1) - 1 = k /\ k \in 0 .. n
    OBVIOUS
  <2>2. PICK x \in Nat, l \in Nat : x = so[k] /\ l = len[k + 1]
    BY ONLY len \in [1 .. n -> Nat], <1>7, <2>1
  <2>3. do[k] = x
    BY ONLY x \in Nat, <1>10, <2>1, <2>2
  <2>4. so[k + 1] = x + l + 1 /\ do[k + 1] = x + l + (IF k + 1 < n THEN 1 ELSE 0)
    BY ONLY <1>8, <2>1, <2>2, <2>3
  <2>5. CASE k + 1 = n
    BY ONLY k \in Nat, n \in Nat, x \in Nat, l \in Nat, <2>4, <2>5
  <2>6. CASE k + 1 # n
    <3>1. k + 1 < n
      BY ONLY k \in Nat, n \in Nat, k + 1 <= n, <2>6
    <3> QED
      BY ONLY x \in Nat, l \in Nat, <2>4, <2>6, <3>1
  <2> QED
    BY <2>5, <2>6
<1>11. \A k \in Nat : P(k)
  <2> HIDE DEF P
  <2> DEFINE Good == {k \in Nat : P(k)}
  <2>1. 0 \in Good
    BY <1>9
  <2>2. ASSUME NEW k \in Nat, k \in Good PROVE k + 1 \in Good
    BY <1>10, <2>2
  <2>3. Nat \subseteq Good
    <3> HIDE DEF Good
    <3> QED
      BY <2>1, <2>2, Inductive
  <2> QED
    BY <2>3
<1>12. do[n] = so[n] - 1
  <2>1. P(n)
    <3> HIDE DEF P
    <3> QED
      BY <1>11
  <2> QED
    BY ONLY n \in Nat, <2>1
<1>13. Len(WireName(labels)) = Len(FlattenSeq(Sized(labels))) + 1
  BY ONLY n \in Nat, <1>1, <1>2, NameIs
<1>14. FlattenSeq(Dots(labels)) = Dotted(labels)
  BY DEF Dotted, Dots
<1>15. PICK x \in Nat, y \in Nat : x = so[n] /\ y = do[n]
  BY ONLY n \in Nat, <1>7
<1>16. y = x - 1 /\ Len(WireName(labels)) = x + 1 /\ Len(Dotted(labels)) = y
  BY ONLY <1>7, <1>12, <1>13, <1>14, <1>15
<1>17. x + 1 = y + 2
  BY ONLY x \in Nat, y \in Nat, <1>16
<1> QED
  BY ONLY y \in Nat, <1>16, <1>17

(* What the forwarder makes of upstream's answer.                          *)

AllRecords(q, rs, all) == rs \in Seq(Records) /\ Readable(rs) /\ all = rs \o Extras(q)
AllReadable(rs, all) ==
  \E n \in Nat, k \in Nat :
    /\ n = Len(rs) /\ k = Len(all) /\ n <= k /\ all \in Seq(Records)
    /\ \A i \in 1 .. k : ReadableOwner(all[i].owner)
    /\ \A i \in 1 .. k : i <= n => all[i] = rs[i]
    /\ \A i \in 1 .. k : ~ (i <= n) => Len(all[i].data) = 0

LEMMA OptReadable == \A q, rs, all : AllRecords(q, rs, all) => AllReadable(rs, all)
<1> SUFFICES ASSUME NEW q, NEW rs, NEW all, AllRecords(q, rs, all) PROVE AllReadable(rs, all)
  BY Zenon
<1> rs \in Seq(Records) /\ Readable(rs) /\ all = rs \o Extras(q)
  BY Zenon DEF AllRecords
<1>1. PICK opt, o, d, t : opt = OptRecord /\ o = <<0>> /\ d = << >> /\ t = TypeOPT
  OBVIOUS
<1>2. opt.owner = o /\ opt.data = d
  <2>1. opt = [owner |-> o, type |-> t, data |-> d]
    BY ONLY <1>1 DEF OptRecord
  <2> QED
    BY ONLY <2>1
<1>3. ReadableOwner(o) /\ Len(d) = 0
  <2>1. Len(<<0>>) = 1 /\ <<0>>[1] = 0 /\ <<0>> # << >> /\ Len(<< >>) = 0
    OBVIOUS
  <2>2. Len(o) = 1 /\ o[1] = 0 /\ o # << >> /\ Len(d) = 0
    BY ONLY <1>1, <2>1
  <2>3. 0 < 192 /\ \A i : ~ (i \in 1 .. 1 - 1)
    OBVIOUS
  <2>4. o[Len(o)] = 0 /\ o[1] < 192
    BY ONLY <2>2, <2>3
  <2>5. \A i \in 1 .. Len(o) - 1 : o[i] # 0
    BY ONLY <2>2, <2>3
  <2> QED
    BY ONLY <2>2, <2>4, <2>5, Zenon DEF ReadableOwner
<1>4. PICK e \in Seq(Records) : e = Extras(q)
  BY ExtrasType
<1>5. \A i \in 1 .. Len(e) : e[i] = opt
  <2>1. e = IF q.edns THEN <<opt>> ELSE << >>
    BY <1>1, <1>4 DEF Extras
  <2>2. \A i \in 1 .. Len(<<opt>>) : <<opt>>[i] = opt
    OBVIOUS
  <2>3. \A i \in 1 .. Len(<< >>) : FALSE
    OBVIOUS
  <2> QED
    BY ONLY <2>1, <2>2, <2>3
<1>6. PICK n \in Nat, x \in Nat, k \in Nat : n = Len(rs) /\ x = Len(e) /\ k = n + x
  BY LenProperties
<1>7. all \in Seq(Records) /\ Len(all) = k /\ \A i \in 1 .. k : all[i] = IF i <= n THEN rs[i] ELSE e[i - n]
  BY <1>4, <1>6, ConcatProperties
<1>8. ASSUME NEW i \in 1 .. k, i <= n PROVE all[i] = rs[i] /\ ReadableOwner(all[i].owner)
  <2>1. all[i] = rs[i]
    BY ONLY i \in 1 .. k, i <= n, <1>7
  <2>2. i \in DOMAIN rs
    BY <1>6, <1>8, LenProperties
  <2> QED
    BY ONLY Readable(rs), <2>1, <2>2 DEF Readable
<1>9. ASSUME NEW i \in 1 .. k, ~ (i <= n) PROVE Len(all[i].data) = 0 /\ ReadableOwner(all[i].owner)
  <2>1. all[i] = e[i - n]
    BY ONLY i \in 1 .. k, ~ (i <= n), <1>7
  <2>2. i - n \in 1 .. Len(e)
    BY ONLY i \in 1 .. k, n \in Nat, x \in Nat, ~ (i <= n), <1>6
  <2>3. all[i] = opt
    BY ONLY <1>5, <2>1, <2>2
  <2> QED
    BY ONLY <1>2, <1>3, <2>3
<1>10. n <= k
  BY <1>6
<1> QED
  BY ONLY n \in Nat, k \in Nat, <1>6, <1>7, <1>8, <1>9, <1>10 DEF AllReadable

AnswerTo(q, rs, m, hostLen) ==
  /\ Proper(q) /\ q.name # << >> /\ rs \in Seq(Records) /\ Readable(rs)
  /\ m = WireAnswer(q, rs) /\ hostLen = Len(Dotted(q.name))

AllChained(m, hostLen, all) == \E v : v[1] = AddressIn(m, hostLen) /\ Chain(all, Len(all), v)

LEMMA AnswerWalk ==
  \A q, rs, m, hostLen, all : AnswerTo(q, rs, m, hostLen) /\ all = rs \o Extras(q) => AllChained(m, hostLen, all)
<1> SUFFICES ASSUME NEW q, NEW rs, NEW m, NEW hostLen, NEW all, AnswerTo(q, rs, m, hostLen), all = rs \o Extras(q)
             PROVE  AllChained(m, hostLen, all)
  BY Zenon
<1> /\ Proper(q) /\ q.name # << >> /\ rs \in Seq(Records) /\ Readable(rs)
    /\ m = WireAnswer(q, rs) /\ hostLen = Len(Dotted(q.name))
  BY Zenon DEF AnswerTo
<1>1. PICK n \in Nat, k \in Nat :
        /\ n = Len(rs) /\ k = Len(all) /\ all \in Seq(Records)
        /\ \A i \in 1 .. k : ReadableOwner(all[i].owner)
  <2>1. AllReadable(rs, all)
    <3>1. AllRecords(q, rs, all)
      BY Zenon DEF AllRecords
    <3> QED
      BY ONLY <3>1, OptReadable, Zenon
  <2> QED
    BY ONLY <2>1, Zenon DEF AllReadable
<1>2. QuestionAndRest(m, q.name, q.type, WireRecords(all))
  BY AnswerRead
<1>3. PICK w \in Nat, t \in Nat, e \in Nat :
        /\ w = Len(WireName(q.name)) /\ t = Len(WireRecords(all)) /\ e = HeaderLen + w
        /\ Len(m) = e + 4 + t /\ LiesAt(m, e + 4, WireRecords(all))
  BY ONLY <1>2, Zenon DEF QuestionAndRest
<1>4. hostLen \in Nat /\ w = hostLen + 2
  <2>1. q.name \in Seq(Labels(Nat))
    BY OctetSequences DEF Proper
  <2> QED
    BY ONLY q.name # << >>, hostLen = Len(Dotted(q.name)), <1>3, <2>1, DottedLength
<1>5. PICK L \in Nat, b \in Nat, s \in Nat :
        /\ L = Len(m) /\ b = e + 4 /\ s = HeaderLen + hostLen + 6 + 1
  <2>1. HeaderLen + hostLen + 6 + 1 \in Nat /\ e + 4 \in Nat /\ e + 4 + t \in Nat
    BY <1>4 DEF HeaderLen
  <2> QED
    BY ONLY <1>3, <2>1, Zenon
<1>6. s = b + 1 /\ b + t = L
  <2>1. PICK d \in Nat : d = HeaderLen
    BY DEF HeaderLen
  <2>2. e = d + (hostLen + 2) /\ s = d + hostLen + 6 + 1 /\ b = e + 4 /\ L = e + 4 + t
    BY ONLY <1>3, <1>4, <1>5, <2>1
  <2> QED
    BY ONLY d \in Nat, e \in Nat, t \in Nat, <1>4, <2>2
<1>7. PICK f : Walk(m, L, f) /\ AddressIn(m, hostLen) = IF s > L THEN Unresolved ELSE f[s]
  <2>1. WalkStarts(m, L, hostLen, s)
    BY ONLY L \in Nat, <1>5, Zenon DEF WalkStarts
  <2>2. AddressWalk(m, L, hostLen, s)
    BY ONLY <2>1, WalkIs, Zenon
  <2> QED
    BY ONLY <2>2 DEF AddressWalk
<1>8. AddressIn(m, hostLen) = Found(L, f, b + 1)
  BY ONLY <1>6, <1>7, Zenon DEF Found
<1>9. \E v : v[1] = Found(L, f, b + 1) /\ Chain(all, k, v)
  <2>1. LiesAt(m, b, WireRecords(all)) /\ b + Len(WireRecords(all)) = L
    BY ONLY <1>3, <1>5, <1>6
  <2>2. L = Len(m)
    BY ONLY <1>5
  <2>3. Walk(m, L, f)
    BY ONLY <1>7
  <2>4. AtRecords(m, L, f, all, k, b)
    BY ONLY k \in Nat, L \in Nat, b \in Nat, <1>1, <2>1, <2>2, <2>3, Zenon DEF AtRecords
  <2>5. Chained(L, f, all, k, b)
    BY ONLY <2>4, RecordsWalk, Zenon
  <2> QED
    BY ONLY <2>5, Zenon DEF Chained
<1> QED
  BY ONLY <1>1, <1>8, <1>9, Zenon DEF AllChained
(* The address in the answer is four octets, whatever the records.         *)
LEMMA ChainFirst ==
  ASSUME NEW all, NEW k \in Nat, NEW v, Chain(all, k, v)
  PROVE  \E i \in 1 .. k + 1 :
           /\ \A j \in 1 .. i - 1 : ~ (Len(all[j].data) = 4)
           /\ \/ i = k + 1 /\ v[1] = Unresolved
              \/ i \in 1 .. k /\ Len(all[i].data) = 4 /\ v[1] = all[i].data
<1>1. /\ v[k + 1] = Unresolved
      /\ \A i \in 1 .. k : v[i] = IF Len(all[i].data) = 4 THEN all[i].data ELSE v[i + 1]
  BY Zenon DEF Chain
<1>2. PICK G : G = {i \in 1 .. k : Len(all[i].data) = 4}
  OBVIOUS
<1>3. \A i \in 1 .. k : i \in G <=> Len(all[i].data) = 4
  BY ONLY <1>2
<1>4. \A i \in 1 .. k : i \notin G => v[i] = v[i + 1]
  BY ONLY <1>1, <1>3
<1>5. PICK i \in 1 .. k + 1 : (i = k + 1 \/ i \in G) /\ v[1] = v[i] /\ \A j \in 1 .. i - 1 : j \notin G
  BY ONLY k \in Nat, <1>4, FirstDecides
<1>6. ASSUME NEW j \in 1 .. i - 1 PROVE ~ (Len(all[j].data) = 4)
  <2>1. j \in 1 .. k
    OBVIOUS
  <2> QED
    BY ONLY j \in 1 .. i - 1, <1>3, <1>5, <2>1
<1>7. CASE i = k + 1
  BY ONLY i \in 1 .. k + 1, <1>1, <1>5, <1>6, <1>7
<1>8. CASE i # k + 1
  <2>1. i \in 1 .. k /\ i \in G
    BY ONLY i \in 1 .. k + 1, k \in Nat, <1>5, <1>8
  <2>2. Len(all[i].data) = 4
    BY ONLY <1>3, <2>1
  <2>3. v[1] = all[i].data
    BY ONLY <1>1, <1>5, <2>1, <2>2
  <2> QED
    BY ONLY i \in 1 .. k + 1, <1>6, <2>1, <2>2, <2>3
<1> QED
  BY <1>7, <1>8

(* The first of the answer's records that has four octets of data.         *)
FirstFour(rs, n, addr) ==
  \/ addr = Unresolved /\ \A i \in 1 .. n : ~ (Len(rs[i].data) = 4)
  \/ \E i \in 1 .. n : addr = rs[i].data /\ Len(rs[i].data) = 4 /\ \A j \in 1 .. i - 1 : ~ (Len(rs[j].data) = 4)

LEMMA AnswerFirst ==
  \A q, rs, m, hostLen : AnswerTo(q, rs, m, hostLen) => FirstFour(rs, Len(rs), AddressIn(m, hostLen))
<1> SUFFICES ASSUME NEW q, NEW rs, NEW m, NEW hostLen, AnswerTo(q, rs, m, hostLen)
             PROVE  FirstFour(rs, Len(rs), AddressIn(m, hostLen))
  BY Zenon
<1> /\ Proper(q) /\ q.name # << >> /\ rs \in Seq(Records) /\ Readable(rs)
    /\ m = WireAnswer(q, rs) /\ hostLen = Len(Dotted(q.name))
  BY Zenon DEF AnswerTo
<1>1. PICK all : all = rs \o Extras(q)
  OBVIOUS
<1>2. PICK n \in Nat, k \in Nat :
        /\ n = Len(rs) /\ k = Len(all) /\ n <= k
        /\ \A i \in 1 .. k : i <= n => all[i] = rs[i]
        /\ \A i \in 1 .. k : ~ (i <= n) => Len(all[i].data) = 0
  <2>1. AllRecords(q, rs, all)
    BY <1>1, Zenon DEF AllRecords
  <2>2. AllReadable(rs, all)
    BY ONLY <2>1, OptReadable, Zenon
  <2> QED
    BY ONLY <2>2, Zenon DEF AllReadable
<1>3. PICK addr : addr = AddressIn(m, hostLen)
  OBVIOUS
<1>4. PICK v : v[1] = addr /\ Chain(all, k, v)
  <2>1. AllChained(m, hostLen, all)
    BY <1>1, AnswerWalk, Zenon
  <2> QED
    BY ONLY <1>2, <1>3, <2>1, Zenon DEF AllChained
<1>5. PICK i \in 1 .. k + 1 :
        /\ \A j \in 1 .. i - 1 : ~ (Len(all[j].data) = 4)
        /\ \/ i = k + 1 /\ v[1] = Unresolved
           \/ i \in 1 .. k /\ Len(all[i].data) = 4 /\ v[1] = all[i].data
  BY ONLY k \in Nat, <1>4, ChainFirst
<1>6. CASE i = k + 1 /\ v[1] = Unresolved
  <2>1. ASSUME NEW j \in 1 .. n PROVE ~ (Len(rs[j].data) = 4)
    <3>1. j \in 1 .. k /\ j <= n /\ j \in 1 .. i - 1
      BY ONLY j \in 1 .. n, n \in Nat, k \in Nat, <1>2, <1>6
    <3> QED
      BY ONLY <1>2, <1>5, <3>1
  <2> QED
    BY ONLY <1>2, <1>3, <1>4, <1>6, <2>1 DEF FirstFour
<1>7. CASE i \in 1 .. k /\ Len(all[i].data) = 4 /\ v[1] = all[i].data
  <2>1. i <= n
    <3> SUFFICES ASSUME ~ (i <= n) PROVE FALSE
      OBVIOUS
    <3>1. Len(all[i].data) = 0
      BY <1>2, <1>7
    <3>2. 0 # 4
      OBVIOUS
    <3> QED
      BY ONLY <1>7, <3>1, <3>2, Zenon
  <2>2. i \in 1 .. n /\ all[i] = rs[i]
    BY ONLY n \in Nat, k \in Nat, <1>2, <1>7, <2>1
  <2>3. ASSUME NEW j \in 1 .. i - 1 PROVE ~ (Len(rs[j].data) = 4)
    <3>1. j \in 1 .. k /\ j <= n
      BY ONLY j \in 1 .. i - 1, n \in Nat, k \in Nat, <1>2, <2>2
    <3> QED
      BY ONLY j \in 1 .. i - 1, <1>2, <1>5, <3>1
  <2>4. addr = rs[i].data /\ Len(rs[i].data) = 4
    BY ONLY <1>4, <1>7, <2>2
  <2> QED
    BY ONLY <1>2, <1>3, <2>2, <2>3, <2>4 DEF FirstFour
<1> QED
  BY ONLY <1>5, <1>6, <1>7, Zenon

(* Where the A records are those with four octets of data, it is that of   *)
(* the first A record; and it is octets in any case.                       *)
LEMMA FirstIsAddress ==
  ASSUME NEW rs \in Seq(Records), FoursAreA(rs), NEW n \in Nat, n = Len(rs), NEW addr, FirstFour(rs, n, addr)
  PROVE  addr = AddressOf(rs)
<1>1. DOMAIN rs = 1 .. n
  BY LenProperties
<1>2. \A i \in 1 .. n : rs[i].type = TypeA <=> Len(rs[i].data) = 4
  BY ONLY FoursAreA(rs), <1>1 DEF FoursAreA
<1>3. PICK I : I = {i \in 1 .. n : rs[i].type = TypeA}
  OBVIOUS
<1>4. \A i \in 1 .. n : i \in I <=> Len(rs[i].data) = 4
  BY ONLY <1>2, <1>3
<1>5. PICK z : /\ z = IF I # {} THEN Min(I) ELSE 0
               /\ AddressOf(rs) = IF z = 0 THEN Unresolved ELSE rs[z].data
  BY <1>3 DEF AddressOf, SelectInSeq
<1>6. CASE addr = Unresolved /\ \A i \in 1 .. n : ~ (Len(rs[i].data) = 4)
  <2>1. I = {}
    BY ONLY <1>3, <1>4, <1>6
  <2>2. z = 0
    BY ONLY <1>5, <2>1
  <2> QED
    BY ONLY <1>5, <1>6, <2>2
<1>7. CASE \E i \in 1 .. n : addr = rs[i].data /\ Len(rs[i].data) = 4 /\ \A j \in 1 .. i - 1 : ~ (Len(rs[j].data) = 4)
  <2>1. PICK i \in 1 .. n : addr = rs[i].data /\ Len(rs[i].data) = 4 /\ \A j \in 1 .. i - 1 : ~ (Len(rs[j].data) = 4)
    BY <1>7
  <2>2. i \in I /\ \A j \in I : i <= j
    <3>1. ASSUME NEW j \in I PROVE i <= j
      <4>1. j \in 1 .. n /\ Len(rs[j].data) = 4
        BY ONLY j \in I, <1>3, <1>4
      <4>2. ~ (j \in 1 .. i - 1)
        BY ONLY <2>1, <4>1
      <4> QED
        BY ONLY i \in 1 .. n, n \in Nat, <4>1, <4>2
    <3> QED
      BY ONLY i \in 1 .. n, <1>4, <2>1, <3>1
  <2>3. I \subseteq Int
    BY ONLY <1>3, n \in Nat
  <2>4. Min(I) = i
    <3>1. PICK c : c = Min(I)
      OBVIOUS
    <3>2. c \in I /\ \A j \in I : c <= j
      BY ONLY <2>2, <3>1, Zenon DEF Min
    <3>3. c \in Int /\ i \in Int /\ c <= i /\ i <= c
      BY ONLY <2>2, <2>3, <3>2
    <3> QED
      BY ONLY <3>1, <3>3
  <2>5. z = i /\ z # 0
    BY ONLY i \in 1 .. n, <1>5, <2>2, <2>4
  <2> QED
    BY ONLY <1>5, <2>1, <2>5
<1> QED
  BY ONLY FirstFour(rs, n, addr), <1>6, <1>7 DEF FirstFour

LEMMA FirstOctets ==
  ASSUME NEW rs \in Seq(Records), NEW n \in Nat, n = Len(rs), NEW addr, FirstFour(rs, n, addr)
  PROVE  addr \in Seq(Octet) /\ Len(addr) = 4
<1>1. \A i \in 1 .. n : rs[i].data \in Seq(Octet)
  <2> SUFFICES ASSUME NEW i \in 1 .. n PROVE rs[i].data \in Seq(Octet)
    OBVIOUS
  <2>1. rs[i] \in Records
    BY ElementOfSeq
  <2> QED
    BY ONLY <2>1 DEF Records
<1>2. Unresolved \in Seq(Octet) /\ Len(Unresolved) = 4
  <2>1. PICK o \in Octet : o = 0
    BY OctetNumbers
  <2>2. <<o, o, o, o>> \in Seq(Octet) /\ Len(<<o, o, o, o>>) = 4
    OBVIOUS
  <2> QED
    BY ONLY <2>1, <2>2 DEF Unresolved
<1>3. \/ addr = Unresolved
      \/ \E i \in 1 .. n : addr = rs[i].data /\ Len(rs[i].data) = 4
  BY ONLY FirstFour(rs, n, addr), Zenon DEF FirstFour
<1> QED
  BY ONLY <1>1, <1>2, <1>3

(* The forwarder's walk over the records of any answer finds the address   *)
(* of its first A record, or 0 where it has none, if it gets past the      *)
(* owner names and just the A records have four octets of data.            *)
THEOREM AnswerAddress ==
  ASSUME NEW q, Proper(q), q.name # << >>, NEW rs \in Seq(Records), Readable(rs), FoursAreA(rs)
  PROVE  AddressIn(WireAnswer(q, rs), Len(Dotted(q.name))) = AddressOf(rs)
<1>1. PICK m, hostLen : m = WireAnswer(q, rs) /\ hostLen = Len(Dotted(q.name))
  OBVIOUS
<1>2. AnswerTo(q, rs, m, hostLen)
  BY <1>1 DEF AnswerTo
<1>3. PICK n \in Nat : n = Len(rs)
  BY LenProperties
<1>4. FirstFour(rs, n, AddressIn(m, hostLen))
  BY ONLY <1>2, <1>3, AnswerFirst, Zenon
<1>5. AddressIn(m, hostLen) = AddressOf(rs)
  BY ONLY rs \in Seq(Records), FoursAreA(rs), n \in Nat, <1>3, <1>4, FirstIsAddress
<1> QED
  BY ONLY <1>1, <1>5, Zenon
=============================================================================
