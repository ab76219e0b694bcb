-------------------------- MODULE NetForwardProofs --------------------------
(***************************************************************************)
(* Proofs about the list of forwarded requests, pointers and all, for any  *)
(* nodes, buckets and hash of the identifiers: the lists stay circles with *)
(* every node in one of them, nothing but its answer takes a request off,  *)
(* the buckets are the queues of PendingQueues, a client's query, answer   *)
(* and reply are read as they were meant, and every other operation on the *)
(* lists would leave circles with the nodes that it should.                *)
(***************************************************************************)
EXTENDS NetForward, DnsMessageProofs, FunctionTheorems

-----------------------------------------------------------------------------
(* Circles of pointers.                                                    *)

(* The places of a circle: its nodes, and the head before and after them.  *)
Place(h, s, i) == IF i \in 1 .. Len(s) THEN s[i] ELSE h

LEMMA CirclePlaces ==
  ASSUME NEW m, NEW h \in Ptr, NEW s \in Seq(Ptr)
  PROVE  IsCircle(m, h, s) <=>
           \A i \in 0 .. Len(s) : /\ m.next[Place(h, s, i)] = Place(h, s, i + 1)
                                  /\ m.prev[Place(h, s, i + 1)] = Place(h, s, i)
<1> DEFINE ring == <<h>> \o s \o <<h>>
<1>1. PICK n \in Nat : n = Len(s)
  BY LenProperties
<1>2. \A i \in 1 .. n + 2 : ring[i] = Place(h, s, i - 1)
  <2>1. /\ <<h>> \in Seq(Ptr) /\ Len(<<h>>) = 1 /\ <<h>>[1] = h
    OBVIOUS
  <2>2. PICK r \in Seq(Ptr) : r = <<h>> \o s
    BY <2>1, ConcatProperties
  <2>3. Len(r) = n + 1 /\ r[1] = h /\ \A i \in 2 .. n + 1 : r[i] = s[i - 1]
    BY <1>1, <2>1, <2>2, ConcatProperties
  <2>4. /\ \A i \in 1 .. n + 1 : (r \o <<h>>)[i] = r[i]
        /\ (r \o <<h>>)[n + 2] = h
    <3>1. PICK e \in Seq(Ptr) : e = <<h>> /\ Len(e) = 1 /\ e[1] = h
      BY <2>1
    <3>2. \A i \in 1 .. Len(r) + Len(e) :
            (r \o e)[i] = IF i <= Len(r) THEN r[i] ELSE e[i - Len(r)]
      BY ConcatProperties
    <3>3. n + 2 \in 1 .. Len(r) + Len(e) /\ (n + 2) - Len(r) = 1 /\ ~ (n + 2 <= Len(r))
      BY <2>3, <3>1
    <3>4. (r \o e)[n + 2] = h
      BY <3>1, <3>2, <3>3
    <3>5. \A i \in 1 .. n + 1 : (r \o e)[i] = r[i]
      BY <2>3, <3>1, <3>2
    <3> QED
      BY <3>1, <3>4, <3>5
  <2>5. ring = r \o <<h>>
    BY <2>2
  <2> HIDE DEF ring
  <2> SUFFICES ASSUME NEW i \in 1 .. n + 2 PROVE ring[i] = Place(h, s, i - 1)
    OBVIOUS
  <2>6. CASE i = 1
    BY <1>1, <2>3, <2>4, <2>5, <2>6 DEF Place
  <2>7. CASE i = n + 2
    <3>1. ring[i] = h
      BY <2>4, <2>5, <2>7
    <3>2. i - 1 \notin 1 .. Len(s)
      BY <1>1, <2>7
    <3> QED
      BY <3>1, <3>2 DEF Place
  <2>8. CASE i \in 2 .. n + 1
    BY <1>1, <2>3, <2>4, <2>5, <2>8 DEF Place
  <2> QED
    BY <2>6, <2>7, <2>8
<1>3. IsCircle(m, h, s) <=>
        \A i \in 1 .. n + 1 : m.next[ring[i]] = ring[i + 1] /\ m.prev[ring[i + 1]] = ring[i]
  BY <1>1 DEF IsCircle
<1>4. \A i \in 1 .. n + 1 : ring[i] = Place(h, s, i - 1) /\ ring[i + 1] = Place(h, s, (i - 1) + 1)
  <2> HIDE DEF ring
  <2> SUFFICES ASSUME NEW i \in 1 .. n + 1
               PROVE  ring[i] = Place(h, s, i - 1) /\ ring[i + 1] = Place(h, s, (i - 1) + 1)
    OBVIOUS
  <2>1. i \in 1 .. n + 2 /\ i + 1 \in 1 .. n + 2 /\ (i + 1) - 1 = (i - 1) + 1
    OBVIOUS
  <2> QED
    BY <1>2, <2>1
<1>5. ASSUME IsCircle(m, h, s), NEW i \in 0 .. n
      PROVE  /\ m.next[Place(h, s, i)] = Place(h, s, i + 1)
             /\ m.prev[Place(h, s, i + 1)] = Place(h, s, i)
  <2> HIDE DEF ring
  <2>1. i + 1 \in 1 .. n + 1 /\ (i + 1) - 1 = i
    BY <1>5
  <2>2. m.next[ring[i + 1]] = ring[i + 2] /\ m.prev[ring[i + 2]] = ring[i + 1]
    BY <1>3, <1>5, <2>1
  <2>3. ring[i + 1] = Place(h, s, i) /\ ring[i + 2] = Place(h, s, i + 1)
    BY <1>4, <2>1
  <2> QED
    BY <2>2, <2>3
<1>6. ASSUME \A i \in 0 .. n : /\ m.next[Place(h, s, i)] = Place(h, s, i + 1)
                               /\ m.prev[Place(h, s, i + 1)] = Place(h, s, i)
      PROVE  IsCircle(m, h, s)
  <2> HIDE DEF ring
  <2> SUFFICES ASSUME NEW i \in 1 .. n + 1
               PROVE  m.next[ring[i]] = ring[i + 1] /\ m.prev[ring[i + 1]] = ring[i]
    BY <1>3
  <2>1. i - 1 \in 0 .. n
    OBVIOUS
  <2> QED
    BY <1>4, <1>6, <2>1
<1> QED
  BY <1>1, <1>5, <1>6

Distinct(s) == \A i, j \in 1 .. Len(s) : s[i] = s[j] => i = j
Among(x, s) == \E i \in 1 .. Len(s) : s[i] = x

LEMMA DistinctBound ==
  ASSUME NEW S, IsFiniteSet(S), NEW s \in Seq(S), Distinct(s)
  PROVE  Len(s) <= Cardinality(S) /\ Cardinality(S) \in Nat
<1>1. s \in [1 .. Len(s) -> S] /\ Len(s) \in Nat
  BY LenProperties
<1>2. s \in Injection(1 .. Len(s), S)
  <2>1. \A i, j \in 1 .. Len(s) : s[i] = s[j] => i = j
    BY DEF Distinct
  <2> QED
    BY ONLY <1>1, <2>1, Fun_IsInj
<1>3. Cardinality(1 .. Len(s)) <= Cardinality(S)
  BY <1>2, FS_Injection
<1>4. Cardinality(1 .. Len(s)) = Len(s)
  <2>1. PICK n \in Nat : n = Len(s)
    BY <1>1
  <2>2. Cardinality(1 .. n) = IF 1 > n THEN 0 ELSE n - 1 + 1
    BY ONLY n \in Nat, FS_Interval
  <2> QED
    <3>1. (IF 1 > n THEN 0 ELSE n - 1 + 1) = n
      BY ONLY SMTT(30), n \in Nat
    <3> QED
      BY ONLY <2>1, <2>2, <3>1, Zenon
<1> QED
  BY <1>3, <1>4, FS_CardinalityType

(* A walk around a circle visits its nodes in order.                       *)
LEMMA ForEachCircle ==
  ASSUME NEW m, NEW h \in Ptr, NEW s \in Seq(Ptr), IsCircle(m, h, s), Distinct(s), ~Among(h, s)
  PROVE  ForEach(m, h) = s
<1>1. PICK n \in Nat : n = Len(s)
  BY LenProperties
<1>2. \A i \in 0 .. n : m.next[Place(h, s, i)] = Place(h, s, i + 1)
  BY <1>1, CirclePlaces
<1> DEFINE at == CHOOSE g : Way(m.next, h, g)
<1>3. Way(m.next, h, at)
  BY WayExists
<1>4. ASSUME NEW i \in Nat PROVE at[i] = IF i = 0 THEN h ELSE m.next[at[i - 1]]
  <2> HIDE DEF at
  <2> QED
    BY <1>3 DEF Way
<1>5. \A i \in 0 .. n + 1 : at[i] = Place(h, s, i)
  <2> HIDE DEF at
  <2> DEFINE Good == {i \in Nat : i <= n + 1 => at[i] = Place(h, s, i)}
  <2>1. 0 \in Good
    BY <1>4 DEF Place
  <2>2. ASSUME NEW i \in Nat, i \in Good PROVE i + 1 \in Good
    <3> SUFFICES ASSUME i + 1 <= n + 1 PROVE at[i + 1] = Place(h, s, i + 1)
      OBVIOUS
    <3>1. i \in 0 .. n /\ at[i] = Place(h, s, i) /\ (i + 1) - 1 = i /\ i + 1 \in Nat /\ i + 1 # 0
      BY <2>2
    <3>2. at[i + 1] = m.next[at[i]]
      BY <1>4, <3>1
    <3> QED
      BY <1>2, <3>1, <3>2
  <2>3. Nat \subseteq Good
    <3> HIDE DEF Good
    <3> QED
      BY <2>1, <2>2, Inductive
  <2> QED
    BY <2>3
<1> DEFINE last == CHOOSE k \in 0 .. Cardinality(Ptr) :
                     at[k + 1] = h /\ \A i \in 1 .. k : at[i] # h
<1>6. last = n
  <2> HIDE DEF at
  <2>1. n <= Cardinality(Ptr) /\ Cardinality(Ptr) \in Nat
    BY <1>1, DistinctBound, PointerAssumption
  <2>2. at[n + 1] = h /\ \A i \in 1 .. n : at[i] # h
    BY <1>1, <1>5 DEF Place, Among
  <2>3. ASSUME NEW k \in 0 .. Cardinality(Ptr), at[k + 1] = h, \A i \in 1 .. k : at[i] # h
        PROVE  k = n
    <3>1. ~ (k < n)
      <4> SUFFICES ASSUME k < n PROVE FALSE
        OBVIOUS
      <4>1. k + 1 \in 1 .. n
        OBVIOUS
      <4> QED
        BY <2>2, <2>3, <4>1
    <3>2. ~ (n < k)
      <4> SUFFICES ASSUME n < k PROVE FALSE
        OBVIOUS
      <4>1. n + 1 \in 1 .. k
        OBVIOUS
      <4> QED
        BY <2>2, <2>3, <4>1
    <3> QED
      BY <3>1, <3>2
  <2>4. n \in 0 .. Cardinality(Ptr)
    BY <2>1
  <2>5. /\ last \in 0 .. Cardinality(Ptr) /\ at[last + 1] = h
        /\ \A i \in 1 .. last : at[i] # h
    BY <2>2, <2>4
  <2> HIDE DEF last
  <2> QED
    BY <2>3, <2>5
<1>7. ForEach(m, h) = [i \in 1 .. last |-> at[i]]
  BY DEF ForEach, Visited, Way
<1>8. \A i \in 1 .. n : at[i] = s[i]
  <2> HIDE DEF at
  <2> QED
    BY <1>1, <1>5 DEF Place
<1>9. s = [i \in 1 .. n |-> s[i]]
  BY <1>1, LenProperties
<1> QED
  <2> HIDE DEF at, last
  <2> QED
    BY <1>6, <1>7, <1>8, <1>9
-----------------------------------------------------------------------------
(* Filter keeps the order, and goes through a sequence piece by piece.     *)

FilterTo(s, T, n, f) ==
  f = [i \in 0 .. n |-> IF i = 0 THEN << >>
                        ELSE IF s[i] \in T THEN Append(f[i - 1], s[i]) ELSE f[i - 1]]

LEMMA FilterToSteps ==
  ASSUME NEW s, NEW T, NEW n \in Nat, NEW f, FilterTo(s, T, n, f)
  PROVE  /\ f[0] = << >>
         /\ \A i \in 1 .. n : f[i] = IF s[i] \in T THEN Append(f[i - 1], s[i]) ELSE f[i - 1]
<1>1. ASSUME NEW i \in 0 .. n
      PROVE  f[i] = IF i = 0 THEN << >>
                    ELSE IF s[i] \in T THEN Append(f[i - 1], s[i]) ELSE f[i - 1]
  BY DEF FilterTo
<1> QED
  BY <1>1

LEMMA FilterToExtends ==
  ASSUME NEW s, NEW T, NEW n \in Nat, NEW f, FilterTo(s, T, n, f)
  PROVE  \E g : FilterTo(s, T, n + 1, g)
<1>1. /\ f[0] = << >>
      /\ \A i \in 1 .. n : f[i] = IF s[i] \in T THEN Append(f[i - 1], s[i]) ELSE f[i - 1]
  <2>1. ASSUME NEW i \in 0 .. n
        PROVE  f[i] = IF i = 0 THEN << >>
                      ELSE IF s[i] \in T THEN Append(f[i - 1], s[i]) ELSE f[i - 1]
    BY DEF FilterTo
  <2> QED
    BY ONLY <2>1
<1> DEFINE g == [i \in 0 .. n + 1 |->
                   IF i <= n THEN f[i]
                   ELSE IF s[n + 1] \in T THEN Append(f[n], s[n + 1]) ELSE f[n]]
<1>2. ASSUME NEW i \in 0 .. n + 1
      PROVE  g[i] = IF i = 0 THEN << >>
                    ELSE IF s[i] \in T THEN Append(g[i - 1], s[i]) ELSE g[i - 1]
  <2>1. CASE i = 0
    BY <1>1, <2>1
  <2>2. CASE i \in 1 .. n
    <3>1. g[i] = f[i] /\ g[i - 1] = f[i - 1]
      BY <2>2
    <3> QED
      BY <1>1, <2>2, <3>1
  <2>3. CASE i = n + 1
    <3>1. g[i] = (IF s[i] \in T THEN Append(f[n], s[i]) ELSE f[n]) /\ g[i - 1] = f[n]
      BY <2>3
    <3> QED
      BY <2>3, <3>1
  <2> QED
    BY <2>1, <2>2, <2>3
<1>3. g = [i \in 0 .. n + 1 |-> g[i]]
  OBVIOUS
<1>4. FilterTo(s, T, n + 1, g)
  <2> HIDE DEF g
  <2> QED
    BY <1>2, <1>3 DEF FilterTo
<1> QED
  BY <1>4

LEMMA FilterToExists ==
  ASSUME NEW s, NEW T, NEW n \in Nat
  PROVE  \E f : FilterTo(s, T, n, f)
<1> DEFINE Good == {k \in Nat : \E f : FilterTo(s, T, k, f)}
<1>1. 0 \in Good
  <2>1. FilterTo(s, T, 0, [i \in 0 .. 0 |-> << >>])
    BY DEF FilterTo
  <2> QED
    BY <2>1
<1>2. ASSUME NEW k \in Nat, k \in Good PROVE k + 1 \in Good
  BY <1>2, FilterToExtends
<1>3. Nat \subseteq Good
  <2> HIDE DEF Good
  <2> QED
    BY <1>1, <1>2, Inductive
<1> QED
  BY <1>3

(* s and t are the same up to i, as far as T and U go.                      *)
Alike(s, T, t, U, i) == \A j \in 1 .. i : s[j] = t[j] /\ (s[j] \in T <=> t[j] \in U)

(* Two sequences that hold the same members of T up to n filter alike.     *)
LEMMA FilterToAgree ==
  ASSUME NEW s, NEW T, NEW n \in Nat, NEW f, FilterTo(s, T, n, f),
         NEW t, NEW U, NEW k \in Nat, NEW g, FilterTo(t, U, k, g),
         NEW i \in Nat, i <= n, i <= k,
         Alike(s, T, t, U, i)
  PROVE  f[i] = g[i]
<1>1. /\ f[0] = << >>
      /\ \A j \in 1 .. n : f[j] = IF s[j] \in T THEN Append(f[j - 1], s[j]) ELSE f[j - 1]
  <2>1. ASSUME NEW j \in 0 .. n
        PROVE  f[j] = IF j = 0 THEN << >>
                      ELSE IF s[j] \in T THEN Append(f[j - 1], s[j]) ELSE f[j - 1]
    BY DEF FilterTo
  <2> QED
    BY <2>1
<1>2. /\ g[0] = << >>
      /\ \A j \in 1 .. k : g[j] = IF t[j] \in U THEN Append(g[j - 1], t[j]) ELSE g[j - 1]
  <2>1. ASSUME NEW j \in 0 .. k
        PROVE  g[j] = IF j = 0 THEN << >>
                      ELSE IF t[j] \in U THEN Append(g[j - 1], t[j]) ELSE g[j - 1]
    BY DEF FilterTo
  <2> QED
    BY <2>1
<1> DEFINE Good == {j \in Nat : j <= i => f[j] = g[j]}
<1>3. 0 \in Good
  BY <1>1, <1>2
<1>4. ASSUME NEW j \in Nat, j \in Good PROVE j + 1 \in Good
  <2> SUFFICES ASSUME j + 1 <= i PROVE f[j + 1] = g[j + 1]
    OBVIOUS
  <2>1. (j + 1) - 1 = j /\ j + 1 \in 1 .. n /\ j + 1 \in 1 .. k /\ j + 1 \in 1 .. i /\ f[j] = g[j]
    BY <1>4
  <2>2. f[j + 1] = IF s[j + 1] \in T THEN Append(f[j], s[j + 1]) ELSE f[j]
    BY <1>1, <2>1
  <2>3. g[j + 1] = IF t[j + 1] \in U THEN Append(g[j], t[j + 1]) ELSE g[j]
    BY <1>2, <2>1
  <2>4. s[j + 1] = t[j + 1] /\ (s[j + 1] \in T <=> t[j + 1] \in U)
    BY <2>1 DEF Alike
  <2> QED
    BY <2>1, <2>2, <2>3, <2>4
<1>5. Nat \subseteq Good
  <2> HIDE DEF Good
  <2> QED
    BY <1>3, <1>4, Inductive
<1> QED
  BY <1>5

LEMMA FilterIs ==
  ASSUME NEW s, NEW T, Len(s) \in Nat, NEW f, FilterTo(s, T, Len(s), f)
  PROVE  Filter(s, T) = f[Len(s)]
<1> DEFINE g == CHOOSE h : FilterTo(s, T, Len(s), h)
<1>1. FilterTo(s, T, Len(s), g)
  OBVIOUS
<1>2. Filter(s, T) = g[Len(s)]
  BY DEF Filter, FilterTo
<1>3. g[Len(s)] = f[Len(s)]
  <2> HIDE DEF g
  <2> QED
    BY <1>1, FilterToAgree DEF Alike
<1> QED
  BY <1>2, <1>3

LEMMA FilterSame ==
  ASSUME NEW s, NEW T, NEW U, Len(s) \in Nat, \A i \in 1 .. Len(s) : s[i] \in T <=> s[i] \in U
  PROVE  Filter(s, T) = Filter(s, U)
<1>1. PICK f : FilterTo(s, T, Len(s), f)
  BY FilterToExists
<1>2. PICK g : FilterTo(s, U, Len(s), g)
  BY FilterToExists
<1>3. f[Len(s)] = g[Len(s)]
  <2>1. Alike(s, T, s, U, Len(s))
    BY DEF Alike
  <2> QED
    BY <1>1, <1>2, <2>1, FilterToAgree
<1> QED
  BY <1>1, <1>2, <1>3, FilterIs

LEMMA FilterEmpty ==
  ASSUME NEW T
  PROVE  Filter(<< >>, T) = << >>
<1>1. Len(<< >>) = 0
  OBVIOUS
<1>2. PICK f : FilterTo(<< >>, T, 0, f)
  BY FilterToExists
<1>3. f[0] = << >>
  <2>1. ASSUME NEW i \in 0 .. 0 PROVE f[i] = IF i = 0 THEN << >> ELSE IF << >>[i] \in T THEN Append(f[i - 1], << >>[i]) ELSE f[i - 1]
    BY <1>2 DEF FilterTo
  <2> QED
    BY <2>1
<1> QED
  BY <1>1, <1>2, <1>3, FilterIs

LEMMA FilterAppend ==
  ASSUME NEW S, NEW s \in Seq(S), NEW x \in S, NEW T
  PROVE  Filter(Append(s, x), T) = IF x \in T THEN Append(Filter(s, T), x) ELSE Filter(s, T)
<1>1. PICK n \in Nat : n = Len(s)
  OBVIOUS
<1>2. PICK t : t = Append(s, x)
  OBVIOUS
<1>3. Len(t) = n + 1 /\ t[n + 1] = x /\ \A i \in 1 .. n : t[i] = s[i]
  BY <1>1, <1>2, AppendProperties
<1>4. PICK f : FilterTo(s, T, n, f)
  BY FilterToExists
<1>5. PICK g : FilterTo(t, T, n + 1, g)
  <2>1. n + 1 \in Nat
    OBVIOUS
  <2> QED
    BY <2>1, FilterToExists
<1>6. g[n] = f[n]
  <2>1. n + 1 \in Nat /\ n <= n + 1 /\ n <= n
    OBVIOUS
  <2> QED
    <3>1. Alike(t, T, s, T, n)
      BY <1>3 DEF Alike
    <3> QED
      BY ONLY n \in Nat, <3>1, <1>4, <1>5, <2>1, FilterToAgree
<1>7. g[n + 1] = IF t[n + 1] \in T THEN Append(g[n], t[n + 1]) ELSE g[n]
  <2>1. n + 1 \in Nat /\ n + 1 \in 1 .. n + 1 /\ (n + 1) - 1 = n
    OBVIOUS
  <2>2. \A i \in 1 .. n + 1 : g[i] = IF t[i] \in T THEN Append(g[i - 1], t[i]) ELSE g[i - 1]
    <3>1. PICK k \in Nat : k = n + 1
      BY <2>1
    <3>2. FilterTo(t, T, k, g)
      BY ONLY <1>5, <3>1
    <3>3. ASSUME NEW i \in 0 .. k
          PROVE  g[i] = IF i = 0 THEN << >>
                        ELSE IF t[i] \in T THEN Append(g[i - 1], t[i]) ELSE g[i - 1]
      BY ONLY <3>2, <3>3 DEF FilterTo
    <3> QED
      BY ONLY k \in Nat, <3>1, <3>3
  <2> QED
    BY <2>1, <2>2
<1>8. Filter(s, T) = f[n] /\ Filter(t, T) = g[n + 1]
  BY <1>1, <1>3, <1>4, <1>5, FilterIs
<1> QED
  BY <1>2, <1>3, <1>6, <1>7, <1>8

LEMMA FilterType ==
  ASSUME NEW S, NEW s \in Seq(S), NEW T
  PROVE  Filter(s, T) \in Seq(S \cap T)
<1> DEFINE Good == {r \in Seq(S) : Filter(r, T) \in Seq(S \cap T)}
<1>1. << >> \in Good
  BY FilterEmpty, EmptySeq
<1>2. ASSUME NEW r \in Seq(S), NEW x \in S, r \in Good PROVE Append(r, x) \in Good
  <2>1. Filter(r, T) \in Seq(S \cap T)
    BY <1>2
  <2>2. Append(r, x) \in Seq(S)
    BY AppendProperties
  <2>3. Filter(Append(r, x), T) = IF x \in T THEN Append(Filter(r, T), x) ELSE Filter(r, T)
    BY FilterAppend
  <2>4. x \in T => Append(Filter(r, T), x) \in Seq(S \cap T)
    BY <2>1, AppendProperties
  <2> QED
    BY <2>1, <2>2, <2>3, <2>4
<1>3. Seq(S) \subseteq Good
  <2> HIDE DEF Good
  <2> QED
    BY <1>1, <1>2, InductiveSeq
<1> QED
  BY <1>3

LEMMA FilterConcat ==
  ASSUME NEW S, NEW s \in Seq(S), NEW t \in Seq(S), NEW T
  PROVE  Filter(s \o t, T) = Filter(s, T) \o Filter(t, T)
<1> DEFINE Good == {r \in Seq(S) : Filter(s \o r, T) = Filter(s, T) \o Filter(r, T)}
<1>0. Filter(s, T) \in Seq(S)
  <2>1. Filter(s, T) \in Seq(S \cap T)
    BY FilterType
  <2> QED
    BY <2>1, SeqMonotonic
<1>1. << >> \in Good
  <2>1. s \o << >> = s /\ Filter(s, T) \o << >> = Filter(s, T)
    BY <1>0, ConcatEmptySeq
  <2> QED
    BY <2>1, FilterEmpty, EmptySeq
<1>2. ASSUME NEW r \in Seq(S), NEW x \in S, r \in Good PROVE Append(r, x) \in Good
  <2>1. Filter(s \o r, T) = Filter(s, T) \o Filter(r, T)
    BY <1>2
  <2>2. \A u \in Seq(S), v \in Seq(S) : u \o Append(v, x) = Append(u \o v, x)
    <3> SUFFICES ASSUME NEW u \in Seq(S), NEW v \in Seq(S) PROVE u \o Append(v, x) = Append(u \o v, x)
      OBVIOUS
    <3>1. Append(v, x) = v \o <<x>> /\ Append(u \o v, x) = (u \o v) \o <<x>> /\ <<x>> \in Seq(S)
      BY AppendIsConcat, ConcatProperties
    <3> QED
      BY <3>1, ConcatAssociative
  <2>3. Append(r, x) \in Seq(S) /\ s \o r \in Seq(S)
    BY AppendProperties, ConcatProperties
  <2>4. Filter(r, T) \in Seq(S)
    <3>1. Filter(r, T) \in Seq(S \cap T)
      BY FilterType
    <3> QED
      BY <3>1, SeqMonotonic
  <2>5. Filter(Append(r, x), T) = IF x \in T THEN Append(Filter(r, T), x) ELSE Filter(r, T)
    BY FilterAppend
  <2>6. Filter(s \o Append(r, x), T) =
          IF x \in T THEN Append(Filter(s \o r, T), x) ELSE Filter(s \o r, T)
    <3>1. PICK q \in Seq(S) : q = s \o r
      BY <2>3
    <3>2. Filter(Append(q, x), T) = IF x \in T THEN Append(Filter(q, T), x) ELSE Filter(q, T)
      BY FilterAppend
    <3>3. s \o Append(r, x) = Append(q, x)
      BY <2>2, <3>1
    <3> QED
      BY ONLY <3>1, <3>2, <3>3
  <2>7. CASE x \in T
    <3>1. Filter(s \o Append(r, x), T) = Append(Filter(s, T) \o Filter(r, T), x)
      BY ONLY <2>1, <2>6, <2>7
    <3>2. Append(Filter(s, T) \o Filter(r, T), x) = Filter(s, T) \o Append(Filter(r, T), x)
      BY ONLY <1>0, <2>2, <2>4
    <3> QED
      BY <2>3, <2>5, <2>7, <3>1, <3>2
  <2>8. CASE x \notin T
    BY <2>1, <2>3, <2>5, <2>6, <2>8
  <2> QED
    BY <2>7, <2>8
<1>3. Seq(S) \subseteq Good
  <2> HIDE DEF Good
  <2> QED
    BY <1>1, <1>2, InductiveSeq
<1> QED
  BY <1>3
-----------------------------------------------------------------------------
(* One store in a list changes nothing but the pointers it is for.         *)

LEMMA PlacesDiffer ==
  ASSUME NEW h \in Ptr, NEW s \in Seq(Ptr), Distinct(s), ~Among(h, s)
  PROVE  /\ \A i, j \in 0 .. Len(s) : Place(h, s, i) = Place(h, s, j) => i = j
         /\ \A i, j \in 1 .. Len(s) + 1 : Place(h, s, i) = Place(h, s, j) => i = j
<1>1. PICK n \in Nat : n = Len(s)
  BY LenProperties
<1>2. \A i, j \in 1 .. n : s[i] = s[j] => i = j
  BY <1>1 DEF Distinct
<1>3. \A i \in 1 .. n : s[i] # h
  BY <1>1 DEF Among
<1>4. \A i \in 1 .. n : Place(h, s, i) = s[i]
  BY <1>1 DEF Place
<1>5. Place(h, s, 0) = h /\ Place(h, s, n + 1) = h
  BY <1>1 DEF Place
<1>6. ASSUME NEW i \in 0 .. n, NEW j \in 0 .. n, Place(h, s, i) = Place(h, s, j) PROVE i = j
  BY <1>2, <1>3, <1>4, <1>5, <1>6
<1>7. ASSUME NEW i \in 1 .. n + 1, NEW j \in 1 .. n + 1, Place(h, s, i) = Place(h, s, j) PROVE i = j
  BY <1>2, <1>3, <1>4, <1>5, <1>7
<1> QED
  BY <1>1, <1>6, <1>7

LEMMA PlaceIn ==
  ASSUME NEW h \in Ptr, NEW s \in Seq(Ptr), NEW i
  PROVE  Place(h, s, i) \in Ptr
<1>1. \A j \in 1 .. Len(s) : s[j] \in Ptr
  BY ElementOfSeq
<1> QED
  BY <1>1 DEF Place

(* The links of a new entry between two neighbours.                        *)
LEMMA AddBetweenLinks ==
  ASSUME NEW m \in Memory, NEW e \in Ptr, NEW p \in Ptr, NEW x \in Ptr, e # p, e # x
  PROVE  /\ AddBetween(m, e, p, x) \in Memory
         /\ AddBetween(m, e, p, x).next[e] = x
         /\ AddBetween(m, e, p, x).next[p] = e
         /\ \A q \in Ptr \ {e, p} : AddBetween(m, e, p, x).next[q] = m.next[q]
         /\ AddBetween(m, e, p, x).prev[e] = p
         /\ AddBetween(m, e, p, x).prev[x] = e
         /\ \A q \in Ptr \ {e, x} : AddBetween(m, e, p, x).prev[q] = m.prev[q]
<1>1. m.next \in [Ptr -> Ptr \cup {Null}] /\ m.prev \in [Ptr -> Ptr \cup {Null}]
  BY DEF Memory
<1>2. AddBetween(m, e, p, x).next = [m.next EXCEPT ![e] = x, ![p] = e]
  BY DEF AddBetween, Memory
<1>3. AddBetween(m, e, p, x).prev = [m.prev EXCEPT ![x] = e, ![e] = p]
  BY DEF AddBetween, Memory
<1>4. AddBetween(m, e, p, x) \in Memory
  BY DEF AddBetween, Memory
<1> QED
  BY <1>1, <1>2, <1>3, <1>4

(* The links around an entry that is taken out.                            *)
LEMMA ListDelLinks ==
  ASSUME NEW m \in Memory, NEW e \in Ptr, NEW p \in Ptr, NEW x \in Ptr, e # p, e # x,
         m.prev[e] = p, m.next[e] = x
  PROVE  /\ ListDel(m, e) \in Memory
         /\ ListDel(m, e).next[p] = x
         /\ \A q \in Ptr \ {e, p} : ListDel(m, e).next[q] = m.next[q]
         /\ ListDel(m, e).prev[x] = p
         /\ \A q \in Ptr \ {e, x} : ListDel(m, e).prev[q] = m.prev[q]
<1>1. m.next \in [Ptr -> Ptr \cup {Null}] /\ m.prev \in [Ptr -> Ptr \cup {Null}]
  BY DEF Memory
<1>2. PICK u \in Memory : /\ u = Unlink(m, e)
                          /\ u.next = [m.next EXCEPT ![p] = x]
                          /\ u.prev = [m.prev EXCEPT ![x] = p]
  <2>1. Unlink(m, e).next = [m.next EXCEPT ![p] = x]
    BY DEF Unlink, Join, Memory
  <2>2. Unlink(m, e).prev = [m.prev EXCEPT ![x] = p]
    BY DEF Unlink, Join, Memory
  <2>3. Unlink(m, e) \in Memory
    BY DEF Unlink, Join, Memory
  <2> QED
    BY <2>1, <2>2, <2>3
<1>3. ListDel(m, e) = [u EXCEPT !.next[e] = Null, !.prev[e] = Null]
  BY <1>2 DEF ListDel
<1>4. ListDel(m, e).next = [u.next EXCEPT ![e] = Null]
  BY <1>3 DEF Memory
<1>5. ListDel(m, e).prev = [u.prev EXCEPT ![e] = Null]
  BY <1>3 DEF Memory
<1>6. ListDel(m, e) \in Memory
  <2>1. PICK z : z = Null /\ z \in Ptr \cup {Null}
    OBVIOUS
  <2>2. [u EXCEPT !.next[e] = z, !.prev[e] = z] \in Memory
    BY ONLY u \in Memory, e \in Ptr, <2>1 DEF Memory
  <2> QED
    BY <1>3, <2>1, <2>2
<1> QED
  BY <1>1, <1>2, <1>4, <1>5, <1>6

(* s without its kth member.                                               *)
Cut(s, k) == [i \in 1 .. Len(s) - 1 |-> IF i < k THEN s[i] ELSE s[i + 1]]

LEMMA CutProperties ==
  ASSUME NEW S, NEW s \in Seq(S), NEW k \in 1 .. Len(s)
  PROVE  /\ Cut(s, k) \in Seq(S)
         /\ Len(Cut(s, k)) = Len(s) - 1
         /\ \A i \in 1 .. Len(s) - 1 : Cut(s, k)[i] = IF i < k THEN s[i] ELSE s[i + 1]
<1>1. PICK n \in Nat : n = Len(s) /\ \A i \in 1 .. n : s[i] \in S
  BY LenProperties, ElementOfSeq
<1>2. n - 1 \in Nat /\ Cut(s, k) = [i \in 1 .. n - 1 |-> IF i < k THEN s[i] ELSE s[i + 1]]
  BY <1>1 DEF Cut
<1>3. \A i \in 1 .. n - 1 : i \in 1 .. n /\ i + 1 \in 1 .. n
  BY <1>1
<1>4. Cut(s, k) \in [1 .. n - 1 -> S]
  BY <1>1, <1>2, <1>3
<1>5. Cut(s, k) \in Seq(S)
  BY <1>2, <1>4, SeqDef
<1>6. Len(Cut(s, k)) = n - 1
  BY <1>2, <1>4, <1>5, LenProperties
<1> QED
  BY <1>1, <1>2, <1>5, <1>6
-----------------------------------------------------------------------------
(* A circle as its links, and what the list operations make of it.         *)

Nodes(s) == {s[i] : i \in 1 .. Len(s)}

(* A new node goes in before the head.                                     *)
LEMMA AddTailCircle ==
  ASSUME NEW m \in Memory, NEW h \in Ptr, NEW s \in Seq(Ptr), IsCircle(m, h, s),
         Distinct(s), ~Among(h, s), NEW e \in Ptr, e # h, ~Among(e, s)
  PROVE  /\ ListAddTail(m, e, h) \in Memory
         /\ IsCircle(ListAddTail(m, e, h), h, Append(s, e))
         /\ \A q \in Ptr : q # e /\ q # h /\ ~Among(q, s) =>
              /\ ListAddTail(m, e, h).next[q] = m.next[q]
              /\ ListAddTail(m, e, h).prev[q] = m.prev[q]
<1>1. PICK n \in Nat : n = Len(s)
  BY LenProperties
<1>2. PICK p \in Ptr : p = Place(h, s, n)
  BY PlaceIn
<1>3. \A i \in 0 .. n : m.next[Place(h, s, i)] = Place(h, s, i + 1)
                        /\ m.prev[Place(h, s, i + 1)] = Place(h, s, i)
  BY <1>1, CirclePlaces
<1>4. m.prev[h] = p
  <2>1. n \in 0 .. n /\ Place(h, s, n + 1) = h
    BY <1>1 DEF Place
  <2> QED
    BY <1>2, <1>3, <2>1
<1>5. PICK w : w = ListAddTail(m, e, h)
  OBVIOUS
<1>6. \A i \in Int : Place(h, s, i) # e
  BY DEF Place, Among
<1>7. e # p /\ e # h
  BY <1>2, <1>6
<1>8. /\ w \in Memory /\ w.next[e] = h /\ w.next[p] = e
      /\ \A q \in Ptr \ {e, p} : w.next[q] = m.next[q]
      /\ w.prev[e] = p /\ w.prev[h] = e
      /\ \A q \in Ptr \ {e, h} : w.prev[q] = m.prev[q]
  <2>1. w = AddBetween(m, e, p, h)
    BY <1>4, <1>5 DEF ListAddTail
  <2>2. /\ AddBetween(m, e, p, h) \in Memory
        /\ AddBetween(m, e, p, h).next[e] = h
        /\ AddBetween(m, e, p, h).next[p] = e
        /\ \A q \in Ptr \ {e, p} : AddBetween(m, e, p, h).next[q] = m.next[q]
        /\ AddBetween(m, e, p, h).prev[e] = p
        /\ AddBetween(m, e, p, h).prev[h] = e
        /\ \A q \in Ptr \ {e, h} : AddBetween(m, e, p, h).prev[q] = m.prev[q]
    BY ONLY m \in Memory, e \in Ptr, p \in Ptr, h \in Ptr, <1>7, AddBetweenLinks
  <2> QED
    BY <2>1, <2>2
<1>9. PICK t \in Seq(Ptr) : /\ t = Append(s, e) /\ Len(t) = n + 1
                            /\ t[n + 1] = e /\ \A i \in 1 .. n : t[i] = s[i]
  <2>1. PICK t : t = Append(s, e)
    OBVIOUS
  <2>2. t \in Seq(Ptr) /\ Len(t) = n + 1 /\ t[n + 1] = e /\ \A i \in 1 .. n : t[i] = s[i]
    BY <1>1, <2>1, AppendProperties
  <2> QED
    BY <2>1, <2>2
<1>10. /\ \A i \in 0 .. n : Place(h, t, i) = Place(h, s, i)
       /\ Place(h, t, n + 1) = e /\ Place(h, t, n + 2) = h
  BY <1>1, <1>9 DEF Place
<1>11. /\ \A i, j \in 0 .. n : Place(h, s, i) = Place(h, s, j) => i = j
       /\ \A i, j \in 1 .. n + 1 : Place(h, s, i) = Place(h, s, j) => i = j
       /\ Place(h, s, n + 1) = h
  <2>1. Place(h, s, n + 1) = h
    BY <1>1 DEF Place
  <2> QED
    BY <1>1, <2>1, PlacesDiffer
<1>12. \A i \in Int : Place(h, s, i) \in Ptr
  BY PlaceIn
<1>13. ASSUME NEW i \in 0 .. n + 1
       PROVE  w.next[Place(h, t, i)] = Place(h, t, i + 1) /\ w.prev[Place(h, t, i + 1)] = Place(h, t, i)
  <2>1. CASE i < n
    <3>1. i \in 0 .. n /\ n \in 0 .. n /\ i + 1 \in 0 .. n /\ i + 1 \in 1 .. n + 1 /\ n + 1 \in 1 .. n + 1
          /\ i # n /\ i + 1 # n + 1 /\ i \in Int /\ i + 1 \in Int
      BY <2>1
    <3>2. Place(h, s, i) \in Ptr \ {e, p} /\ Place(h, s, i + 1) \in Ptr \ {e, h}
      BY <1>2, <1>6, <1>11, <1>12, <3>1
    <3> QED
      BY <1>3, <1>8, <1>10, <3>1, <3>2
  <2>2. CASE i = n
    BY <1>2, <1>8, <1>10, <2>2
  <2>3. CASE i = n + 1
    <3>1. i + 1 = n + 2
      BY <2>3
    <3> QED
      BY <1>8, <1>10, <2>3, <3>1
  <2> QED
    BY <2>1, <2>2, <2>3
<1>14. IsCircle(w, h, t)
  <2>1. \A i \in 0 .. Len(t) : w.next[Place(h, t, i)] = Place(h, t, i + 1)
                               /\ w.prev[Place(h, t, i + 1)] = Place(h, t, i)
    BY <1>9, <1>13
  <2> QED
    BY <2>1, CirclePlaces
<1>15. ASSUME NEW q \in Ptr, q # e, q # h, ~Among(q, s)
       PROVE  w.next[q] = m.next[q] /\ w.prev[q] = m.prev[q]
  <2>1. q # p
    BY <1>1, <1>2, <1>15 DEF Place, Among
  <2> QED
    BY <1>8, <1>15, <2>1
<1> QED
  BY <1>5, <1>8, <1>9, <1>14, <1>15

(* The kth node is taken out.                                              *)
LEMMA DelCircle ==
  ASSUME NEW m \in Memory, NEW h \in Ptr, NEW s \in Seq(Ptr), IsCircle(m, h, s),
         Distinct(s), ~Among(h, s), NEW k \in 1 .. Len(s)
  PROVE  /\ ListDel(m, s[k]) \in Memory
         /\ IsCircle(ListDel(m, s[k]), h, Cut(s, k))
         /\ \A q \in Ptr : q # h /\ ~Among(q, s) =>
              /\ ListDel(m, s[k]).next[q] = m.next[q]
              /\ ListDel(m, s[k]).prev[q] = m.prev[q]
<1>1. PICK n \in Nat : n = Len(s)
  BY LenProperties
<1>2. PICK p \in Ptr, e \in Ptr, x \in Ptr :
        p = Place(h, s, k - 1) /\ e = Place(h, s, k) /\ x = Place(h, s, k + 1)
  BY PlaceIn
<1>3. \A i \in 0 .. n : m.next[Place(h, s, i)] = Place(h, s, i + 1)
                        /\ m.prev[Place(h, s, i + 1)] = Place(h, s, i)
  BY ZenonT(60), <1>1, CirclePlaces
<1>4. k \in 1 .. n /\ k - 1 \in 0 .. n /\ (k - 1) + 1 = k /\ k \in 0 .. n /\ e = s[k]
  BY <1>1, <1>2 DEF Place
<1>5. m.prev[e] = p /\ m.next[e] = x
  BY <1>2, <1>3, <1>4
<1>6. /\ \A i, j \in 0 .. n : Place(h, s, i) = Place(h, s, j) => i = j
      /\ \A i, j \in 1 .. n + 1 : Place(h, s, i) = Place(h, s, j) => i = j
  BY <1>1, PlacesDiffer
<1>7. e # p /\ e # x
  <2>1. k # k - 1 /\ k # k + 1 /\ k + 1 \in 1 .. n + 1 /\ k \in 1 .. n + 1
    BY <1>4
  <2> QED
    BY <1>2, <1>4, <1>6, <2>1
<1>8. PICK w : w = ListDel(m, e)
  OBVIOUS
<1>9. /\ w \in Memory /\ w.next[p] = x /\ \A q \in Ptr \ {e, p} : w.next[q] = m.next[q]
      /\ w.prev[x] = p /\ \A q \in Ptr \ {e, x} : w.prev[q] = m.prev[q]
  BY <1>5, <1>7, <1>8, ListDelLinks
<1>10. PICK t \in Seq(Ptr) : /\ t = Cut(s, k) /\ Len(t) = n - 1
                             /\ \A i \in 1 .. n - 1 : t[i] = IF i < k THEN s[i] ELSE s[i + 1]
  BY <1>1, CutProperties
<1>11. \A i \in 0 .. n : Place(h, t, i) = IF i < k THEN Place(h, s, i) ELSE Place(h, s, i + 1)
  <2> SUFFICES ASSUME NEW i \in 0 .. n
               PROVE  Place(h, t, i) = IF i < k THEN Place(h, s, i) ELSE Place(h, s, i + 1)
    OBVIOUS
  <2>1. CASE i = 0
    BY <1>4, <1>1, <1>10, <2>1 DEF Place
  <2>2. CASE i \in 1 .. n - 1
    BY <1>4, <1>1, <1>10, <2>2 DEF Place
  <2>3. CASE i = n
    BY <1>4, <1>1, <1>10, <2>3 DEF Place
  <2> QED
    BY <2>1, <2>2, <2>3
<1>12. \A i \in Int : Place(h, s, i) \in Ptr
  BY PlaceIn
<1>a. ASSUME NEW i \in 0 .. n, i # k, i # k - 1
      PROVE  Place(h, s, i) \in Ptr \ {e, p}
  <2>1. Place(h, s, i) # p
    BY ONLY <1>2, <1>4, <1>6, <1>a
  <2>2. Place(h, s, i) # e
    BY ONLY <1>2, <1>4, <1>6, <1>a
  <2> QED
    BY <1>12, <2>1, <2>2
<1>b. ASSUME NEW i \in 1 .. n + 1, i # k, i # k + 1
      PROVE  Place(h, s, i) \in Ptr \ {e, x}
  <2>0. k \in 1 .. n + 1 /\ k + 1 \in 1 .. n + 1
    BY <1>4
  <2>1. Place(h, s, i) # x
    BY ONLY <1>2, <2>0, <1>6, <1>b
  <2>2. Place(h, s, i) # e
    BY ONLY <1>2, <2>0, <1>6, <1>b
  <2> QED
    BY <1>12, <2>1, <2>2
<1>13. ASSUME NEW i \in 0 .. n - 1
       PROVE  w.next[Place(h, t, i)] = Place(h, t, i + 1) /\ w.prev[Place(h, t, i + 1)] = Place(h, t, i)
  <2>1. CASE i + 1 < k
    <3>1. i < k /\ i \in 0 .. n /\ i + 1 \in 0 .. n /\ i + 1 \in 1 .. n + 1 /\ k + 1 \in 1 .. n + 1
          /\ i # k /\ i # k - 1 /\ i + 1 # k + 1 /\ i + 1 # k /\ k \in 1 .. n + 1
      BY <1>4, <2>1
    <3>2. Place(h, s, i) \in Ptr \ {e, p}
      BY <1>a, <3>1
    <3>3. Place(h, s, i + 1) \in Ptr \ {e, x}
      BY <1>b, <3>1
    <3>4. Place(h, t, i) = Place(h, s, i) /\ Place(h, t, i + 1) = Place(h, s, i + 1)
      BY <1>11, <2>1, <3>1
    <3> QED
      BY <1>3, <1>9, <3>1, <3>2, <3>3, <3>4
  <2>2. CASE i + 1 = k
    <3>1. i < k /\ ~ (i + 1 < k) /\ i \in 0 .. n /\ i + 1 \in 0 .. n /\ i = k - 1
      BY <1>4, <2>2
    <3>2. Place(h, t, i) = p /\ Place(h, t, i + 1) = x
      BY <1>2, <1>11, <2>2, <3>1
    <3> QED
      BY <1>9, <3>2
  <2>3. CASE i >= k
    <3>1. ~ (i < k) /\ ~ (i + 1 < k) /\ i \in 0 .. n /\ i + 1 \in 0 .. n /\ i + 1 \in 1 .. n + 1
          /\ (i + 1) + 1 \in 1 .. n + 1 /\ k + 1 \in 1 .. n + 1 /\ k \in 1 .. n + 1
          /\ i + 1 # k /\ i + 1 # k - 1 /\ (i + 1) + 1 # k + 1 /\ (i + 1) + 1 # k /\ (i + 1) + 1 \in Int
      BY <1>4, <2>3
    <3>2. Place(h, s, i + 1) \in Ptr \ {e, p}
      BY <1>a, <3>1
    <3>3. Place(h, s, (i + 1) + 1) \in Ptr \ {e, x}
      BY <1>b, <3>1
    <3>4. Place(h, t, i) = Place(h, s, i + 1) /\ Place(h, t, i + 1) = Place(h, s, (i + 1) + 1)
      BY <1>11, <3>1
    <3> QED
      BY <1>3, <1>9, <3>1, <3>2, <3>3, <3>4
  <2> QED
    BY <1>4, <2>1, <2>2, <2>3
<1>14. IsCircle(w, h, t)
  <2>1. \A i \in 0 .. Len(t) : w.next[Place(h, t, i)] = Place(h, t, i + 1)
                               /\ w.prev[Place(h, t, i + 1)] = Place(h, t, i)
    BY <1>10, <1>13
  <2> QED
    BY <2>1, CirclePlaces
<1>15. ASSUME NEW q \in Ptr, q # h, ~Among(q, s)
       PROVE  w.next[q] = m.next[q] /\ w.prev[q] = m.prev[q]
  <2>1. q # p /\ q # x /\ q # e
    BY <1>1, <1>2, <1>15 DEF Place, Among
  <2> QED
    BY <1>9, <1>15, <2>1
<1> QED
  BY <1>4, <1>8, <1>9, <1>10, <1>14, <1>15

(* A circle none of whose links change stays one.                          *)
LEMMA SameCircle ==
  ASSUME NEW m, NEW w, NEW h \in Ptr, NEW s \in Seq(Ptr), IsCircle(m, h, s),
         \A q \in Ptr : q = h \/ Among(q, s) => w.next[q] = m.next[q] /\ w.prev[q] = m.prev[q]
  PROVE  IsCircle(w, h, s)
<1>1. \A i \in Int : Place(h, s, i) \in Ptr /\ (Place(h, s, i) = h \/ Among(Place(h, s, i), s))
  <2>1. \A i \in Int : Place(h, s, i) = h \/ Among(Place(h, s, i), s)
    BY DEF Place, Among
  <2> QED
    BY <2>1, PlaceIn
<1>2. \A i \in 0 .. Len(s) : i \in Int /\ i + 1 \in Int
  OBVIOUS
<1>3. \A i \in 0 .. Len(s) : m.next[Place(h, s, i)] = Place(h, s, i + 1)
                             /\ m.prev[Place(h, s, i + 1)] = Place(h, s, i)
  BY CirclePlaces
<1>4. \A i \in 0 .. Len(s) : w.next[Place(h, s, i)] = Place(h, s, i + 1)
                             /\ w.prev[Place(h, s, i + 1)] = Place(h, s, i)
  BY <1>1, <1>2, <1>3
<1> QED
  BY <1>4, CirclePlaces
-----------------------------------------------------------------------------
(* All the buckets' lists together.                                        *)

EveryOnce(lists) ==
  \A b, c \in Bucket : \A i \in 1 .. Len(lists[b]), j \in 1 .. Len(lists[c]) :
    lists[b][i] = lists[c][j] => b = c /\ i = j
OnList(x, lists) == \E b \in Bucket : Among(x, lists[b])

Shape(m, lists) ==
  /\ m \in Memory
  /\ lists \in [Bucket -> Seq(Node)]
  /\ EveryOnce(lists)
  /\ \A b \in Bucket : IsCircle(m, b, lists[b])

Added(lists, b, e) == [lists EXCEPT ![b] = Append(lists[b], e)]
Taken(lists, b, k) == [lists EXCEPT ![b] = Cut(lists[b], k)]

(* Heads and nodes are different pointers.                                 *)
LEMMA HeadsAndNodes ==
  /\ \A b \in Bucket : b \in Ptr /\ b \notin Node
  /\ \A n \in Node : n \in Ptr /\ n \notin Bucket
  /\ \A s \in Seq(Node) : s \in Seq(Ptr) /\ \A b \in Bucket : ~Among(b, s)
<1>1. Bucket \subseteq Ptr /\ Node \subseteq Ptr /\ Bucket \cap Node = {}
  BY ForwardAssumption
<1>2. ASSUME NEW s \in Seq(Node) PROVE s \in Seq(Ptr) /\ \A b \in Bucket : ~Among(b, s)
  <2>1. s \in Seq(Ptr)
    BY <1>1, SeqMonotonic
  <2>2. \A i \in 1 .. Len(s) : s[i] \in Node
    BY ElementOfSeq
  <2> QED
    BY <1>1, <2>1, <2>2 DEF Among
<1> QED
  BY <1>1, <1>2

LEMMA ShapeFacts ==
  ASSUME NEW m, NEW lists, Shape(m, lists), NEW b \in Bucket
  PROVE  /\ m \in Memory
         /\ lists[b] \in Seq(Node) /\ lists[b] \in Seq(Ptr) /\ Len(lists[b]) \in Nat
         /\ Distinct(lists[b]) /\ ~Among(b, lists[b])
         /\ IsCircle(m, b, lists[b])
         /\ \A i \in 1 .. Len(lists[b]) : lists[b][i] \in Node
<1>1. /\ m \in Memory /\ lists \in [Bucket -> Seq(Node)] /\ EveryOnce(lists)
      /\ \A c \in Bucket : IsCircle(m, c, lists[c])
  BY DEF Shape
<1>2. PICK s \in Seq(Node) : s = lists[b]
  BY <1>1
<1>3. Len(s) \in Nat /\ \A i \in 1 .. Len(s) : s[i] \in Node
  BY LenProperties, ElementOfSeq
<1>4. Distinct(s)
  BY <1>1, <1>2 DEF EveryOnce, Distinct
<1>5. s \in Seq(Ptr) /\ ~Among(b, s)
  BY HeadsAndNodes
<1> QED
  BY <1>1, <1>2, <1>3, <1>4, <1>5

(* The loops find just these lists.                                        *)
LEMMA ShapeListed ==
  ASSUME NEW m, NEW lists, Shape(m, lists)
  PROVE  /\ \A b \in Bucket : ForEach(m, b) = lists[b]
         /\ [b \in Bucket |-> ForEach(m, b)] = lists
<1>1. ASSUME NEW b \in Bucket PROVE ForEach(m, b) = lists[b]
  <2>1. /\ lists[b] \in Seq(Ptr) /\ Distinct(lists[b]) /\ ~Among(b, lists[b])
        /\ IsCircle(m, b, lists[b])
    BY ShapeFacts
  <2> QED
    BY <2>1, HeadsAndNodes, ForEachCircle
<1>2. lists = [b \in Bucket |-> lists[b]]
  BY DEF Shape
<1> QED
  BY <1>1, <1>2

LEMMA ShapeAdd ==
  ASSUME NEW m, NEW lists, Shape(m, lists), NEW b \in Bucket, NEW e \in Node, ~OnList(e, lists)
  PROVE  Shape(ListAddTail(m, e, b), Added(lists, b, e))
<1>1. PICK s \in Seq(Node) : s = lists[b]
  BY DEF Shape
<1>2. PICK w : w = ListAddTail(m, e, b)
  OBVIOUS
<1>3. /\ m \in Memory /\ s \in Seq(Ptr) /\ Len(s) \in Nat /\ IsCircle(m, b, s)
      /\ Distinct(s) /\ ~Among(b, s)
  BY <1>1, ShapeFacts
<1>4. e \in Ptr /\ b \in Ptr /\ e # b /\ ~Among(e, s)
  BY <1>1, HeadsAndNodes DEF OnList
<1>5. /\ w \in Memory /\ IsCircle(w, b, Append(s, e))
      /\ \A q \in Ptr : q # e /\ q # b /\ ~Among(q, s) =>
           w.next[q] = m.next[q] /\ w.prev[q] = m.prev[q]
  BY ONLY <1>2, <1>3, <1>4, AddTailCircle
<1>6. PICK t : /\ t = Append(s, e) /\ t \in Seq(Node) /\ Len(t) = Len(s) + 1
               /\ t[Len(s) + 1] = e /\ \A i \in 1 .. Len(s) : t[i] = s[i]
  <2>1. PICK t : t = Append(s, e)
    OBVIOUS
  <2> QED
    BY <2>1, AppendProperties
<1>7. PICK new : new = Added(lists, b, e)
  OBVIOUS
<1>8. new \in [Bucket -> Seq(Node)] /\ new[b] = t /\ \A c \in Bucket \ {b} : new[c] = lists[c]
  BY <1>1, <1>6, <1>7 DEF Added, Shape
<1>9. \A c \in Bucket : \A i \in 1 .. Len(lists[c]) : lists[c][i] # e
  BY DEF OnList, Among
<1>10. \A c, d \in Bucket : \A i \in 1 .. Len(lists[c]), j \in 1 .. Len(lists[d]) :
         lists[c][i] = lists[d][j] => c = d /\ i = j
  BY DEF Shape, EveryOnce
<1>11. ASSUME NEW c \in Bucket, NEW d \in Bucket,
              NEW i \in 1 .. Len(new[c]), NEW j \in 1 .. Len(new[d]), new[c][i] = new[d][j]
       PROVE  c = d /\ i = j
  <2>1. CASE c = b /\ d = b
    <3>1. i \in 1 .. Len(s) + 1 /\ j \in 1 .. Len(s) + 1 /\ t[i] = t[j]
      BY <1>6, <1>8, <1>11, <2>1
    <3>2. \A k \in 1 .. Len(s) : s[k] # e
      BY <1>1, <1>9
    <3>3. \A k, l \in 1 .. Len(s) : s[k] = s[l] => k = l
      BY <1>3 DEF Distinct
    <3> QED
      BY <1>3, <1>6, <2>1, <3>1, <3>2, <3>3
  <2>2. CASE c = b /\ d # b
    <3>1. i \in 1 .. Len(s) + 1 /\ j \in 1 .. Len(lists[d]) /\ t[i] = lists[d][j]
      BY <1>6, <1>8, <1>11, <2>2
    <3>2. lists[d][j] # e
      BY <1>9, <3>1
    <3>3. i \in 1 .. Len(s) /\ lists[c][i] = lists[d][j]
      BY <1>1, <1>3, <1>6, <2>2, <3>1, <3>2
    <3> QED
      BY <1>1, <1>10, <2>2, <3>1, <3>3
  <2>3. CASE c # b /\ d = b
    <3>1. j \in 1 .. Len(s) + 1 /\ i \in 1 .. Len(lists[c]) /\ t[j] = lists[c][i]
      BY <1>6, <1>8, <1>11, <2>3
    <3>2. lists[c][i] # e
      BY <1>9, <3>1
    <3>3. j \in 1 .. Len(s) /\ lists[d][j] = lists[c][i]
      BY <1>1, <1>3, <1>6, <2>3, <3>1, <3>2
    <3> QED
      BY <1>1, <1>10, <2>3, <3>1, <3>3
  <2>4. CASE c # b /\ d # b
    BY <1>8, <1>10, <1>11, <2>4
  <2> QED
    BY <2>1, <2>2, <2>3, <2>4
<1>12. ASSUME NEW c \in Bucket PROVE IsCircle(w, c, new[c])
  <2>1. CASE c = b
    BY <1>5, <1>6, <1>8, <2>1
  <2>2. CASE c # b
    <3>1. PICK r \in Seq(Node) : r = lists[c]
      BY DEF Shape
    <3>2. c \in Ptr /\ r \in Seq(Ptr) /\ IsCircle(m, c, r)
      BY <3>1, ShapeFacts, HeadsAndNodes
    <3>3. ASSUME NEW q \in Ptr, q = c \/ Among(q, r)
          PROVE  w.next[q] = m.next[q] /\ w.prev[q] = m.prev[q]
      <4>1. CASE q = c
        <5>1. q # e /\ q # b /\ ~Among(q, s)
          BY <2>2, <4>1, HeadsAndNodes
        <5> QED
          BY <1>5, <5>1
      <4>2. CASE Among(q, r)
        <5>1. PICK i \in 1 .. Len(r) : r[i] = q
          BY <4>2 DEF Among
        <5>2. q \in Node /\ q # b
          BY <5>1, ElementOfSeq, HeadsAndNodes
        <5>3. q # e
          BY <1>9, <3>1, <5>1
        <5>4. ~Among(q, s)
          BY <1>1, <1>10, <2>2, <3>1, <5>1 DEF Among
        <5> QED
          BY <1>5, <5>2, <5>3, <5>4
      <4> QED
        BY <3>3, <4>1, <4>2
    <3>4. IsCircle(w, c, r)
      BY ONLY <3>2, <3>3, SameCircle
    <3> QED
      BY <1>8, <2>2, <3>1, <3>4
  <2> QED
    BY <2>1, <2>2
<1> QED
  BY <1>2, <1>5, <1>7, <1>8, <1>11, <1>12 DEF Shape, EveryOnce

LEMMA ShapeDel ==
  ASSUME NEW m, NEW lists, Shape(m, lists), NEW b \in Bucket, NEW k \in 1 .. Len(lists[b])
  PROVE  Shape(ListDel(m, lists[b][k]), Taken(lists, b, k))
<1>1. PICK s \in Seq(Node) : s = lists[b]
  BY DEF Shape
<1>2. PICK w : w = ListDel(m, s[k])
  OBVIOUS
<1>3. /\ m \in Memory /\ s \in Seq(Ptr) /\ Len(s) \in Nat /\ IsCircle(m, b, s)
      /\ Distinct(s) /\ ~Among(b, s)
  BY <1>1, ShapeFacts
<1>4. b \in Ptr /\ k \in 1 .. Len(s)
  BY <1>1, HeadsAndNodes
<1>5. /\ w \in Memory /\ IsCircle(w, b, Cut(s, k))
      /\ \A q \in Ptr : q # b /\ ~Among(q, s) =>
           w.next[q] = m.next[q] /\ w.prev[q] = m.prev[q]
  BY ONLY <1>2, <1>3, <1>4, DelCircle
<1>6. PICK t : /\ t = Cut(s, k) /\ t \in Seq(Node) /\ Len(t) = Len(s) - 1
               /\ \A i \in 1 .. Len(s) - 1 : t[i] = IF i < k THEN s[i] ELSE s[i + 1]
  BY <1>4, CutProperties
<1>7. PICK new : new = Taken(lists, b, k)
  OBVIOUS
<1>8. new \in [Bucket -> Seq(Node)] /\ new[b] = t /\ \A c \in Bucket \ {b} : new[c] = lists[c]
  BY <1>1, <1>6, <1>7 DEF Taken, Shape
<1>9. \A i \in 1 .. Len(t) : \E j \in 1 .. Len(s) : t[i] = s[j] /\ j = IF i < k THEN i ELSE i + 1
  <2> SUFFICES ASSUME NEW i \in 1 .. Len(s) - 1
               PROVE  \E j \in 1 .. Len(s) : t[i] = s[j] /\ j = IF i < k THEN i ELSE i + 1
    BY <1>6
  <2>1. i \in 1 .. Len(s) /\ i + 1 \in 1 .. Len(s)
    BY <1>3
  <2> QED
    BY <1>6, <2>1
<1>10. \A c, d \in Bucket : \A i \in 1 .. Len(lists[c]), j \in 1 .. Len(lists[d]) :
         lists[c][i] = lists[d][j] => c = d /\ i = j
  BY DEF Shape, EveryOnce
<1>11. ASSUME NEW c \in Bucket, NEW d \in Bucket,
              NEW i \in 1 .. Len(new[c]), NEW j \in 1 .. Len(new[d]), new[c][i] = new[d][j]
       PROVE  c = d /\ i = j
  <2>1. PICK p \in 1 .. Len(lists[c]) : /\ new[c][i] = lists[c][p]
                                        /\ p = IF c = b /\ i >= k THEN i + 1 ELSE i
    <3>1. CASE c = b
      <4>1. PICK p \in 1 .. Len(s) : t[i] = s[p] /\ p = IF i < k THEN i ELSE i + 1
        BY <1>8, <1>9, <3>1
      <4>2. (i < k) <=> ~ (i >= k)
        BY <1>4
      <4> QED
        BY <1>1, <1>8, <3>1, <4>1, <4>2
    <3>2. CASE c # b
      BY <1>8, <3>2
    <3> QED
      BY <3>1, <3>2
  <2>2. PICK q \in 1 .. Len(lists[d]) : /\ new[d][j] = lists[d][q]
                                        /\ q = IF d = b /\ j >= k THEN j + 1 ELSE j
    <3>1. CASE d = b
      <4>1. PICK l \in 1 .. Len(s) : t[j] = s[l] /\ l = IF j < k THEN j ELSE j + 1
        BY <1>8, <1>9, <3>1
      <4>2. (j < k) <=> ~ (j >= k)
        BY <1>4
      <4> QED
        BY <1>1, <1>8, <3>1, <4>1, <4>2
    <3>2. CASE d # b
      BY <1>8, <3>2
    <3> QED
      BY <3>1, <3>2
  <2>3. c = d /\ p = q
    <3>1. lists[c][p] = lists[d][q]
      BY <1>11, <2>1, <2>2
    <3> QED
      BY <1>10, <3>1
  <2>4. i = j
    BY <1>4, <2>1, <2>2, <2>3
  <2> QED
    BY <2>3, <2>4
<1>12. ASSUME NEW c \in Bucket PROVE IsCircle(w, c, new[c])
  <2>1. CASE c = b
    BY <1>5, <1>6, <1>8, <2>1
  <2>2. CASE c # b
    <3>1. PICK r \in Seq(Node) : r = lists[c]
      BY DEF Shape
    <3>2. c \in Ptr /\ r \in Seq(Ptr) /\ IsCircle(m, c, r)
      BY <3>1, ShapeFacts, HeadsAndNodes
    <3>3. ASSUME NEW q \in Ptr, q = c \/ Among(q, r)
          PROVE  w.next[q] = m.next[q] /\ w.prev[q] = m.prev[q]
      <4>1. CASE q = c
        <5>1. q # b /\ ~Among(q, s)
          BY <2>2, <4>1, HeadsAndNodes
        <5> QED
          BY <1>5, <5>1
      <4>2. CASE Among(q, r)
        <5>1. PICK i \in 1 .. Len(r) : r[i] = q
          BY <4>2 DEF Among
        <5>2. q \in Node /\ q # b
          BY <5>1, ElementOfSeq, HeadsAndNodes
        <5>3. ~Among(q, s)
          BY <1>1, <1>10, <2>2, <3>1, <5>1 DEF Among
        <5> QED
          BY <1>5, <5>2, <5>3
      <4> QED
        BY <3>3, <4>1, <4>2
    <3>4. IsCircle(w, c, r)
      BY ONLY <3>2, <3>3, SameCircle
    <3> QED
      BY <1>8, <2>2, <3>1, <3>4
  <2> QED
    BY <2>1, <2>2
<1>13. w = ListDel(m, lists[b][k])
  BY <1>1, <1>2
<1> QED
  BY <1>5, <1>7, <1>8, <1>11, <1>12, <1>13 DEF Shape, EveryOnce
-----------------------------------------------------------------------------
(* The messages between clients, server and upstream.                      *)

LEMMA FieldTypes ==
  ASSUME NEW q \in Queries
  PROVE  Proper(q) /\ \A rs \in Answers[q.name] : rs \in Seq(Records)
<1>1. /\ q.iden \in Word /\ q.name \in Seq(Label) /\ q.type \in Word
      /\ q.edns \in BOOLEAN /\ q.name \in DOMAIN Answers
  BY MessagesAssumption
<1>2. Answers[q.name] \subseteq Seq(Records)
  BY <1>1, MessagesAssumption
<1> QED
  BY ONLY <1>1, <1>2 DEF Proper

(* Both a query and its answer begin with the query's identifier.          *)
LEMMA QueryIden ==
  ASSUME NEW q \in Queries
  PROVE  Iden(WireQuery(q)) = q.iden
BY FieldTypes, QueryParsed

LEMMA AnswerIden ==
  ASSUME NEW q \in Queries, NEW rs \in Answers[q.name]
  PROVE  Iden(WireAnswer(q, rs)) = q.iden
<1>1. PICK m : m = WireAnswer(q, rs)
  OBVIOUS
<1>2. Proper(q) /\ rs \in Seq(Records)
  BY FieldTypes
<1>3. NumbersOf(m, q.iden, 129, 128, 1, Len(rs), 0, Len(Extras(q)))
  BY ONLY <1>1, <1>2, AnswerRead
<1> QED
  BY ONLY <1>1, <1>3 DEF NumbersOf
-----------------------------------------------------------------------------
(* Where the search for a node stops, and who is on a list.                *)

LEMMA FindEntryIs ==
  ASSUME NEW m, NEW h, NEW s \in Seq(Node), ForEach(m, h) = s, NEW hits
  PROVE  \/ FindEntry(m, h, hits) = h /\ \A k \in 1 .. Len(s) : s[k] \notin hits
         \/ \E k \in 1 .. Len(s) : /\ FindEntry(m, h, hits) = s[k] /\ s[k] \in hits
                                   /\ \A j \in 1 .. k - 1 : s[j] \notin hits
<1> DEFINE I == {i \in 1 .. Len(s) : s[i] \in hits}
           found == IF I # {} THEN Min(I) ELSE 0
<1>1. Len(s) \in Nat
  BY LenProperties
<1>2. SelectInSeq(s, LAMBDA p : p \in hits) = found
  BY DEF SelectInSeq
<1>3. FindEntry(m, h, hits) = IF found = 0 THEN h ELSE s[found]
  BY <1>2 DEF FindEntry
<1>4. CASE I = {}
  <2>1. found = 0
    BY <1>4
  <2> QED
    BY <1>3, <1>4, <2>1
<1>5. CASE I # {}
  <2>1. PICK k \in I : \A j \in I : k <= j
    <3>1. I \in SUBSET Nat
      BY <1>1
    <3> HIDE DEF I
    <3> QED
      BY <1>5, <3>1, LeastNat
  <2>2. Min(I) \in I /\ \A j \in I : Min(I) <= j
    BY <2>1 DEF Min
  <2>3. PICK l \in I : l = found /\ \A j \in I : l <= j
    BY <1>5, <2>2
  <2>4. l \in 1 .. Len(s) /\ s[l] \in hits /\ l # 0
    OBVIOUS
  <2>5. ASSUME NEW j \in 1 .. l - 1 PROVE s[j] \notin hits
    <3>1. j \in 1 .. Len(s) /\ ~ (l <= j)
      BY <1>1, <2>4
    <3> QED
      BY <2>3, <3>1
  <2>6. FindEntry(m, h, hits) = s[l]
    BY <1>3, <2>3, <2>4
  <2> QED
    BY <2>4, <2>5, <2>6
<1> QED
  BY <1>4, <1>5

LEMMA OnListAdded ==
  ASSUME NEW m, NEW lists, Shape(m, lists), NEW b \in Bucket, NEW e \in Node
  PROVE  /\ \A x : OnList(x, Added(lists, b, e)) <=> OnList(x, lists) \/ x = e
         /\ \A x : \A c \in Bucket :
              Among(x, Added(lists, b, e)[c]) <=> Among(x, lists[c]) \/ (c = b /\ x = e)
<1>1. PICK s \in Seq(Node) : s = lists[b]
  BY DEF Shape
<1>2. PICK t : /\ t = Append(s, e) /\ Len(t) = Len(s) + 1 /\ Len(s) \in Nat
               /\ t[Len(s) + 1] = e /\ \A i \in 1 .. Len(s) : t[i] = s[i]
  <2>1. PICK t : t = Append(s, e)
    OBVIOUS
  <2>2. t \in Seq(Node) /\ Len(t) = Len(s) + 1 /\ t[Len(s) + 1] = e
        /\ \A i \in 1 .. Len(s) : t[i] = s[i]
    BY <2>1, AppendProperties
  <2> QED
    BY <2>1, <2>2, LenProperties
<1>3. PICK new : new = Added(lists, b, e)
  OBVIOUS
<1>4. new[b] = t /\ \A c \in Bucket \ {b} : new[c] = lists[c]
  BY <1>1, <1>2, <1>3 DEF Added, Shape
<1>5. \A x : Among(x, t) <=> Among(x, s) \/ x = e
  BY <1>2 DEF Among
<1>6. ASSUME NEW x, NEW c \in Bucket
      PROVE  Among(x, new[c]) <=> Among(x, lists[c]) \/ (c = b /\ x = e)
  BY <1>1, <1>4, <1>5
<1> QED
  BY <1>3, <1>6 DEF OnList

LEMMA OnListTaken ==
  ASSUME NEW m, NEW lists, Shape(m, lists), NEW b \in Bucket, NEW k \in 1 .. Len(lists[b])
  PROVE  /\ \A x : OnList(x, Taken(lists, b, k)) <=> OnList(x, lists) /\ x # lists[b][k]
         /\ \A x : \A c \in Bucket :
              Among(x, Taken(lists, b, k)[c]) <=> Among(x, lists[c]) /\ x # lists[b][k]
<1>1. PICK s \in Seq(Node) : s = lists[b]
  BY DEF Shape
<1>2. k \in 1 .. Len(s) /\ Len(s) \in Nat
  BY <1>1, LenProperties
<1>3. PICK t : /\ t = Cut(s, k) /\ Len(t) = Len(s) - 1
               /\ \A i \in 1 .. Len(s) - 1 : t[i] = IF i < k THEN s[i] ELSE s[i + 1]
  <2>1. PICK t : t = Cut(s, k)
    OBVIOUS
  <2>2. Len(t) = Len(s) - 1 /\ \A i \in 1 .. Len(s) - 1 : t[i] = IF i < k THEN s[i] ELSE s[i + 1]
    BY ONLY s \in Seq(Node), <1>2, <2>1, CutProperties
  <2> QED
    BY <2>1, <2>2
<1>4. PICK new : new = Taken(lists, b, k)
  OBVIOUS
<1>5. new[b] = t /\ \A c \in Bucket \ {b} : new[c] = lists[c]
  BY <1>1, <1>3, <1>4 DEF Taken, Shape
<1>6. \A c, d \in Bucket : \A i \in 1 .. Len(lists[c]), j \in 1 .. Len(lists[d]) :
         lists[c][i] = lists[d][j] => c = d /\ i = j
  BY DEF Shape, EveryOnce
<1>7. ASSUME NEW x PROVE Among(x, t) <=> Among(x, s) /\ x # s[k]
  <2>1. ASSUME Among(x, t) PROVE Among(x, s) /\ x # s[k]
    <3>1. PICK i \in 1 .. Len(s) - 1 : t[i] = x
      BY <1>3, <2>1 DEF Among
    <3>2. PICK j \in 1 .. Len(s) : x = s[j] /\ j # k
      <4>1. i \in 1 .. Len(s) /\ i + 1 \in 1 .. Len(s) /\ (i < k => i # k) /\ (~ (i < k) => i + 1 # k)
        BY <1>2
      <4> QED
        BY <1>3, <3>1, <4>1
    <3> QED
      BY <1>1, <1>2, <1>6, <3>2 DEF Among
  <2>2. ASSUME Among(x, s), x # s[k] PROVE Among(x, t)
    <3>1. PICK j \in 1 .. Len(s) : s[j] = x /\ j # k
      BY <2>2 DEF Among
    <3>2. CASE j < k
      <4>1. j \in 1 .. Len(s) - 1
        BY <1>2, <3>2
      <4> QED
        BY <1>3, <3>1, <3>2, <4>1 DEF Among
    <3>3. CASE j > k
      <4>1. j - 1 \in 1 .. Len(s) - 1 /\ ~ (j - 1 < k) /\ (j - 1) + 1 = j
        BY <1>2, <3>3
      <4>2. t[j - 1] = x
        BY <1>3, <3>1, <4>1
      <4> QED
        BY <1>3, <4>1, <4>2 DEF Among
    <3> QED
      BY <1>2, <3>1, <3>2, <3>3
  <2> QED
    BY <2>1, <2>2
<1>8. ASSUME NEW x, NEW c \in Bucket PROVE Among(x, new[c]) <=> Among(x, lists[c]) /\ x # s[k]
  <2>1. CASE c = b
    BY <1>1, <1>5, <1>7, <2>1
  <2>2. CASE c # b
    <3>1. \A i \in 1 .. Len(lists[c]) : lists[c][i] # s[k]
      BY <1>1, <1>2, <1>6, <2>2
    <3> QED
      BY <1>5, <2>2, <3>1 DEF Among
  <2> QED
    BY <2>1, <2>2
<1> QED
  BY <1>1, <1>4, <1>8 DEF OnList
-----------------------------------------------------------------------------
(* The rings.                                                              *)

LEMMA RingIn ==
  ASSUME NEW s \in Seq(Node), Distinct(s), NEW e \in Node, ~Among(e, s)
  PROVE  /\ Append(s, e) \in Seq(Node) /\ Distinct(Append(s, e))
         /\ \A x : Among(x, Append(s, e)) <=> Among(x, s) \/ x = e
<1>1. PICK t : t = Append(s, e)
  OBVIOUS
<1>2. t \in Seq(Node) /\ Len(t) = Len(s) + 1 /\ t[Len(s) + 1] = e
      /\ \A i \in 1 .. Len(s) : t[i] = s[i]
  BY <1>1, AppendProperties
<1>3. Len(s) \in Nat
  BY LenProperties
<1>4. \A i, j \in 1 .. Len(s) : s[i] = s[j] => i = j
  BY DEF Distinct
<1>5. \A i \in 1 .. Len(s) : s[i] # e
  BY DEF Among
<1>6. Distinct(t)
  BY <1>2, <1>3, <1>4, <1>5 DEF Distinct
<1>7. \A x : Among(x, t) <=> Among(x, s) \/ x = e
  BY <1>2, <1>3 DEF Among
<1> QED
  BY <1>1, <1>2, <1>6, <1>7

LEMMA RingOut ==
  ASSUME NEW s \in Seq(Node), Distinct(s), s # << >>
  PROVE  /\ Head(s) \in Node /\ Among(Head(s), s)
         /\ Tail(s) \in Seq(Node) /\ Distinct(Tail(s))
         /\ \A x : Among(x, Tail(s)) <=> Among(x, s) /\ x # Head(s)
<1>1. PICK h, t : h = Head(s) /\ t = Tail(s)
  OBVIOUS
<1>2. /\ h \in Node /\ h = s[1] /\ t \in Seq(Node) /\ Len(t) = Len(s) - 1
      /\ \A i \in 1 .. Len(t) : t[i] = s[i + 1]
  BY <1>1, HeadTailProperties
<1>3. PICK n \in Nat : n = Len(s) /\ n >= 1
  BY EmptySeq, LenProperties
<1>4. \A i, j \in 1 .. n : s[i] = s[j] => i = j
  BY <1>3 DEF Distinct
<1>5. Among(h, s)
  BY <1>2, <1>3 DEF Among
<1>6. Distinct(t)
  <2> SUFFICES ASSUME NEW i \in 1 .. n - 1, NEW j \in 1 .. n - 1, t[i] = t[j] PROVE i = j
    BY <1>2, <1>3 DEF Distinct
  <2>1. i + 1 \in 1 .. n /\ j + 1 \in 1 .. n /\ t[i] = s[i + 1] /\ t[j] = s[j + 1]
    BY <1>2, <1>3
  <2>2. i + 1 = j + 1
    BY <1>4, <2>1
  <2> QED
    BY <2>2
<1>7. ASSUME NEW x PROVE Among(x, t) <=> Among(x, s) /\ x # h
  <2>1. ASSUME Among(x, t) PROVE Among(x, s) /\ x # h
    <3>1. PICK i \in 1 .. n - 1 : t[i] = x
      BY <1>2, <1>3, <2>1 DEF Among
    <3>2. i + 1 \in 1 .. n /\ 1 \in 1 .. n /\ i + 1 # 1 /\ x = s[i + 1]
      BY <1>2, <1>3, <3>1
    <3> QED
      BY <1>2, <1>3, <1>4, <3>2 DEF Among
  <2>2. ASSUME Among(x, s), x # h PROVE Among(x, t)
    <3>1. PICK i \in 1 .. n : s[i] = x /\ i # 1
      BY <1>2, <1>3, <2>2 DEF Among
    <3>2. i - 1 \in 1 .. n - 1 /\ (i - 1) + 1 = i
      BY <1>3, <3>1
    <3>3. t[i - 1] = x
      BY <1>2, <1>3, <3>1, <3>2
    <3> QED
      BY <1>2, <1>3, <3>2, <3>3 DEF Among
  <2> QED
    BY <2>1, <2>2
<1> QED
  BY <1>1, <1>2, <1>5, <1>6, <1>7
-----------------------------------------------------------------------------
(* The inductive invariant: which requests and nodes can be where.         *)

Received == 1 .. Len(queries)
IdenOf(r) == queries[r].iden
ArrivedFor == {a.request : a \in arrived}
Waits(n) == Among(n, inbox) \/ OnList(n, Listed)

(* A node is in one of the rings or on one list, and there once.           *)
OwnedOnce ==
  /\ inbox \in Seq(Node) /\ Distinct(inbox)
  /\ outbox \in Seq(Node) /\ Distinct(outbox)
  /\ Shape(mem, Listed)
  /\ \A n \in Node : /\ Among(n, inbox) => ~OnList(n, Listed)
                     /\ Among(n, outbox) => ~Waits(n)

(* What a node carries: its own request, and while it waits the request's  *)
(* identifier, by which it is filed.                                       *)
Fields == DOMAIN node = Node /\ \A n \in Node : DOMAIN node[n] = DOMAIN Unused
Carried ==
  \A n \in Node :
    /\ Waits(n) => node[n].request \in Received /\ node[n].iden = IdenOf(node[n].request)
    /\ Among(n, outbox) => node[n].request \in Received
    /\ \A b \in Bucket : Among(n, Listed[b]) => BucketOf[node[n].iden] = b

(* A request goes to upstream once, and there is one answer to it, besides *)
(* the copies.                                                             *)
Requests ==
  /\ queries \in Seq(Queries) /\ Len(queries) <= MaxQueries
  /\ asked \cup lost \cup dups \cup ArrivedFor \subseteq Received
  /\ asked \cap lost = {} /\ asked \cap ArrivedFor = {}
  /\ \A n \in Node : Among(n, inbox) => node[n].request \notin asked \cup lost \cup ArrivedFor
  /\ \A n, k \in Node :
       Among(n, inbox) /\ Among(k, inbox) /\ node[n].request = node[k].request => n = k
InFlight ==
  /\ IsFiniteSet(arrived)
  /\ \A a \in arrived :
       /\ a = [request |-> a.request, records |-> a.records, copy |-> a.copy]
       /\ a.records \in Answers[queries[a.request].name]
       /\ a.copy \in BOOLEAN /\ (a.copy => a.request \in dups)

WaitsFor(i) == {n \in Node : OnList(n, Listed) /\ node[n].iden = i}
AnswersFor(i) == {a \in arrived : IdenOf(a.request) = i}
With(qs, T, i) == {r \in T : qs[r].iden = i}
CountIn(qs, T, i) == Cardinality(With(qs, T, i))
Counted ==
  \A i \in Idens :
    Cardinality(WaitsFor(i)) + CountIn(queries, dups, i)
    = CountIn(queries, asked, i) + CountIn(queries, lost, i) + Cardinality(AnswersFor(i))

ListInv == OwnedOnce /\ Fields /\ Carried /\ Requests /\ InFlight
ForwardInv == ListInv /\ Counted
LEMMA FieldNames ==
  DOMAIN Unused = {"request", "data", "host", "iden", "ipv4", "answer"}
BY DEF Unused

LEMMA ListedIs ==
  ASSUME OwnedOnce
  PROVE  /\ Shape(mem, Listed)
         /\ \A b \in Bucket : Listed[b] = ForEach(mem, b) /\ Listed[b] \in Seq(Node)
BY DEF OwnedOnce, Shape, Listed

LEMMA EmptyLists ==
  ASSUME NEW m \in Memory, \A b \in Bucket : m.next[b] = b /\ m.prev[b] = b
  PROVE  Shape(m, [b \in Bucket |-> << >>])
<1>1. PICK lists : lists = [b \in Bucket |-> << >>]
  OBVIOUS
<1>2. lists \in [Bucket -> Seq(Node)] /\ \A b \in Bucket : lists[b] = << >> /\ Len(lists[b]) = 0
  BY <1>1, EmptySeq
<1>3. EveryOnce(lists)
  BY <1>2 DEF EveryOnce
<1>4. ASSUME NEW b \in Bucket PROVE IsCircle(m, b, << >>)
  <2>1. \A i : Place(b, << >>, i) = b
    BY DEF Place
  <2>2. << >> \in Seq(Ptr) /\ b \in Ptr
    BY EmptySeq, HeadsAndNodes
  <2>3. PICK s \in Seq(Ptr) : s = << >>
    BY <2>2
  <2>4. \A i \in 0 .. Len(s) : m.next[Place(b, s, i)] = Place(b, s, i + 1)
                               /\ m.prev[Place(b, s, i + 1)] = Place(b, s, i)
    BY <2>1, <2>3
  <2> QED
    BY <2>2, <2>3, <2>4, CirclePlaces
<1> QED
  BY <1>1, <1>2, <1>3, <1>4 DEF Shape

LEMMA ForwardInvInit == Init => ForwardInv
<1> SUFFICES ASSUME Init PROVE ForwardInv
  OBVIOUS
<1> USE DEF Init
<1>1. mem \in Memory /\ \A b \in Bucket : mem.next[b] = b /\ mem.prev[b] = b
  <2>1. PICK link : link = [p \in Ptr |-> IF p \in Bucket THEN p ELSE Null]
    OBVIOUS
  <2>2. link \in [Ptr -> Ptr \cup {Null}] /\ \A b \in Bucket : link[b] = b
    BY <2>1, HeadsAndNodes
  <2>3. mem = [next |-> link, prev |-> link]
    BY <2>1
  <2> QED
    BY <2>2, <2>3 DEF Memory
<1>2. Shape(mem, [b \in Bucket |-> << >>])
  BY <1>1, EmptyLists
<1>3. Listed = [b \in Bucket |-> << >>]
  BY <1>2, ShapeListed DEF Listed
<1>4. \A x : ~Among(x, << >>)
  BY DEF Among
<1>5. \A x : ~OnList(x, Listed) /\ \A b \in Bucket : ~Among(x, Listed[b])
  BY <1>3, <1>4 DEF OnList
<1>6. \A x : ~Waits(x)
  BY <1>4, <1>5 DEF Waits
<1>7. OwnedOnce
  <2>1. << >> \in Seq(Node) /\ Distinct(<< >>)
    BY EmptySeq DEF Distinct
  <2> QED
    BY <1>2, <1>3, <1>4, <2>1 DEF OwnedOnce
<1>8. Fields
  BY DEF Fields
<1>9. Carried
  BY <1>4, <1>5, <1>6 DEF Carried
<1>10. ArrivedFor = {}
  BY DEF ArrivedFor
<1>11. Requests
  <2>1. queries \in Seq(Queries) /\ Len(queries) <= MaxQueries
    BY EmptySeq, ForwardAssumption
  <2> QED
    BY <1>4, <1>10, <2>1 DEF Requests
<1>12. InFlight
  BY FS_EmptySet DEF InFlight
<1>13. Counted
  <2> SUFFICES ASSUME NEW i \in Idens
               PROVE  Cardinality(WaitsFor(i)) + CountIn(queries, dups, i)
                      = CountIn(queries, asked, i) + CountIn(queries, lost, i)
                        + Cardinality(AnswersFor(i))
    BY DEF Counted
  <2>1. WaitsFor(i) = {} /\ AnswersFor(i) = {}
    BY <1>5 DEF WaitsFor, AnswersFor
  <2>2. CountIn(queries, {}, i) = Cardinality({})
    <3>1. With(queries, {}, i) = {}
      BY DEF With
    <3> QED
      BY <3>1 DEF CountIn
  <2>3. Cardinality({}) = 0
    BY FS_EmptySet
  <2> QED
    BY <2>1, <2>2, <2>3
<1> QED
  BY <1>7, <1>8, <1>9, <1>11, <1>12, <1>13 DEF ForwardInv, ListInv

(* Where no query comes in, old requests keep their identifiers; where one *)
(* does, too.                                                              *)
LEMMA QueryAppended ==
  ASSUME Requests, NEW q \in Queries, queries' = Append(queries, q)
  PROVE  /\ Len(queries') = Len(queries) + 1 /\ Len(queries) \in Nat
         /\ queries' \in Seq(Queries)
         /\ \A r \in Received : r \in Received' /\ queries'[r] = queries[r] /\ IdenOf(r)' = IdenOf(r)
         /\ Len(queries') \in Received' /\ Len(queries') \notin Received
         /\ queries'[Len(queries')] = q
<1>1. queries \in Seq(Queries) /\ Len(queries) \in Nat
  BY LenProperties DEF Requests
<1>2. /\ queries' \in Seq(Queries) /\ Len(queries') = Len(queries) + 1
      /\ queries'[Len(queries) + 1] = q
      /\ \A r \in 1 .. Len(queries) : queries'[r] = queries[r]
  <2>1. PICK t : t = Append(queries, q)
    OBVIOUS
  <2>2. /\ t \in Seq(Queries) /\ Len(t) = Len(queries) + 1 /\ t[Len(queries) + 1] = q
        /\ \A r \in 1 .. Len(queries) : t[r] = queries[r]
    BY <1>1, <2>1, AppendProperties
  <2> QED
    BY <2>1, <2>2
<1> QED
  BY <1>1, <1>2 DEF Received, IdenOf

(* An unused node is nowhere.                                              *)
LEMMA UnusedNowhere ==
  ASSUME ListInv, NEW n \in Node, node[n] = Unused
  PROVE  ~Waits(n) /\ ~Among(n, inbox) /\ ~Among(n, outbox) /\ ~OnList(n, Listed)
<1>1. node[n].request = 0
  BY DEF Unused
<1>2. 0 \notin Received
  BY DEF Received
<1> QED
  BY <1>1, <1>2 DEF ListInv, Carried, Waits
(* A query comes in: the node it is in was nowhere before.                 *)
LEMMA ReceiveKeeps ==
  ASSUME ListInv, NEW q \in Queries, NEW n \in Node, Receive(q, n),
         NEW rec, DOMAIN rec = DOMAIN Unused, rec.request = Len(queries'),
         node' = [node EXCEPT ![n] = rec],
         \/ inbox' = inbox /\ outbox' = outbox
         \/ inbox' = Append(inbox, n) /\ outbox' = outbox /\ rec.iden = q.iden
         \/ inbox' = inbox /\ outbox' = Append(outbox, n)
  PROVE  ListInv' /\ Listed' = Listed
<1>1. OwnedOnce /\ Fields /\ Carried /\ Requests /\ InFlight
  BY DEF ListInv
<1>2. /\ mem' = mem /\ asked' = asked /\ arrived' = arrived /\ lost' = lost /\ dups' = dups
      /\ queries' = Append(queries, q) /\ Len(queries) < MaxQueries /\ node[n] = Unused
  BY DEF Receive, network
<1>3. Listed' = Listed
  BY <1>2 DEF Listed
<1>4. ~Waits(n) /\ ~Among(n, inbox) /\ ~Among(n, outbox) /\ ~OnList(n, Listed)
  BY <1>2, UnusedNowhere
<1>5. /\ Len(queries') = Len(queries) + 1 /\ Len(queries) \in Nat
      /\ queries' \in Seq(Queries)
      /\ \A r \in Received : r \in Received' /\ queries'[r] = queries[r] /\ IdenOf(r)' = IdenOf(r)
      /\ Len(queries') \in Received' /\ Len(queries') \notin Received
      /\ queries'[Len(queries')] = q
  BY <1>1, <1>2, QueryAppended
<1>6. node'[n] = rec /\ DOMAIN node' = Node /\ \A k \in Node \ {n} : node'[k] = node[k]
  BY <1>1 DEF Fields
<1>7. /\ inbox \in Seq(Node) /\ Distinct(inbox) /\ outbox \in Seq(Node) /\ Distinct(outbox)
      /\ Shape(mem, Listed)
  BY <1>1 DEF OwnedOnce
<1>8. /\ inbox' \in Seq(Node) /\ Distinct(inbox)' /\ outbox' \in Seq(Node) /\ Distinct(outbox)'
      /\ \A k \in Node : k # n => (Among(k, inbox') <=> Among(k, inbox))
                                  /\ (Among(k, outbox') <=> Among(k, outbox))
      /\ ~ (Among(n, inbox') /\ Among(n, outbox'))
      /\ Among(n, inbox') => rec.iden = q.iden
  <2>1. CASE inbox' = inbox /\ outbox' = outbox
    BY <1>4, <1>7, <2>1
  <2>2. CASE inbox' = Append(inbox, n) /\ outbox' = outbox /\ rec.iden = q.iden
    <3>1. /\ Append(inbox, n) \in Seq(Node) /\ Distinct(Append(inbox, n))
          /\ \A x : Among(x, Append(inbox, n)) <=> Among(x, inbox) \/ x = n
      BY <1>4, <1>7, RingIn
    <3> QED
      BY <1>4, <1>7, <2>2, <3>1
  <2>3. CASE inbox' = inbox /\ outbox' = Append(outbox, n)
    <3>1. /\ Append(outbox, n) \in Seq(Node) /\ Distinct(Append(outbox, n))
          /\ \A x : Among(x, Append(outbox, n)) <=> Among(x, outbox) \/ x = n
      BY <1>4, <1>7, RingIn
    <3> QED
      BY <1>4, <1>7, <2>3, <3>1
  <2> QED
    BY <2>1, <2>2, <2>3
<1>9. /\ \A k \in Node : k # n => (Waits(k)' <=> Waits(k))
      /\ Waits(n)' <=> Among(n, inbox')
      /\ ~OnList(n, Listed)'
  BY <1>3, <1>4, <1>8 DEF Waits
<1>10. OwnedOnce'
  <2>1. ASSUME NEW k \in Node
        PROVE  (Among(k, inbox') => ~OnList(k, Listed')) /\ (Among(k, outbox') => ~Waits(k)')
    <3>1. CASE k = n
      BY <1>3, <1>4, <1>8, <1>9, <3>1
    <3>2. CASE k # n
      BY <1>1, <1>3, <1>8, <1>9, <3>2 DEF OwnedOnce
    <3> QED
      BY <3>1, <3>2
  <2> QED
    BY <1>2, <1>3, <1>7, <1>8, <2>1 DEF OwnedOnce
<1>11. Fields'
  <2>1. ASSUME NEW k \in Node PROVE DOMAIN node'[k] = DOMAIN Unused
    BY <1>1, <1>6 DEF Fields
  <2> QED
    BY <1>6, <2>1 DEF Fields
<1>12. Carried'
  <2>1. ASSUME NEW k \in Node
        PROVE  /\ Waits(k)' => node'[k].request \in Received' /\ node'[k].iden = IdenOf(node[k].request)'
               /\ Among(k, outbox') => node'[k].request \in Received'
               /\ \A b \in Bucket : Among(k, Listed'[b]) => BucketOf[node'[k].iden] = b
    <3>1. CASE k = n
      <4>1. node'[k].request = Len(queries') /\ Len(queries') \in Received'
        BY <1>5, <1>6, <3>1
      <4>2. Waits(k)' => node'[k].iden = q.iden
        BY <1>6, <1>8, <1>9, <3>1
      <4>3. IdenOf(node[k].request)' = q.iden
        BY <1>5, <4>1 DEF IdenOf
      <4>4. \A b \in Bucket : ~Among(k, Listed'[b])
        BY <1>3, <1>4, <3>1 DEF OnList
      <4> QED
        BY <4>1, <4>2, <4>3, <4>4
    <3>2. CASE k # n
      <4>1. node'[k] = node[k]
        BY <1>6, <3>2
      <4>2. /\ Waits(k) => node[k].request \in Received /\ node[k].iden = IdenOf(node[k].request)
            /\ Among(k, outbox) => node[k].request \in Received
            /\ \A b \in Bucket : Among(k, Listed[b]) => BucketOf[node[k].iden] = b
        BY <1>1 DEF Carried
      <4>3. node[k].request \in Received =>
              node[k].request \in Received' /\ IdenOf(node[k].request)' = IdenOf(node[k].request)
        BY <1>5, <4>1 DEF IdenOf
      <4> QED
        BY <1>3, <1>8, <1>9, <3>2, <4>1, <4>2, <4>3
    <3> QED
      BY <3>1, <3>2
  <2> QED
    BY <2>1 DEF Carried
<1>13. ArrivedFor' = ArrivedFor
  BY <1>2 DEF ArrivedFor
<1>14. Requests'
  <2>1. ASSUME NEW k \in Node, Among(k, inbox')
        PROVE  node'[k].request \notin asked \cup lost \cup ArrivedFor
    <3>1. CASE k = n
      <4>1. Len(queries') \notin asked \cup lost \cup ArrivedFor
        BY <1>1, <1>5 DEF Requests
      <4> QED
        BY <1>6, <3>1, <4>1
    <3>2. CASE k # n
      BY <1>1, <1>6, <1>8, <2>1, <3>2 DEF Requests
    <3> QED
      BY <3>1, <3>2
  <2>2. ASSUME NEW k \in Node, k # n, Among(k, inbox') PROVE node'[k].request \in Received
    BY <1>1, <1>6, <1>8, <2>2 DEF Carried, Waits
  <2>3. ASSUME NEW k \in Node, NEW l \in Node, Among(k, inbox'), Among(l, inbox'),
               node'[k].request = node'[l].request
        PROVE  k = l
    <3>1. node'[n].request \notin Received
      BY <1>5, <1>6
    <3>2. CASE k = n \/ l = n
      BY <2>2, <2>3, <3>1, <3>2
    <3>3. CASE k # n /\ l # n
      BY <1>1, <1>6, <1>8, <2>3, <3>3 DEF Requests
    <3> QED
      BY <3>2, <3>3
  <2>4. Len(queries') <= MaxQueries
    BY <1>2, <1>5, ForwardAssumption
  <2>5. asked \cup lost \cup dups \cup ArrivedFor \subseteq Received'
    BY <1>1, <1>5 DEF Requests
  <2> QED
    BY <1>1, <1>2, <1>5, <1>13, <2>1, <2>3, <2>4, <2>5 DEF Requests
<1>15. InFlight'
  <2>1. ASSUME NEW a \in arrived
        PROVE  /\ a = [request |-> a.request, records |-> a.records, copy |-> a.copy]
               /\ a.records \in Answers[queries'[a.request].name]
               /\ a.copy \in BOOLEAN /\ (a.copy => a.request \in dups)
    <3>1. a.request \in Received
      BY <1>1 DEF Requests, ArrivedFor
    <3>2. queries'[a.request] = queries[a.request]
      BY <1>5, <3>1
    <3> QED
      BY <1>1, <3>2 DEF InFlight
  <2> QED
    BY <1>1, <1>2, <2>1 DEF InFlight
<1> QED
  BY <1>3, <1>10, <1>11, <1>12, <1>14, <1>15 DEF ListInv
LEMMA ParseRejectsKeeps ==
  ASSUME ListInv, NEW q \in Queries, NEW n \in Node, ParseRejects(q, n)
  PROVE  ListInv' /\ Listed' = Listed
<1>1. PICK rec : rec = [Unused EXCEPT !.request = Len(queries'), !.data = WireQuery(q)]
  OBVIOUS
<1>2. DOMAIN rec = DOMAIN Unused /\ rec.request = Len(queries')
  BY <1>1 DEF Unused
<1>3. Receive(q, n) /\ node' = [node EXCEPT ![n] = rec] /\ inbox' = inbox /\ outbox' = outbox
  BY <1>1 DEF ParseRejects
<1> QED
  BY ONLY ListInv, q \in Queries, n \in Node, <1>2, <1>3, ReceiveKeeps

LEMMA ParseRoutesKeeps ==
  ASSUME ListInv, NEW q \in Queries, NEW n \in Node, ParseRoutes(q, n)
  PROVE  ListInv' /\ Listed' = Listed
<1>1. PICK h, a, m : m = WireQuery(q) /\ h = Question(m).host /\ a = Search(h)
  OBVIOUS
<1>2. PICK rec : rec = [request |-> Len(queries'), data |-> m, host |-> h, iden |-> Iden(m),
                        ipv4 |-> a, answer |-> {}]
  OBVIOUS
<1>3. DOMAIN rec = DOMAIN Unused /\ rec.request = Len(queries') /\ rec.iden = q.iden
  <2>1. Iden(m) = q.iden
    BY <1>1, QueryIden
  <2> QED
    BY <1>2, <2>1 DEF Unused
<1>4. Receive(q, n) /\ node' = [node EXCEPT ![n] = rec]
  BY <1>1, <1>2 DEF ParseRoutes
<1>5. \/ inbox' = Append(inbox, n) /\ outbox' = outbox
      \/ inbox' = inbox /\ outbox' = Append(outbox, n)
  BY DEF ParseRoutes
<1> QED
  BY ONLY ListInv, q \in Queries, n \in Node, <1>3, <1>4, <1>5, ReceiveKeeps

(* The forwarder lists the node at the head of its ring.                   *)
Files(n, b) ==
  /\ n = Head(inbox) /\ Among(n, inbox) /\ ~OnList(n, Listed)
  /\ node[n].request \in Received /\ node[n].iden = IdenOf(node[n].request)
  /\ node[n].iden \in Idens /\ b = BucketOf[node[n].iden]
  /\ asked' = asked \cup {node[n].request}
  /\ Shape(mem', Listed') /\ Listed' = Added(Listed, b, n)
  /\ \A x : OnList(x, Listed') <=> OnList(x, Listed) \/ x = n
  /\ \A x : \A c \in Bucket :
       Among(x, Listed'[c]) <=> Among(x, Listed[c]) \/ (c = b /\ x = n)
  /\ \A k \in Node : node'[k].request = node[k].request /\ node'[k].iden = node[k].iden
  /\ DOMAIN node' = Node /\ \A k \in Node : DOMAIN node'[k] = DOMAIN Unused

LEMMA AskFacts ==
  ASSUME ListInv, GetHostAddr
  PROVE  \E n \in Node, b \in Bucket : Files(n, b)
<1>1. OwnedOnce /\ Fields /\ Carried /\ Requests /\ InFlight
  BY DEF ListInv
<1>2. inbox \in Seq(Node) /\ Distinct(inbox) /\ inbox # << >> /\ Shape(mem, Listed)
  BY <1>1 DEF OwnedOnce, GetHostAddr
<1>3. PICK n \in Node : n = Head(inbox) /\ Among(n, inbox)
  BY <1>2, RingOut
<1>4. /\ node' = [node EXCEPT ![n].data = AskRecursion(@)]
      /\ mem' = ListAddTail(mem, n, BucketOf[node[n].iden])
      /\ asked' = asked \cup {node[n].request}
  BY <1>3 DEF GetHostAddr
<1>5. /\ node[n].request \in Received /\ node[n].iden = IdenOf(node[n].request)
      /\ ~OnList(n, Listed)
  BY <1>1, <1>3 DEF Carried, Waits, OwnedOnce
<1>6. node[n].iden \in Idens
  <2>1. queries[node[n].request] \in Queries
    BY <1>1, <1>5, ElementOfSeq DEF Requests, Received
  <2> QED
    BY <1>5, <2>1 DEF Idens, IdenOf
<1>7. PICK b \in Bucket : b = BucketOf[node[n].iden]
  BY <1>6, ForwardAssumption
<1>8. Shape(mem', Added(Listed, b, n))
  <2>1. Shape(ListAddTail(mem, n, b), Added(Listed, b, n))
    BY <1>2, <1>5, ShapeAdd
  <2> QED
    BY <1>4, <1>7, <2>1
<1>9. Listed' = Added(Listed, b, n)
  <2>1. [c \in Bucket |-> ForEach(mem', c)] = Added(Listed, b, n)
    BY <1>8, ShapeListed
  <2> QED
    BY <2>1 DEF Listed
<1>10. /\ \A x : OnList(x, Listed') <=> OnList(x, Listed) \/ x = n
       /\ \A x : \A c \in Bucket :
            Among(x, Listed'[c]) <=> Among(x, Listed[c]) \/ (c = b /\ x = n)
  <2>1. /\ \A x : OnList(x, Added(Listed, b, n)) <=> OnList(x, Listed) \/ x = n
        /\ \A x : \A c \in Bucket :
             Among(x, Added(Listed, b, n)[c]) <=> Among(x, Listed[c]) \/ (c = b /\ x = n)
    BY <1>2, OnListAdded
  <2> QED
    BY <1>9, <2>1
<1>11. PICK v : node' = [node EXCEPT ![n] = [node[n] EXCEPT !.data = v]]
  BY <1>4
<1>12. /\ \A k \in Node : node'[k].request = node[k].request /\ node'[k].iden = node[k].iden
       /\ DOMAIN node' = Node /\ \A k \in Node : DOMAIN node'[k] = DOMAIN Unused
  BY <1>1, <1>11, FieldNames DEF Fields
<1>13. Files(n, b)
  BY <1>3, <1>4, <1>5, <1>6, <1>7, <1>8, <1>9, <1>10, <1>12 DEF Files
<1> QED
  BY <1>13

LEMMA GetHostAddrKeeps ==
  ASSUME ListInv, GetHostAddr
  PROVE  ListInv'
<1>1. OwnedOnce /\ Fields /\ Carried /\ Requests /\ InFlight
  BY DEF ListInv
<1>2. PICK n \in Node, b \in Bucket :
           /\ n = Head(inbox) /\ Among(n, inbox) /\ ~OnList(n, Listed)
           /\ node[n].request \in Received /\ node[n].iden = IdenOf(node[n].request)
           /\ node[n].iden \in Idens /\ b = BucketOf[node[n].iden]
           /\ asked' = asked \cup {node[n].request}
           /\ Shape(mem', Listed') /\ Listed' = Added(Listed, b, n)
           /\ \A x : OnList(x, Listed') <=> OnList(x, Listed) \/ x = n
           /\ \A x : \A c \in Bucket :
                Among(x, Listed'[c]) <=> Among(x, Listed[c]) \/ (c = b /\ x = n)
           /\ \A k \in Node : node'[k].request = node[k].request /\ node'[k].iden = node[k].iden
           /\ DOMAIN node' = Node /\ \A k \in Node : DOMAIN node'[k] = DOMAIN Unused
  BY AskFacts DEF Files
<1>3. /\ inbox \in Seq(Node) /\ Distinct(inbox) /\ inbox # << >> /\ inbox' = Tail(inbox)
      /\ outbox' = outbox /\ arrived' = arrived /\ lost' = lost /\ dups' = dups
      /\ queries' = queries
  BY <1>1 DEF OwnedOnce, GetHostAddr, history
<1>4. /\ inbox' \in Seq(Node) /\ Distinct(inbox)'
      /\ \A x : Among(x, inbox') <=> Among(x, inbox) /\ x # n
  BY <1>2, <1>3, RingOut
<1>5. \A x : Waits(x)' <=> Waits(x)
  <2>1. \A x : Waits(x)' <=> Among(x, inbox') \/ OnList(x, Listed')
    BY DEF Waits
  <2> QED
    BY <1>2, <1>4, <2>1 DEF Waits
<1>6. Received' = Received /\ ArrivedFor' = ArrivedFor /\ \A r : IdenOf(r)' = IdenOf(r)
  BY <1>3 DEF Received, ArrivedFor, IdenOf
<1>7. OwnedOnce'
  BY <1>1, <1>2, <1>3, <1>4, <1>5 DEF OwnedOnce
<1>8. Fields'
  BY <1>2 DEF Fields
<1>9. Carried'
  <2>1. ASSUME NEW k \in Node
        PROVE  /\ Waits(k)' => node'[k].request \in Received' /\ node'[k].iden = IdenOf(node[k].request)'
               /\ Among(k, outbox') => node'[k].request \in Received'
               /\ \A c \in Bucket : Among(k, Listed'[c]) => BucketOf[node'[k].iden] = c
    <3>1. IdenOf(node[k].request)' = IdenOf(node[k].request)
      BY <1>2, <1>3 DEF IdenOf
    <3>2. /\ Waits(k) => node[k].request \in Received /\ node[k].iden = IdenOf(node[k].request)
          /\ Among(k, outbox) => node[k].request \in Received
          /\ \A c \in Bucket : Among(k, Listed[c]) => BucketOf[node[k].iden] = c
      BY <1>1 DEF Carried
    <3>3. node'[k].request = node[k].request /\ node'[k].iden = node[k].iden
      BY <1>2
    <3>4. Waits(k)' => node'[k].request \in Received' /\ node'[k].iden = IdenOf(node[k].request)'
      BY <1>5, <1>6, <3>1, <3>2, <3>3
    <3>5. Among(k, outbox') => node'[k].request \in Received'
      BY ONLY <1>3, <1>6, <3>2, <3>3, Zenon
    <3>6. ASSUME NEW c \in Bucket, Among(k, Listed'[c]) PROVE BucketOf[node'[k].iden] = c
      <4>1. CASE Among(k, Listed[c])
        BY <3>2, <3>3, <4>1
      <4>2. CASE c = b /\ k = n
        BY ONLY <1>2, <3>3, <4>2, k \in Node, Zenon
      <4> QED
        BY <1>2, <3>6, <4>1, <4>2
    <3> QED
      BY ONLY <3>4, <3>5, <3>6, ZenonT(60)
  <2> QED
    BY <2>1 DEF Carried
<1>10. Requests'
  <2>1. asked' \cap lost = {} /\ asked' \cap ArrivedFor = {}
    BY <1>1, <1>2 DEF Requests
  <2>2. ASSUME NEW k \in Node, Among(k, inbox')
        PROVE  node'[k].request \notin asked' \cup lost \cup ArrivedFor
    <3>1. node[k].request # node[n].request
      BY <1>1, <1>2, <1>4, <2>2 DEF Requests
    <3> QED
      BY <1>1, <1>2, <1>4, <2>2, <3>1 DEF Requests
  <2>3. ASSUME NEW k \in Node, NEW l \in Node, Among(k, inbox'), Among(l, inbox'),
               node'[k].request = node'[l].request
        PROVE  k = l
    BY <1>1, <1>2, <1>4, <2>3 DEF Requests
  <2> QED
    BY SMTT(60), <1>1, <1>2, <1>3, <1>6, <2>1, <2>2, <2>3 DEF Requests
<1>11. InFlight'
  BY <1>1, <1>3 DEF InFlight
<1> QED
  BY <1>7, <1>8, <1>9, <1>10, <1>11 DEF ListInv
(* The forwarder finds the oldest node with the answer's identifier.       *)
Serves(a, i, b, k, n) ==
  /\ i = IdenOf(a.request) /\ b = BucketOf[i] /\ n = Listed[b][k]
  /\ node[n].iden = i /\ \A j \in 1 .. k - 1 : node[Listed[b][j]].iden # i
  /\ OnList(n, Listed) /\ Among(n, Listed[b])
  /\ node[n].request \in Received
  /\ outbox' = Append(outbox, n) /\ released' = Append(released, node[n].request)
  /\ Shape(mem', Listed') /\ Listed' = Taken(Listed, b, k)
  /\ \A x : OnList(x, Listed') <=> OnList(x, Listed) /\ x # n
  /\ \A x : \A c \in Bucket : Among(x, Listed'[c]) <=> Among(x, Listed[c]) /\ x # n
  /\ \A l \in Node : node'[l].request = node[l].request /\ node'[l].iden = node[l].iden
  /\ DOMAIN node' = Node /\ \A l \in Node : DOMAIN node'[l] = DOMAIN Unused

LEMMA ResponseFacts ==
  ASSUME ListInv, NEW a \in arrived, ParseResponse(a)
  PROVE  \E i \in Idens, b \in Bucket : \E k \in 1 .. Len(Listed[b]) : \E n \in Node :
           Serves(a, i, b, k, n)
<1>1. OwnedOnce /\ Fields /\ Carried /\ Requests /\ InFlight
  BY DEF ListInv
<1>2. PICK i : i = IdenOf(a.request)
  OBVIOUS
<1>3. i \in Idens /\ Iden(AnswerOctets(a)) = i
  <2>1. a.request \in Received
    BY <1>1 DEF Requests, ArrivedFor
  <2>2. PICK q \in Queries : q = queries[a.request]
    BY <1>1, <2>1, ElementOfSeq DEF Requests, Received
  <2>3. a.records \in Answers[q.name]
    BY <1>1, <2>2 DEF InFlight
  <2>4. Iden(WireAnswer(q, a.records)) = q.iden
    BY <2>3, AnswerIden
  <2> QED
    BY <1>2, <2>2, <2>4 DEF AnswerOctets, IdenOf, Idens
<1>4. PICK b \in Bucket : b = BucketOf[i]
  BY <1>3, ForwardAssumption
<1>5. PICK s \in Seq(Node) : s = Listed[b] /\ ForEach(mem, b) = s
  BY <1>1, ListedIs
<1>6. PICK n \in Node : n = Item(i) /\ n = FindEntry(mem, b, {l \in Node : IsFor(l, i)})
  BY <1>3, <1>4 DEF ParseResponse, Item
<1>7. PICK k \in 1 .. Len(s) :
        n = s[k] /\ IsFor(n, i) /\ \A j \in 1 .. k - 1 : ~IsFor(s[j], i)
  <2> DEFINE hits == {l \in Node : IsFor(l, i)}
  <2>1. \A j \in 1 .. Len(s) : s[j] \in Node /\ s[j] # b
    BY ElementOfSeq, HeadsAndNodes
  <2>2. n # b
    BY HeadsAndNodes
  <2>3. \/ FindEntry(mem, b, hits) = b /\ \A j \in 1 .. Len(s) : s[j] \notin hits
        \/ \E j \in 1 .. Len(s) : /\ FindEntry(mem, b, hits) = s[j] /\ s[j] \in hits
                                  /\ \A l \in 1 .. j - 1 : s[l] \notin hits
    <3> HIDE DEF hits
    <3> QED
      BY <1>5, FindEntryIs
  <2>4. PICK j \in 1 .. Len(s) : /\ n = s[j] /\ s[j] \in hits
                                 /\ \A l \in 1 .. j - 1 : s[l] \notin hits
    BY <1>6, <2>2, <2>3
  <2>5. \A l \in 1 .. j - 1 : l \in 1 .. Len(s)
    BY LenProperties
  <2> QED
    BY <2>1, <2>4, <2>5
<1>8. k \in 1 .. Len(Listed[b]) /\ n = Listed[b][k]
  BY <1>5, <1>7
<1>9. node[n].iden = i /\ \A j \in 1 .. k - 1 : node[Listed[b][j]].iden # i
  BY <1>5, <1>7 DEF IsFor
<1>10. Among(n, Listed[b]) /\ OnList(n, Listed)
  BY <1>8 DEF Among, OnList
<1>11. node[n].request \in Received
  BY <1>1, <1>10 DEF Carried, Waits
<1>12. PICK v, w : /\ mem' = ListDel(mem, n)
                   /\ node' = [node EXCEPT ![n].ipv4 = v, ![n].answer = w]
                   /\ outbox' = Append(outbox, n) /\ released' = Append(released, node[n].request)
  BY <1>3, <1>6 DEF ParseResponse
<1>13. Shape(mem', Taken(Listed, b, k))
  <2>1. Shape(mem, Listed)
    BY <1>1 DEF OwnedOnce
  <2>2. Shape(ListDel(mem, Listed[b][k]), Taken(Listed, b, k))
    BY <1>8, <2>1, ShapeDel
  <2> QED
    BY <1>8, <1>12, <2>2
<1>14. Listed' = Taken(Listed, b, k)
  <2>1. [c \in Bucket |-> ForEach(mem', c)] = Taken(Listed, b, k)
    BY <1>13, ShapeListed
  <2> QED
    BY <2>1 DEF Listed
<1>15. /\ \A x : OnList(x, Listed') <=> OnList(x, Listed) /\ x # n
       /\ \A x : \A c \in Bucket : Among(x, Listed'[c]) <=> Among(x, Listed[c]) /\ x # n
  <2>0. Shape(mem, Listed)
    BY ONLY <1>1 DEF OwnedOnce
  <2>1. /\ \A x : OnList(x, Taken(Listed, b, k)) <=> OnList(x, Listed) /\ x # Listed[b][k]
        /\ \A x : \A c \in Bucket :
             Among(x, Taken(Listed, b, k)[c]) <=> Among(x, Listed[c]) /\ x # Listed[b][k]
    BY ONLY b \in Bucket, k \in 1 .. Len(s), <1>5, <1>8, <2>0, OnListTaken
  <2> QED
    BY <1>8, <1>14, <2>1
<1>16. /\ \A l \in Node : node'[l].request = node[l].request /\ node'[l].iden = node[l].iden
       /\ DOMAIN node' = Node /\ \A l \in Node : DOMAIN node'[l] = DOMAIN Unused
  BY <1>1, <1>12, FieldNames DEF Fields
<1>17. Serves(a, i, b, k, n)
  BY <1>2, <1>4, <1>8, <1>9, <1>10, <1>11, <1>12, <1>13, <1>14, <1>15, <1>16 DEF Serves
<1> QED
  BY <1>3, <1>8, <1>17

LEMMA ParseResponseKeeps ==
  ASSUME ListInv, NEW a \in arrived, ParseResponse(a)
  PROVE  ListInv'
<1>1. OwnedOnce /\ Fields /\ Carried /\ Requests /\ InFlight
  BY DEF ListInv
<1>2. PICK n \in Node :
           /\ OnList(n, Listed) /\ node[n].request \in Received
           /\ outbox' = Append(outbox, n)
           /\ Shape(mem', Listed')
           /\ \A x : OnList(x, Listed') <=> OnList(x, Listed) /\ x # n
           /\ \A x : \A c \in Bucket : Among(x, Listed'[c]) <=> Among(x, Listed[c]) /\ x # n
           /\ \A l \in Node : node'[l].request = node[l].request /\ node'[l].iden = node[l].iden
           /\ DOMAIN node' = Node /\ \A l \in Node : DOMAIN node'[l] = DOMAIN Unused
  BY ZenonT(60), ResponseFacts DEF Serves
<1>3. /\ outbox \in Seq(Node) /\ Distinct(outbox) /\ inbox' = inbox /\ asked' = asked
      /\ arrived' = arrived \ {a} /\ lost' = lost /\ dups' = dups /\ queries' = queries
  BY <1>1 DEF OwnedOnce, ParseResponse
<1>4. Waits(n) /\ ~Among(n, outbox) /\ ~Among(n, inbox)
  BY <1>1, <1>2 DEF OwnedOnce, Waits
<1>5. /\ outbox' \in Seq(Node) /\ Distinct(outbox)'
      /\ \A x : Among(x, outbox') <=> Among(x, outbox) \/ x = n
  BY <1>2, <1>3, <1>4, RingIn
<1>6. \A x : Waits(x)' <=> Waits(x) /\ x # n
  <2>1. \A x : Waits(x)' <=> Among(x, inbox') \/ OnList(x, Listed')
    BY DEF Waits
  <2> QED
    BY <1>2, <1>3, <1>4, <2>1 DEF Waits
<1>7. Received' = Received /\ ArrivedFor' \subseteq ArrivedFor
  BY <1>3 DEF Received, ArrivedFor
<1>8. OwnedOnce'
  <2>1. inbox' \in Seq(Node) /\ Distinct(inbox)'
    BY <1>1, <1>3 DEF OwnedOnce
  <2>2. ASSUME NEW k \in Node
        PROVE  (Among(k, inbox') => ~OnList(k, Listed')) /\ (Among(k, outbox') => ~Waits(k)')
    BY <1>1, <1>2, <1>3, <1>5, <1>6 DEF OwnedOnce
  <2> QED
    BY <1>2, <1>5, <2>1, <2>2 DEF OwnedOnce
<1>9. Fields'
  BY <1>2 DEF Fields
<1>10. Carried'
  <2>1. ASSUME NEW k \in Node
        PROVE  /\ Waits(k)' => node'[k].request \in Received' /\ node'[k].iden = IdenOf(node[k].request)'
               /\ Among(k, outbox') => node'[k].request \in Received'
               /\ \A c \in Bucket : Among(k, Listed'[c]) => BucketOf[node'[k].iden] = c
    <3>1. IdenOf(node[k].request)' = IdenOf(node[k].request)
      BY <1>2, <1>3 DEF IdenOf
    <3>2. /\ Waits(k) => node[k].request \in Received /\ node[k].iden = IdenOf(node[k].request)
          /\ Among(k, outbox) => node[k].request \in Received
          /\ \A c \in Bucket : Among(k, Listed[c]) => BucketOf[node[k].iden] = c
      BY <1>1 DEF Carried
    <3>3. node'[k].request = node[k].request /\ node'[k].iden = node[k].iden
      BY <1>2
    <3>4. Waits(k)' => node'[k].request \in Received' /\ node'[k].iden = IdenOf(node[k].request)'
      BY <1>6, <1>7, <3>1, <3>2, <3>3
    <3>5. Among(k, outbox') => node'[k].request \in Received'
      BY <1>2, <1>5, <1>7, <3>2, <3>3
    <3>6. \A c \in Bucket : Among(k, Listed'[c]) => BucketOf[node'[k].iden] = c
      BY <1>2, <3>2, <3>3
    <3> QED
      BY <3>4, <3>5, <3>6
  <2> QED
    BY <2>1 DEF Carried
<1>11. Requests'
  <2>1. asked \cap ArrivedFor' = {} /\ asked \cup lost \cup dups \cup ArrivedFor' \subseteq Received
    BY <1>1, <1>7 DEF Requests
  <2>2. ASSUME NEW k \in Node, Among(k, inbox)
        PROVE  node'[k].request \notin asked \cup lost \cup ArrivedFor'
    BY <1>1, <1>2, <1>7, <2>2 DEF Requests
  <2>3. ASSUME NEW k \in Node, NEW l \in Node, Among(k, inbox), Among(l, inbox),
               node'[k].request = node'[l].request
        PROVE  k = l
    BY <1>1, <1>2, <2>3 DEF Requests
  <2> QED
    BY <1>1, <1>3, <1>7, <2>1, <2>2, <2>3 DEF Requests
<1>12. InFlight'
  <2>1. IsFiniteSet(arrived')
    BY <1>1, <1>3, FS_Subset DEF InFlight
  <2> QED
    BY <1>1, <1>3, <2>1 DEF InFlight
<1> QED
  BY <1>8, <1>9, <1>10, <1>11, <1>12 DEF ListInv

LEMMA WriteBackKeeps ==
  ASSUME ListInv, WriteBack
  PROVE  /\ ListInv' /\ Listed' = Listed
         /\ \A k \in Node : OnList(k, Listed) => node'[k] = node[k]
<1>1. OwnedOnce /\ Fields /\ Carried /\ Requests /\ InFlight
  BY DEF ListInv
<1>2. /\ outbox \in Seq(Node) /\ Distinct(outbox) /\ outbox # << >> /\ outbox' = Tail(outbox)
      /\ mem' = mem /\ inbox' = inbox /\ asked' = asked
      /\ arrived' = arrived /\ lost' = lost /\ dups' = dups /\ queries' = queries
      /\ node' = [node EXCEPT ![Head(outbox)] = Unused]
  BY <1>1 DEF OwnedOnce, WriteBack, network
<1>3. PICK n \in Node : n = Head(outbox) /\ Among(n, outbox)
  BY <1>2, RingOut
<1>4. /\ outbox' \in Seq(Node) /\ Distinct(outbox)'
      /\ \A x : Among(x, outbox') <=> Among(x, outbox) /\ x # n
  BY <1>2, <1>3, RingOut
<1>5. ~Waits(n) /\ ~OnList(n, Listed)
  BY <1>1, <1>3 DEF OwnedOnce, Waits
<1>6. DOMAIN node' = Node /\ node'[n] = Unused /\ \A k \in Node \ {n} : node'[k] = node[k]
  BY <1>1, <1>2, <1>3 DEF Fields
<1>7. Listed' = Listed /\ \A x : Waits(x)' <=> Waits(x)
  <2>1. Listed' = Listed
    BY <1>2 DEF Listed
  <2>2. \A x : Waits(x)' <=> Among(x, inbox') \/ OnList(x, Listed')
    BY DEF Waits
  <2> QED
    BY <1>2, <2>1, <2>2 DEF Waits
<1>8. Received' = Received /\ ArrivedFor' = ArrivedFor /\ \A r : IdenOf(r)' = IdenOf(r)
  BY <1>2 DEF Received, ArrivedFor, IdenOf
<1>9. OwnedOnce'
  <2>1. ASSUME NEW k \in Node
        PROVE  (Among(k, inbox') => ~OnList(k, Listed')) /\ (Among(k, outbox') => ~Waits(k)')
    BY <1>1, <1>2, <1>4, <1>7 DEF OwnedOnce
  <2> QED
    BY <1>1, <1>2, <1>4, <1>7, <2>1 DEF OwnedOnce
<1>10. Fields'
  <2>1. ASSUME NEW k \in Node PROVE DOMAIN node'[k] = DOMAIN Unused
    BY <1>1, <1>6 DEF Fields
  <2> QED
    BY <1>6, <2>1 DEF Fields
<1>11. Carried'
  <2>1. ASSUME NEW k \in Node
        PROVE  /\ Waits(k)' => node'[k].request \in Received' /\ node'[k].iden = IdenOf(node[k].request)'
               /\ Among(k, outbox') => node'[k].request \in Received'
               /\ \A c \in Bucket : Among(k, Listed'[c]) => BucketOf[node'[k].iden] = c
    <3>1. CASE k = n
      <4>1. ~Waits(k)' /\ ~Among(k, outbox') /\ \A c \in Bucket : ~Among(k, Listed'[c])
        BY <1>4, <1>5, <1>7, <3>1 DEF OnList
      <4> QED
        BY <4>1
    <3>2. CASE k # n
      <4>1. node'[k] = node[k]
        BY <1>6, <3>2
      <4>2. IdenOf(node[k].request)' = IdenOf(node[k].request)
        BY <1>2, <4>1 DEF IdenOf
      <4> QED
        BY <1>1, <1>4, <1>7, <1>8, <4>1, <4>2 DEF Carried
    <3> QED
      BY <3>1, <3>2
  <2> QED
    BY <2>1 DEF Carried
<1>12. Requests'
  <2>1. \A k \in Node : Among(k, inbox) => node'[k] = node[k]
    BY <1>5, <1>6 DEF Waits
  <2> QED
    BY <1>1, <1>2, <1>8, <2>1 DEF Requests
<1>13. InFlight'
  BY <1>1, <1>2 DEF InFlight
<1>14. \A k \in Node : OnList(k, Listed) => node'[k] = node[k]
  BY <1>5, <1>6
<1> QED
  BY <1>7, <1>9, <1>10, <1>11, <1>12, <1>13, <1>14 DEF ListInv
(* Upstream and its network touch no node.                                 *)
LEMMA UpstreamKeeps ==
  ASSUME ListInv,
         UNCHANGED <<mem, node, inbox, outbox, queries>>,
         InFlight', asked' \subseteq asked, ArrivedFor' \subseteq ArrivedFor \cup (asked \ asked'),
         lost' \subseteq lost \cup (asked \ asked'), dups' \subseteq Received
  PROVE  ListInv' /\ Listed' = Listed
<1>1. OwnedOnce /\ Fields /\ Carried /\ Requests /\ InFlight
  BY DEF ListInv
<1>2. /\ Listed' = Listed /\ Received' = Received
      /\ \A x : Waits(x)' <=> Waits(x)
  <2>1. Listed' = Listed
    BY DEF Listed
  <2>2. \A x : Waits(x)' <=> Among(x, inbox') \/ OnList(x, Listed')
    BY DEF Waits
  <2> QED
    BY <2>1, <2>2 DEF Waits, Received
<1>3. OwnedOnce'
  BY <1>1, <1>2 DEF OwnedOnce
<1>4. Fields'
  BY <1>1 DEF Fields
<1>5. Carried'
  BY <1>1, <1>2 DEF Carried, IdenOf
<1>6. Requests'
  <2>1. asked' \cup lost' \cup ArrivedFor' \subseteq asked \cup lost \cup ArrivedFor
    OBVIOUS
  <2>2. asked' \cap lost' = {} /\ asked' \cap ArrivedFor' = {}
    BY <1>1 DEF Requests
  <2> QED
    BY <1>1, <1>2, <2>1, <2>2 DEF Requests
<1> QED
  BY <1>2, <1>3, <1>4, <1>5, <1>6 DEF ListInv

LEMMA UpstreamAnswerKeeps ==
  ASSUME ListInv, NEW r \in asked, NEW rs \in Answers[queries[r].name], UpstreamAnswer(r, rs)
  PROVE  /\ ListInv' /\ Listed' = Listed
         /\ [request |-> r, records |-> rs, copy |-> FALSE] \notin arrived
<1>1. Requests /\ InFlight
  BY DEF ListInv
<1>2. PICK a : a = [request |-> r, records |-> rs, copy |-> FALSE]
  OBVIOUS
<1>3. /\ asked' = asked \ {r} /\ arrived' = arrived \cup {a}
      /\ lost' = lost /\ dups' = dups
      /\ UNCHANGED <<mem, node, inbox, outbox, queries>>
  BY <1>2 DEF UpstreamAnswer, history
<1>4. a.request = r /\ a.records = rs /\ a.copy = FALSE
  BY <1>2
<1>5. InFlight'
  <2>1. IsFiniteSet(arrived')
    BY <1>1, <1>3, FS_AddElement DEF InFlight
  <2> QED
    BY <1>1, <1>2, <1>3, <1>4, <2>1 DEF InFlight
<1>6. ArrivedFor' \subseteq ArrivedFor \cup (asked \ asked')
  BY <1>3, <1>4 DEF ArrivedFor
<1>7. a \notin arrived
  BY <1>1, <1>4 DEF Requests, ArrivedFor
<1>8. asked' \subseteq asked /\ lost' \subseteq lost \cup (asked \ asked') /\ dups' \subseteq Received
  BY <1>1, <1>3 DEF Requests
<1>9. ListInv' /\ Listed' = Listed
  BY ONLY ListInv, <1>3, <1>5, <1>6, <1>8, UpstreamKeeps
<1> QED
  BY <1>2, <1>7, <1>9

LEMMA UpstreamAnswerTwiceKeeps ==
  ASSUME ListInv, NEW a \in arrived, UpstreamAnswerTwice(a)
  PROVE  /\ ListInv' /\ Listed' = Listed
         /\ [a EXCEPT !.copy = TRUE] \notin arrived
         /\ [a EXCEPT !.copy = TRUE].request = a.request
<1>1. Requests /\ InFlight
  BY DEF ListInv
<1>2. PICK c : c = [a EXCEPT !.copy = TRUE]
  OBVIOUS
<1>3. /\ asked' = asked /\ arrived' = arrived \cup {c}
      /\ lost' = lost /\ dups' = dups \cup {a.request} /\ a.request \notin dups
      /\ UNCHANGED <<mem, node, inbox, outbox, queries>>
  BY <1>2 DEF UpstreamAnswerTwice, history
<1>4. c = [request |-> a.request, records |-> a.records, copy |-> TRUE]
  <2>1. a = [request |-> a.request, records |-> a.records, copy |-> a.copy]
    BY <1>1 DEF InFlight
  <2>2. PICK x, y, z : a = [request |-> x, records |-> y, copy |-> z] /\ x = a.request /\ y = a.records
    BY <2>1
  <2> QED
    BY <1>2, <2>2
<1>5. c.request = a.request /\ c.records = a.records /\ c.copy = TRUE
  BY <1>4
<1>6. InFlight'
  <2>1. IsFiniteSet(arrived')
    BY <1>1, <1>3, FS_AddElement DEF InFlight
  <2> QED
    BY <1>1, <1>3, <1>4, <1>5, <2>1 DEF InFlight
<1>7. ArrivedFor' \subseteq ArrivedFor \cup (asked \ asked')
  BY <1>3, <1>5 DEF ArrivedFor
<1>8. c \notin arrived
  BY <1>1, <1>3, <1>5 DEF InFlight
<1>9. asked' \subseteq asked /\ lost' \subseteq lost \cup (asked \ asked') /\ dups' \subseteq Received
  BY <1>1, <1>3 DEF Requests, ArrivedFor
<1>10. ListInv' /\ Listed' = Listed
  BY ONLY ListInv, <1>3, <1>6, <1>7, <1>9, UpstreamKeeps
<1> QED
  BY <1>2, <1>5, <1>8, <1>10

LEMMA UpstreamLossKeeps ==
  ASSUME ListInv, NEW r \in asked, UpstreamLoss(r)
  PROVE  ListInv' /\ Listed' = Listed
<1>1. Requests /\ InFlight
  BY DEF ListInv
<1>2. /\ asked' = asked \ {r} /\ arrived' = arrived /\ lost' = lost \cup {r} /\ dups' = dups
      /\ UNCHANGED <<mem, node, inbox, outbox, queries>>
  BY DEF UpstreamLoss, history
<1>3. InFlight'
  BY <1>1, <1>2 DEF InFlight
<1>4. /\ ArrivedFor' \subseteq ArrivedFor \cup (asked \ asked')
      /\ asked' \subseteq asked /\ lost' \subseteq lost \cup (asked \ asked') /\ dups' \subseteq Received
  BY <1>1, <1>2 DEF Requests, ArrivedFor
<1> QED
  BY ONLY ListInv, <1>2, <1>3, <1>4, UpstreamKeeps

-----------------------------------------------------------------------------
(* Counting, identifier by identifier.                                     *)

LEMMA CountsFinite ==
  ASSUME ListInv, NEW i
  PROVE  /\ IsFiniteSet(WaitsFor(i)) /\ IsFiniteSet(AnswersFor(i))
         /\ IsFiniteSet(asked) /\ IsFiniteSet(lost) /\ IsFiniteSet(dups)
<1>1. Requests /\ InFlight
  BY DEF ListInv
<1>2. IsFiniteSet(Node)
  BY PointerAssumption, ForwardAssumption, FS_Subset
<1>3. IsFiniteSet(Received)
  <2>1. PICK n \in Nat : n = Len(queries)
    BY <1>1, LenProperties DEF Requests
  <2> QED
    BY <2>1, FS_Interval DEF Received
<1>4. WaitsFor(i) \subseteq Node /\ AnswersFor(i) \subseteq arrived
  BY DEF WaitsFor, AnswersFor
<1>5. IsFiniteSet(WaitsFor(i)) /\ IsFiniteSet(AnswersFor(i))
  BY <1>1, <1>2, <1>4, FS_Subset DEF InFlight
<1>6. asked \subseteq Received /\ lost \subseteq Received /\ dups \subseteq Received
  BY <1>1 DEF Requests
<1> QED
  BY <1>3, <1>5, <1>6, FS_Subset

Counts ==
  /\ \A i : Having(asked, i) = CountIn(queries, asked, i)
  /\ \A i : Having(lost, i) = CountIn(queries, lost, i)
  /\ \A i : Having(dups, i) = CountIn(queries, dups, i)

LEMMA HavingIs == Counts
<1>1. ASSUME NEW T, NEW i PROVE Having(T, i) = CountIn(queries, T, i)
  <2>1. {r \in T : queries[r].iden = i} = With(queries, T, i)
    BY DEF With
  <2> QED
    BY <2>1 DEF Having, CountIn
<1> QED
  BY <1>1 DEF Counts

LEMMA CountNat ==
  ASSUME NEW qs, NEW T, IsFiniteSet(T), NEW i
  PROVE  CountIn(qs, T, i) \in Nat
<1>1. With(qs, T, i) \subseteq T
  BY DEF With
<1> QED
  BY <1>1, FS_Subset, FS_CardinalityType DEF CountIn

LEMMA OneMore ==
  ASSUME NEW S, IsFiniteSet(S), NEW e, e \notin S, NEW p \in BOOLEAN,
         NEW R, R = IF p THEN S \cup {e} ELSE S
  PROVE  /\ Cardinality(S) \in Nat
         /\ Cardinality(R) = Cardinality(S) + (IF p THEN 1 ELSE 0)
BY FS_CardinalityType, FS_AddElement

(* One request more, one request less.                                     *)
LEMMA CountMore ==
  ASSUME NEW qs, NEW T, IsFiniteSet(T), NEW r, r \notin T, NEW i
  PROVE  /\ CountIn(qs, T, i) \in Nat
         /\ CountIn(qs, T \cup {r}, i) = CountIn(qs, T, i) + (IF qs[r].iden = i THEN 1 ELSE 0)
<1>1. PICK S, R : S = With(qs, T, i) /\ R = With(qs, T \cup {r}, i)
  OBVIOUS
<1>2. S \subseteq T /\ r \notin S /\ R = IF qs[r].iden = i THEN S \cup {r} ELSE S
  BY <1>1 DEF With
<1>3. IsFiniteSet(S)
  BY <1>2, FS_Subset
<1>4. Cardinality(S) \in Nat /\ Cardinality(S \cup {r}) = Cardinality(S) + 1
  BY <1>2, <1>3, FS_CardinalityType, FS_AddElement
<1> QED
  BY <1>1, <1>2, <1>4 DEF CountIn

LEMMA CountLess ==
  ASSUME NEW qs, NEW T, IsFiniteSet(T), NEW r \in T, NEW i
  PROVE  /\ CountIn(qs, T \ {r}, i) \in Nat
         /\ CountIn(qs, T, i) = CountIn(qs, T \ {r}, i) + (IF qs[r].iden = i THEN 1 ELSE 0)
<1>1. PICK S : S = T \ {r}
  OBVIOUS
<1>2. r \notin S /\ S \subseteq T /\ T = S \cup {r}
  BY <1>1
<1>3. IsFiniteSet(S)
  BY <1>2, FS_Subset
<1>4. /\ CountIn(qs, S, i) \in Nat
      /\ CountIn(qs, S \cup {r}, i) = CountIn(qs, S, i) + (IF qs[r].iden = i THEN 1 ELSE 0)
  BY ONLY <1>2, <1>3, CountMore
<1> QED
  BY <1>1, <1>2, <1>4

LEMMA CountSame ==
  ASSUME NEW qs, NEW ps, NEW T, NEW i, \A r \in T : qs[r] = ps[r]
  PROVE  CountIn(qs, T, i) = CountIn(ps, T, i)
<1>1. With(qs, T, i) = With(ps, T, i)
  BY DEF With
<1> QED
  BY <1>1 DEF CountIn
(* Nobody is listed or taken off, sent or received.                        *)
LEMMA CountedSame ==
  ASSUME ListInv, Counted, asked' = asked, lost' = lost, dups' = dups, arrived' = arrived,
         Listed' = Listed, \A r \in Received : queries'[r] = queries[r],
         \A n \in Node : OnList(n, Listed) => node'[n].iden = node[n].iden
  PROVE  Counted'
<1>1. Requests
  BY DEF ListInv
<1>2. ASSUME NEW i \in Idens
      PROVE  Cardinality(WaitsFor(i)') + CountIn(queries', dups', i)
             = CountIn(queries', asked', i) + CountIn(queries', lost', i) + Cardinality(AnswersFor(i)')
  <2>1. WaitsFor(i)' = WaitsFor(i)
    BY DEF WaitsFor
  <2>2. AnswersFor(i)' = AnswersFor(i)
    <3>1. \A a \in arrived : a.request \in Received
      BY <1>1 DEF Requests, ArrivedFor
    <3> QED
      BY <3>1 DEF AnswersFor, IdenOf
  <2>3. /\ CountIn(queries', asked, i) = CountIn(queries, asked, i)
        /\ CountIn(queries', lost, i) = CountIn(queries, lost, i)
        /\ CountIn(queries', dups, i) = CountIn(queries, dups, i)
    <3>1. /\ \A r \in asked : queries'[r] = queries[r]
          /\ \A r \in lost : queries'[r] = queries[r]
          /\ \A r \in dups : queries'[r] = queries[r]
      BY <1>1 DEF Requests
    <3> QED
      BY <3>1, CountSame
  <2> QED
    BY <2>1, <2>2, <2>3 DEF Counted
<1> QED
  BY <1>2 DEF Counted

LEMMA GetHostAddrCounts ==
  ASSUME ListInv, Counted, GetHostAddr
  PROVE  Counted'
<1>1. Requests /\ OwnedOnce
  BY DEF ListInv
<1>2. PICK n \in Node, b \in Bucket : Files(n, b)
  BY AskFacts
<1>3. PICK r : r = node[n].request
  OBVIOUS
<1>4. asked' = asked \cup {r} /\ lost' = lost /\ dups' = dups /\ arrived' = arrived /\ queries' = queries
  <2>1. asked' = asked \cup {node[n].request}
    BY ONLY <1>2, Zenon DEF Files
  <2>2. lost' = lost /\ dups' = dups /\ arrived' = arrived /\ queries' = queries
    <3>1. UNCHANGED <<outbox, cache, arrived, lost, dups, history>>
      BY ONLY GetHostAddr, ZenonT(60) DEF GetHostAddr
    <3> QED
      BY ONLY <3>1 DEF history
  <2> QED
    BY ONLY <1>3, <2>1, <2>2, Zenon
<1>5. r \notin asked /\ node[n].iden = queries[r].iden /\ ~OnList(n, Listed)
  BY <1>1, <1>2, <1>3 DEF Requests, Files, IdenOf
<1>6. ASSUME NEW i \in Idens
      PROVE  Cardinality(WaitsFor(i)') + CountIn(queries', dups', i)
             = CountIn(queries', asked', i) + CountIn(queries', lost', i) + Cardinality(AnswersFor(i)')
  <2>1. WaitsFor(i)' = IF queries[r].iden = i THEN WaitsFor(i) \cup {n} ELSE WaitsFor(i)
    <3>1. \A k \in Node : node'[k].iden = node[k].iden /\ (OnList(k, Listed') <=> OnList(k, Listed) \/ k = n)
      BY <1>2 DEF Files
    <3>2. \A k \in Node : k \in WaitsFor(i)' <=> k \in WaitsFor(i) \/ (k = n /\ queries[r].iden = i)
      BY <1>5, <3>1 DEF WaitsFor
    <3>3. WaitsFor(i)' \subseteq Node /\ WaitsFor(i) \subseteq Node
      BY DEF WaitsFor
    <3> QED
      BY <3>2, <3>3
  <2>2. /\ IsFiniteSet(WaitsFor(i)) /\ IsFiniteSet(AnswersFor(i))
        /\ IsFiniteSet(asked) /\ IsFiniteSet(lost) /\ IsFiniteSet(dups)
    BY CountsFinite
  <2>3. n \notin WaitsFor(i)
    BY <1>5 DEF WaitsFor
  <2>4. /\ Cardinality(WaitsFor(i)) \in Nat
        /\ Cardinality(WaitsFor(i)') = Cardinality(WaitsFor(i)) + (IF queries[r].iden = i THEN 1 ELSE 0)
    <3>1. PICK W, V : W = WaitsFor(i) /\ V = WaitsFor(i)'
      OBVIOUS
    <3>2. IsFiniteSet(W) /\ n \notin W
      BY <2>2, <2>3, <3>1
    <3>3. Cardinality(W) \in Nat /\ Cardinality(W \cup {n}) = Cardinality(W) + 1
      BY ONLY <3>2, FS_CardinalityType, FS_AddElement
    <3>4. V = IF queries[r].iden = i THEN W \cup {n} ELSE W
      BY <2>1, <3>1
    <3>5. Cardinality(V) = Cardinality(W) + (IF queries[r].iden = i THEN 1 ELSE 0)
      BY ONLY <3>3, <3>4
    <3> QED
      BY <3>1, <3>3, <3>5
  <2>5. AnswersFor(i)' = AnswersFor(i)
    BY <1>4 DEF AnswersFor, IdenOf
  <2>6. /\ CountIn(queries, asked, i) \in Nat
        /\ CountIn(queries, asked \cup {r}, i)
           = CountIn(queries, asked, i) + (IF queries[r].iden = i THEN 1 ELSE 0)
    BY <1>5, <2>2, CountMore
  <2>7. CountIn(queries, lost, i) \in Nat /\ CountIn(queries, dups, i) \in Nat
        /\ Cardinality(AnswersFor(i)) \in Nat
    BY <2>2, FS_CardinalityType, FS_Subset DEF CountIn, With
  <2>8. Cardinality(WaitsFor(i)) + CountIn(queries, dups, i)
        = CountIn(queries, asked, i) + CountIn(queries, lost, i) + Cardinality(AnswersFor(i))
    BY DEF Counted
  <2> QED
    BY <1>4, <2>4, <2>5, <2>6, <2>7, <2>8
<1> QED
  BY <1>6 DEF Counted

LEMMA ParseResponseCounts ==
  ASSUME ListInv, Counted, NEW a \in arrived, ParseResponse(a)
  PROVE  Counted'
<1>1. PICK j \in Idens, b \in Bucket : \E k \in 1 .. Len(Listed[b]) : \E n \in Node : Serves(a, j, b, k, n)
  BY ResponseFacts
<1>2. PICK k \in 1 .. Len(Listed[b]), n \in Node : Serves(a, j, b, k, n)
  BY <1>1
<1>3. asked' = asked /\ lost' = lost /\ dups' = dups /\ arrived' = arrived \ {a} /\ queries' = queries
  <2>1. arrived' = arrived \ {a} /\ UNCHANGED <<inbox, asked, lost, dups, queries, rejected, replies>>
    BY ONLY ParseResponse(a), Zenon DEF ParseResponse
  <2> QED
    BY ONLY <2>1
<1>4. node[n].iden = j /\ OnList(n, Listed) /\ IdenOf(a.request) = j
  BY ONLY <1>2, Zenon DEF Serves
<1>5. ASSUME NEW i \in Idens
      PROVE  Cardinality(WaitsFor(i)') + CountIn(queries', dups', i)
             = CountIn(queries', asked', i) + CountIn(queries', lost', i) + Cardinality(AnswersFor(i)')
  <2>1. WaitsFor(i)' = WaitsFor(i) \ {n}
    <3>1. \A l \in Node : node'[l].iden = node[l].iden /\ (OnList(l, Listed') <=> OnList(l, Listed) /\ l # n)
      BY <1>2 DEF Serves
    <3>2. \A l \in Node : l \in WaitsFor(i)' <=> l \in WaitsFor(i) /\ l # n
      BY <3>1 DEF WaitsFor
    <3>3. WaitsFor(i)' \subseteq Node /\ WaitsFor(i) \subseteq Node
      BY DEF WaitsFor
    <3> QED
      BY <3>2, <3>3
  <2>2. AnswersFor(i)' = AnswersFor(i) \ {a}
    BY <1>3 DEF AnswersFor, IdenOf
  <2>3. /\ IsFiniteSet(WaitsFor(i)) /\ IsFiniteSet(AnswersFor(i))
        /\ IsFiniteSet(asked) /\ IsFiniteSet(lost) /\ IsFiniteSet(dups)
    BY CountsFinite
  <2>4. n \in WaitsFor(i) <=> i = j
    BY <1>4 DEF WaitsFor
  <2>5. a \in AnswersFor(i) <=> i = j
    BY <1>4 DEF AnswersFor
  <2>6. /\ Cardinality(WaitsFor(i)) \in Nat /\ Cardinality(AnswersFor(i)) \in Nat
        /\ Cardinality(WaitsFor(i) \ {n}) = Cardinality(WaitsFor(i)) - (IF i = j THEN 1 ELSE 0)
        /\ Cardinality(AnswersFor(i) \ {a}) = Cardinality(AnswersFor(i)) - (IF i = j THEN 1 ELSE 0)
    BY <2>3, <2>4, <2>5, FS_CardinalityType, FS_RemoveElement
  <2>7. /\ CountIn(queries, lost, i) \in Nat /\ CountIn(queries, dups, i) \in Nat
        /\ CountIn(queries, asked, i) \in Nat
    BY <2>3, FS_CardinalityType, FS_Subset DEF CountIn, With
  <2>8. Cardinality(WaitsFor(i)) + CountIn(queries, dups, i)
        = CountIn(queries, asked, i) + CountIn(queries, lost, i) + Cardinality(AnswersFor(i))
    BY DEF Counted
  <2>9. Cardinality(WaitsFor(i)') = Cardinality(WaitsFor(i)) - (IF i = j THEN 1 ELSE 0)
    BY <2>1, <2>6
  <2>10. Cardinality(AnswersFor(i)') = Cardinality(AnswersFor(i)) - (IF i = j THEN 1 ELSE 0)
    BY <2>2, <2>6
  <2>11. /\ CountIn(queries', asked', i) = CountIn(queries, asked, i)
         /\ CountIn(queries', lost', i) = CountIn(queries, lost, i)
         /\ CountIn(queries', dups', i) = CountIn(queries, dups, i)
    BY <1>3
  <2> QED
    BY SMTT(30), <2>6, <2>7, <2>8, <2>9, <2>10, <2>11
<1> QED
  BY <1>5 DEF Counted

(* Requests and answers on the network, with the list as it was.           *)
LEMMA CountedUpstream ==
  ASSUME ListInv, Counted, Listed' = Listed, node' = node, queries' = queries,
         \A i \in Idens :
           CountIn(queries, dups', i) - CountIn(queries, dups, i)
           = CountIn(queries, asked', i) - CountIn(queries, asked, i)
             + CountIn(queries, lost', i) - CountIn(queries, lost, i)
             + Cardinality(AnswersFor(i)') - Cardinality(AnswersFor(i)),
         \A i \in Idens : /\ CountIn(queries, dups', i) \in Nat /\ CountIn(queries, asked', i) \in Nat
                          /\ CountIn(queries, lost', i) \in Nat /\ Cardinality(AnswersFor(i)') \in Nat
  PROVE  Counted'
<1>1. ASSUME NEW i \in Idens
      PROVE  Cardinality(WaitsFor(i)') + CountIn(queries', dups', i)
             = CountIn(queries', asked', i) + CountIn(queries', lost', i) + Cardinality(AnswersFor(i)')
  <2>1. WaitsFor(i)' = WaitsFor(i)
    BY DEF WaitsFor
  <2>2. /\ IsFiniteSet(WaitsFor(i)) /\ IsFiniteSet(AnswersFor(i))
        /\ IsFiniteSet(asked) /\ IsFiniteSet(lost) /\ IsFiniteSet(dups)
    BY CountsFinite
  <2>3. /\ CountIn(queries, lost, i) \in Nat /\ CountIn(queries, dups, i) \in Nat
        /\ CountIn(queries, asked, i) \in Nat
        /\ Cardinality(AnswersFor(i)) \in Nat /\ Cardinality(WaitsFor(i)) \in Nat
    BY <2>2, FS_CardinalityType, FS_Subset DEF CountIn, With
  <2>4. Cardinality(WaitsFor(i)) + CountIn(queries, dups, i)
        = CountIn(queries, asked, i) + CountIn(queries, lost, i) + Cardinality(AnswersFor(i))
    BY DEF Counted
  <2> QED
    BY <2>1, <2>3, <2>4
<1> QED
  BY <1>1 DEF Counted
LEMMA UpstreamAnswerCounts ==
  ASSUME ListInv, Counted, NEW r \in asked, NEW rs \in Answers[queries[r].name], UpstreamAnswer(r, rs)
  PROVE  Counted'
<1>1. PICK a : a = [request |-> r, records |-> rs, copy |-> FALSE]
  OBVIOUS
<1>2. Listed' = Listed /\ a \notin arrived
  BY <1>1, UpstreamAnswerKeeps
<1>3. /\ asked' = asked \ {r} /\ arrived' = arrived \cup {a} /\ lost' = lost /\ dups' = dups
      /\ node' = node /\ queries' = queries /\ a.request = r
  BY <1>1 DEF UpstreamAnswer, history
<1>4. ASSUME NEW i \in Idens
      PROVE  /\ CountIn(queries, dups', i) - CountIn(queries, dups, i)
                = CountIn(queries, asked', i) - CountIn(queries, asked, i)
                  + CountIn(queries, lost', i) - CountIn(queries, lost, i)
                  + Cardinality(AnswersFor(i)') - Cardinality(AnswersFor(i))
             /\ CountIn(queries, dups', i) \in Nat /\ CountIn(queries, asked', i) \in Nat
             /\ CountIn(queries, lost', i) \in Nat /\ Cardinality(AnswersFor(i)') \in Nat
  <2>1. /\ IsFiniteSet(AnswersFor(i)) /\ IsFiniteSet(asked) /\ IsFiniteSet(lost) /\ IsFiniteSet(dups)
    BY CountsFinite
  <2>2. AnswersFor(i)' = IF queries[r].iden = i THEN AnswersFor(i) \cup {a} ELSE AnswersFor(i)
    BY <1>3 DEF AnswersFor, IdenOf
  <2>3. a \notin AnswersFor(i)
    BY <1>2 DEF AnswersFor
  <2>4. /\ Cardinality(AnswersFor(i)) \in Nat
        /\ Cardinality(AnswersFor(i)') = Cardinality(AnswersFor(i)) + (IF queries[r].iden = i THEN 1 ELSE 0)
    BY ZenonT(60), <2>1, <2>2, <2>3, OneMore
  <2>5. /\ CountIn(queries, asked \ {r}, i) \in Nat
        /\ CountIn(queries, asked, i)
           = CountIn(queries, asked \ {r}, i) + (IF queries[r].iden = i THEN 1 ELSE 0)
    BY <2>1, CountLess
  <2>6. CountIn(queries, lost, i) \in Nat /\ CountIn(queries, dups, i) \in Nat
    BY <2>1, CountNat
  <2> QED
    BY <1>3, <2>4, <2>5, <2>6
<1> QED
  BY ONLY ListInv, Counted, <1>2, <1>3, <1>4, CountedUpstream

LEMMA UpstreamAnswerTwiceCounts ==
  ASSUME ListInv, Counted, NEW a \in arrived, UpstreamAnswerTwice(a)
  PROVE  Counted'
<1>1. PICK c, r : c = [a EXCEPT !.copy = TRUE] /\ r = a.request
  OBVIOUS
<1>2. Listed' = Listed /\ c \notin arrived /\ c.request = r
  BY <1>1, UpstreamAnswerTwiceKeeps
<1>3. /\ asked' = asked /\ arrived' = arrived \cup {c} /\ lost' = lost /\ dups' = dups \cup {r}
      /\ node' = node /\ queries' = queries /\ r \notin dups
  BY <1>1 DEF UpstreamAnswerTwice, history
<1>4. ASSUME NEW i \in Idens
      PROVE  /\ CountIn(queries, dups', i) - CountIn(queries, dups, i)
                = CountIn(queries, asked', i) - CountIn(queries, asked, i)
                  + CountIn(queries, lost', i) - CountIn(queries, lost, i)
                  + Cardinality(AnswersFor(i)') - Cardinality(AnswersFor(i))
             /\ CountIn(queries, dups', i) \in Nat /\ CountIn(queries, asked', i) \in Nat
             /\ CountIn(queries, lost', i) \in Nat /\ Cardinality(AnswersFor(i)') \in Nat
  <2>1. /\ IsFiniteSet(AnswersFor(i)) /\ IsFiniteSet(asked) /\ IsFiniteSet(lost) /\ IsFiniteSet(dups)
    BY CountsFinite
  <2>2. AnswersFor(i)' = IF queries[r].iden = i THEN AnswersFor(i) \cup {c} ELSE AnswersFor(i)
    BY <1>2, <1>3 DEF AnswersFor, IdenOf
  <2>3. c \notin AnswersFor(i)
    BY <1>2 DEF AnswersFor
  <2>4. /\ Cardinality(AnswersFor(i)) \in Nat
        /\ Cardinality(AnswersFor(i)') = Cardinality(AnswersFor(i)) + (IF queries[r].iden = i THEN 1 ELSE 0)
    BY ZenonT(60), <2>1, <2>2, <2>3, OneMore
  <2>5. /\ CountIn(queries, dups, i) \in Nat
        /\ CountIn(queries, dups \cup {r}, i)
           = CountIn(queries, dups, i) + (IF queries[r].iden = i THEN 1 ELSE 0)
    BY <1>3, <2>1, CountMore
  <2>6. CountIn(queries, lost, i) \in Nat /\ CountIn(queries, asked, i) \in Nat
    BY <2>1, CountNat
  <2> QED
    BY <1>3, <2>4, <2>5, <2>6
<1> QED
  BY ONLY ListInv, Counted, <1>2, <1>3, <1>4, CountedUpstream

LEMMA UpstreamLossCounts ==
  ASSUME ListInv, Counted, NEW r \in asked, UpstreamLoss(r)
  PROVE  Counted'
<1>1. Listed' = Listed
  BY UpstreamLossKeeps
<1>2. /\ asked' = asked \ {r} /\ arrived' = arrived /\ lost' = lost \cup {r} /\ dups' = dups
      /\ node' = node /\ queries' = queries
  BY DEF UpstreamLoss, history
<1>3. r \notin lost
  BY DEF ListInv, Requests
<1>4. ASSUME NEW i \in Idens
      PROVE  /\ CountIn(queries, dups', i) - CountIn(queries, dups, i)
                = CountIn(queries, asked', i) - CountIn(queries, asked, i)
                  + CountIn(queries, lost', i) - CountIn(queries, lost, i)
                  + Cardinality(AnswersFor(i)') - Cardinality(AnswersFor(i))
             /\ CountIn(queries, dups', i) \in Nat /\ CountIn(queries, asked', i) \in Nat
             /\ CountIn(queries, lost', i) \in Nat /\ Cardinality(AnswersFor(i)') \in Nat
  <2>1. /\ IsFiniteSet(AnswersFor(i)) /\ IsFiniteSet(asked) /\ IsFiniteSet(lost) /\ IsFiniteSet(dups)
    BY CountsFinite
  <2>2. AnswersFor(i)' = AnswersFor(i)
    BY <1>2 DEF AnswersFor, IdenOf
  <2>3. Cardinality(AnswersFor(i)) \in Nat
    BY <2>1, FS_CardinalityType
  <2>4. /\ CountIn(queries, asked \ {r}, i) \in Nat
        /\ CountIn(queries, asked, i)
           = CountIn(queries, asked \ {r}, i) + (IF queries[r].iden = i THEN 1 ELSE 0)
    BY <2>1, CountLess
  <2>5. /\ CountIn(queries, lost, i) \in Nat
        /\ CountIn(queries, lost \cup {r}, i)
           = CountIn(queries, lost, i) + (IF queries[r].iden = i THEN 1 ELSE 0)
    BY <1>3, <2>1, CountMore
  <2>6. CountIn(queries, dups, i) \in Nat
    BY <2>1, CountNat
  <2> QED
    BY <1>2, <2>2, <2>3, <2>4, <2>5, <2>6
<1> QED
  BY ONLY ListInv, Counted, <1>1, <1>2, <1>4, CountedUpstream
-----------------------------------------------------------------------------
(* The fields of the nodes on a list that the steps leave alone.           *)
ListedKept == \A k \in Node : OnList(k, Listed) =>
                 node'[k].iden = node[k].iden /\ node'[k].request = node[k].request

(* A query that comes in changes the fields of a node on no list.          *)
LEMMA ReceiveKeepsListed ==
  ASSUME ListInv, NEW q \in Queries, NEW n \in Node, Receive(q, n),
         NEW rec, node' = [node EXCEPT ![n] = rec]
  PROVE  ListedKept
<1>1. ~Waits(n)
  BY UnusedNowhere DEF Receive
<1>2. \A k \in Node : k # n => node'[k] = node[k]
  BY DEF ListInv, Fields
<1> QED
  BY <1>1, <1>2 DEF ListedKept, Waits

LEMMA ReceiveCounts ==
  ASSUME ListInv, Counted, NEW q \in Queries, NEW n \in Node, Receive(q, n),
         ListedKept, Listed' = Listed
  PROVE  Counted'
<1>1. Requests /\ queries' = Append(queries, q) /\ asked' = asked /\ lost' = lost /\ dups' = dups /\ arrived' = arrived
  BY DEF ListInv, Receive, network
<1>2. \A r \in Received : queries'[r] = queries[r]
  BY <1>1, QueryAppended
<1>3. \A k \in Node : OnList(k, Listed) => node'[k].iden = node[k].iden
  BY DEF ListedKept
<1> QED
  BY ONLY ListInv, Counted, Listed' = Listed, <1>1, <1>2, <1>3, CountedSame

LEMMA ParseRejectsInv ==
  ASSUME ForwardInv, NEW q \in Queries, NEW n \in Node, ParseRejects(q, n)
  PROVE  ForwardInv' /\ Listed' = Listed /\ ListedKept
<1>1. ListInv /\ Counted /\ Receive(q, n)
  BY DEF ForwardInv, ParseRejects
<1>2. ListInv' /\ Listed' = Listed
  BY <1>1, ParseRejectsKeeps
<1>3. PICK rec : node' = [node EXCEPT ![n] = rec]
  BY DEF ParseRejects
<1>4. ListedKept
  BY <1>1, <1>3, ReceiveKeepsListed
<1>5. Counted'
  BY ONLY q \in Queries, n \in Node, <1>1, <1>2, <1>4, ReceiveCounts
<1> QED
  BY <1>2, <1>4, <1>5 DEF ForwardInv

LEMMA ParseRoutesInv ==
  ASSUME ForwardInv, NEW q \in Queries, NEW n \in Node, ParseRoutes(q, n)
  PROVE  ForwardInv' /\ Listed' = Listed /\ ListedKept
<1>1. ListInv /\ Counted /\ Receive(q, n)
  BY DEF ForwardInv, ParseRoutes
<1>2. ListInv' /\ Listed' = Listed
  BY <1>1, ParseRoutesKeeps
<1>3. PICK rec : node' = [node EXCEPT ![n] = rec]
  BY DEF ParseRoutes
<1>4. ListedKept
  BY ONLY <1>1, <1>3, ReceiveKeepsListed
<1>5. Counted'
  BY ONLY q \in Queries, n \in Node, <1>1, <1>2, <1>4, ReceiveCounts
<1> QED
  BY ONLY <1>2, <1>4, <1>5 DEF ForwardInv

LEMMA WriteBackInv ==
  ASSUME ForwardInv, WriteBack
  PROVE  ForwardInv' /\ Listed' = Listed /\ ListedKept
<1>1. ListInv /\ Counted
  BY DEF ForwardInv
<1>2. ListInv' /\ Listed' = Listed /\ \A k \in Node : OnList(k, Listed) => node'[k] = node[k]
  BY <1>1, WriteBackKeeps
<1>3. ListedKept
  BY <1>2 DEF ListedKept
<1>4. /\ asked' = asked /\ lost' = lost /\ dups' = dups /\ arrived' = arrived
      /\ \A r \in Received : queries'[r] = queries[r]
  BY DEF WriteBack, network
<1>5. \A k \in Node : OnList(k, Listed) => node'[k].iden = node[k].iden
  BY <1>2
<1>6. Counted'
  BY ONLY <1>1, <1>2, <1>4, <1>5, CountedSame
<1> QED
  BY <1>2, <1>3, <1>6 DEF ForwardInv

LEMMA UpstreamInv ==
  ASSUME ForwardInv, Upstream
  PROVE  ForwardInv' /\ Listed' = Listed /\ ListedKept
<1>1. ListInv /\ Counted
  BY DEF ForwardInv
<1>2. ASSUME NEW r \in asked, UpstreamLoss(r) PROVE ListInv' /\ Listed' = Listed /\ Counted' /\ node' = node
  BY <1>1, <1>2, UpstreamLossKeeps, UpstreamLossCounts DEF UpstreamLoss
<1>3. ASSUME NEW r \in asked, NEW rs \in Answers[queries[r].name], UpstreamAnswer(r, rs)
      PROVE  ListInv' /\ Listed' = Listed /\ Counted' /\ node' = node
  BY <1>1, <1>3, UpstreamAnswerKeeps, UpstreamAnswerCounts DEF UpstreamAnswer
<1>4. ASSUME NEW a \in arrived, UpstreamAnswerTwice(a)
      PROVE  ListInv' /\ Listed' = Listed /\ Counted' /\ node' = node
  BY <1>1, <1>4, UpstreamAnswerTwiceKeeps, UpstreamAnswerTwiceCounts DEF UpstreamAnswerTwice
<1>5. ListInv' /\ Listed' = Listed /\ Counted' /\ node' = node
  BY <1>2, <1>3, <1>4 DEF Upstream
<1> QED
  BY <1>5 DEF ForwardInv, ListedKept

(* No list and nothing the invariant speaks of changes.                    *)
LEMMA NothingMoves ==
  ASSUME ForwardInv, UNCHANGED <<mem, node, inbox, outbox, network, queries>>
  PROVE  ForwardInv' /\ Listed' = Listed /\ ListedKept
<1>1. ListInv /\ Counted
  BY DEF ForwardInv
<1>2. /\ mem' = mem /\ node' = node /\ inbox' = inbox /\ outbox' = outbox /\ queries' = queries
      /\ asked' = asked /\ arrived' = arrived /\ lost' = lost /\ dups' = dups
  BY DEF network
<1>3. InFlight'
  BY <1>1, <1>2 DEF ListInv, InFlight
<1>4. /\ asked' \subseteq asked /\ ArrivedFor' \subseteq ArrivedFor \cup (asked \ asked')
      /\ lost' \subseteq lost \cup (asked \ asked') /\ dups' \subseteq Received
  BY <1>1, <1>2 DEF ArrivedFor, ListInv, Requests
<1>5. ListInv' /\ Listed' = Listed
  BY ONLY <1>1, <1>2, <1>3, <1>4, UpstreamKeeps
<1>6. /\ \A r \in Received : queries'[r] = queries[r]
      /\ \A k \in Node : OnList(k, Listed) => node'[k].iden = node[k].iden
  BY <1>2
<1>7. Counted'
  BY ONLY <1>1, <1>2, <1>5, <1>6, CountedSame
<1> QED
  BY <1>2, <1>5, <1>7 DEF ForwardInv, ListedKept

(* Whatever keeps the lists: every step but those that list a request or   *)
(* take one off.                                                           *)
Aside == \/ \E q \in Queries, n \in Node : ParseRejects(q, n) \/ ParseRoutes(q, n)
         \/ WriteBack \/ Upstream \/ (\E a \in arrived : ParseUnmatched(a)) \/ UNCHANGED vars

LEMMA AsideInv ==
  ASSUME ForwardInv, Aside
  PROVE  ForwardInv' /\ Listed' = Listed /\ ListedKept
<1>1. CASE \E q \in Queries, n \in Node : ParseRejects(q, n) \/ ParseRoutes(q, n)
  BY <1>1, ParseRejectsInv, ParseRoutesInv
<1>2. CASE WriteBack
  BY <1>2, WriteBackInv
<1>3. CASE Upstream
  BY <1>3, UpstreamInv
<1>4. CASE \E a \in arrived : ParseUnmatched(a)
  <2>1. UNCHANGED <<mem, node, inbox, outbox, network, queries>>
    BY <1>4 DEF ParseUnmatched, history
  <2> QED
    BY <2>1, NothingMoves
<1>5. CASE UNCHANGED vars
  <2>1. UNCHANGED <<mem, node, inbox, outbox, network, queries>>
    BY <1>5 DEF vars, history
  <2> QED
    BY <2>1, NothingMoves
<1> QED
  BY <1>1, <1>2, <1>3, <1>4, <1>5 DEF Aside

LEMMA StepKinds ==
  ASSUME [Next]_vars
  PROVE  Aside \/ GetHostAddr \/ \E a \in arrived : ParseResponse(a)
BY DEF Next, Aside

LEMMA ForwardInvNext ==
  ASSUME ForwardInv, [Next]_vars
  PROVE  ForwardInv'
<1>1. CASE Aside
  BY <1>1, AsideInv
<1>2. CASE GetHostAddr
  BY <1>2, GetHostAddrKeeps, GetHostAddrCounts DEF ForwardInv
<1>3. CASE \E a \in arrived : ParseResponse(a)
  BY <1>3, ParseResponseKeeps, ParseResponseCounts DEF ForwardInv
<1> QED
  BY <1>1, <1>2, <1>3, StepKinds

(* The lists are circles that share no node, whatever upstream and the     *)
(* network do; every node that waits carries its own request and the       *)
(* request's identifier and is in that identifier's bucket, and the counts *)
(* agree.                                                                  *)
THEOREM ForwardInvariant == Spec => []ForwardInv
<1>1. ForwardInv /\ [Next]_vars => ForwardInv'
  BY ForwardInvNext
<1> QED
  BY ForwardInvInit, <1>1, PTL DEF Spec

(* Nothing but an answer with its identifier takes a request off the list, *)
(* and every such answer takes one.                                        *)
THEOREM ForwardNothingForgotten == Spec => []NothingForgotten
<1>1. ForwardInv => NothingForgotten
  <2> SUFFICES ASSUME ForwardInv, NEW i \in Idens
               PROVE  Cardinality({n \in ToSet(Listed[BucketOf[i]]) : node[n].iden = i}) + Having(dups, i)
                      = Having(asked, i) + Having(lost, i)
                        + Cardinality({a \in arrived : queries[a.request].iden = i})
    BY DEF NothingForgotten
  <2>1. OwnedOnce /\ Carried /\ Counted
    BY DEF ForwardInv, ListInv
  <2>2. PICK b \in Bucket : b = BucketOf[i]
    BY ForwardAssumption
  <2>3. PICK s \in Seq(Node) : s = Listed[b]
    BY <2>1, ListedIs
  <2>4. /\ \A n : n \in ToSet(s) <=> Among(n, s)
        /\ \A n : Among(n, s) => n \in Node
    <3>1. DOMAIN s = 1 .. Len(s) /\ \A k \in 1 .. Len(s) : s[k] \in Node
      BY LenProperties, ElementOfSeq
    <3> QED
      BY <3>1 DEF ToSet, Among
  <2>5. ASSUME NEW n \in Node, node[n].iden = i PROVE OnList(n, Listed) <=> Among(n, s)
    BY <2>1, <2>2, <2>3, <2>5 DEF OnList, Carried
  <2>6. {n \in ToSet(Listed[BucketOf[i]]) : node[n].iden = i} = WaitsFor(i)
    BY <2>2, <2>3, <2>4, <2>5 DEF WaitsFor
  <2>7. {a \in arrived : queries[a.request].iden = i} = AnswersFor(i)
    BY DEF AnswersFor, IdenOf
  <2>8. /\ Having(dups, i) = CountIn(queries, dups, i) /\ Having(asked, i) = CountIn(queries, asked, i)
        /\ Having(lost, i) = CountIn(queries, lost, i)
    BY HavingIs DEF Counts
  <2> QED
    BY <2>1, <2>6, <2>7, <2>8 DEF Counted
<1> QED
  BY <1>1, ForwardInvariant, PTL
-----------------------------------------------------------------------------
(* What Filter makes of a sequence without its kth member.                 *)

LEMMA HeadAndRest ==
  ASSUME NEW S, NEW x \in S, NEW t \in Seq(S)
  PROVE  <<x>> \o t # << >> /\ Head(<<x>> \o t) = x /\ Tail(<<x>> \o t) = t
<1>1. PICK u : u = <<x>> \o t
  OBVIOUS
<1>2. <<x>> \in Seq(S) /\ Len(<<x>>) = 1 /\ <<x>>[1] = x
  OBVIOUS
<1>3. PICK n \in Nat : n = Len(t)
  BY LenProperties
<1>4. u \in Seq(S) /\ Len(u) = 1 + n /\ \A i \in 1 .. 1 + n : u[i] = IF i <= 1 THEN <<x>>[i] ELSE t[i - 1]
  BY <1>1, <1>2, <1>3, ConcatProperties
<1>5. u # << >> /\ u[1] = x /\ \A i \in 1 .. n : u[i + 1] = t[i]
  BY <1>2, <1>3, <1>4
<1>6. PICK v : v = Tail(u)
  OBVIOUS
<1>7. v \in Seq(S) /\ Len(v) = n /\ \A i \in 1 .. n : v[i] = t[i]
  BY <1>3, <1>4, <1>5, <1>6, HeadTailProperties
<1>8. v = t
  BY <1>3, <1>7, SeqEqual
<1>9. Head(u) = x
  BY <1>4, <1>5
<1> QED
  BY <1>1, <1>5, <1>6, <1>8, <1>9

LEMMA FilterNone ==
  ASSUME NEW S, NEW s \in Seq(S), NEW T, \A i \in 1 .. Len(s) : s[i] \notin T
  PROVE  Filter(s, T) = << >>
<1>1. Len(s) \in Nat
  BY LenProperties
<1>2. Filter(s, T) = Filter(s, {})
  BY <1>1, FilterSame
<1>3. Filter(s, {}) \in Seq(S \cap {})
  BY FilterType
<1>4. PICK f : f = Filter(s, {}) /\ f \in Seq({})
  BY <1>3
<1>5. f = << >>
  <2> SUFFICES ASSUME f # << >> PROVE FALSE
    OBVIOUS
  <2>1. Len(f) \in Nat \ {0}
    BY <1>4, EmptySeq
  <2>2. 1 \in 1 .. Len(f)
    BY <2>1
  <2>3. f[1] \in {}
    BY <1>4, <2>2, ElementOfSeq
  <2> QED
    BY <2>3
<1> QED
  BY <1>2, <1>4, <1>5

LEMMA FilterCut ==
  ASSUME NEW S, NEW s \in Seq(S), NEW k \in 1 .. Len(s), NEW T
  PROVE  /\ s[k] \notin T => Filter(Cut(s, k), T) = Filter(s, T)
         /\ s[k] \in T /\ (\A j \in 1 .. k - 1 : s[j] \notin T) =>
              /\ Filter(s, T) # << >> /\ Head(Filter(s, T)) = s[k]
              /\ Tail(Filter(s, T)) = Filter(Cut(s, k), T)
<1>1. PICK n \in Nat : n = Len(s) /\ \A i \in 1 .. n : s[i] \in S
  BY LenProperties, ElementOfSeq
<1>2. PICK p, r, x, c : /\ p = SubSeq(s, 1, k - 1) /\ r = SubSeq(s, k + 1, n)
                        /\ x = s[k] /\ c = Cut(s, k)
  OBVIOUS
<1>3. p \in Seq(S) /\ Len(p) = k - 1 /\ \A i \in 1 .. k - 1 : p[i] = s[i]
  BY <1>1, <1>2, SubSeqProperties
<1>4. r \in Seq(S) /\ Len(r) = n - k /\ \A i \in 1 .. n - k : r[i] = s[k + i]
  <2>1. \A i \in k + 1 .. n : s[i] \in S
    BY <1>1
  <2>2. /\ r \in Seq(S) /\ Len(r) = IF k + 1 <= n THEN n - (k + 1) + 1 ELSE 0
        /\ \A i \in 1 .. n - (k + 1) + 1 : r[i] = s[(k + 1) + i - 1]
    BY <1>1, <1>2, <2>1, SubSeqProperties
  <2>3. n - (k + 1) + 1 = n - k /\ \A i \in 1 .. n - k : (k + 1) + i - 1 = k + i
    BY <1>1
  <2> QED
    BY <1>1, <2>2, <2>3
<1>5. PICK u : u = Append(p, x)
  OBVIOUS
<1>6. u \in Seq(S) /\ Len(u) = k /\ u[k] = s[k] /\ \A i \in 1 .. k - 1 : u[i] = s[i]
  BY <1>1, <1>2, <1>3, <1>5, AppendProperties
<1>7. s = u \o r
  <2>1. PICK v : v = u \o r
    OBVIOUS
  <2>2. v \in Seq(S) /\ Len(v) = n /\ \A i \in 1 .. n : v[i] = IF i <= k THEN u[i] ELSE r[i - k]
    <3>1. /\ v \in Seq(S) /\ Len(v) = Len(u) + Len(r)
          /\ \A i \in 1 .. Len(u) + Len(r) : v[i] = IF i <= Len(u) THEN u[i] ELSE r[i - Len(u)]
      BY <1>4, <1>6, <2>1, ConcatProperties
    <3>2. Len(u) = k /\ Len(u) + Len(r) = n
      BY <1>1, <1>4, <1>6
    <3> QED
      BY <3>1, <3>2
  <2>3. ASSUME NEW i \in 1 .. n PROVE v[i] = s[i]
    <3>1. CASE i <= k
      BY <1>1, <1>6, <2>2, <3>1
    <3>2. CASE ~(i <= k)
      <4>1. i - k \in 1 .. n - k /\ k + (i - k) = i
        BY <1>1, <3>2
      <4> QED
        BY <1>4, <2>2, <3>2, <4>1
    <3> QED
      BY <3>1, <3>2
  <2> QED
    BY <1>1, <2>1, <2>2, <2>3, SeqEqual
<1>8. c = p \o r
  <2>1. PICK v : v = p \o r
    OBVIOUS
  <2>2. /\ v \in Seq(S) /\ Len(v) = n - 1
        /\ \A i \in 1 .. n - 1 : v[i] = IF i <= k - 1 THEN p[i] ELSE r[i - (k - 1)]
    <3>1. /\ v \in Seq(S) /\ Len(v) = Len(p) + Len(r)
          /\ \A i \in 1 .. Len(p) + Len(r) : v[i] = IF i <= Len(p) THEN p[i] ELSE r[i - Len(p)]
      BY <1>3, <1>4, <2>1, ConcatProperties
    <3>2. Len(p) = k - 1 /\ Len(p) + Len(r) = n - 1
      BY <1>1, <1>3, <1>4
    <3> QED
      BY <3>1, <3>2
  <2>3. c \in Seq(S) /\ Len(c) = n - 1 /\ \A i \in 1 .. n - 1 : c[i] = IF i < k THEN s[i] ELSE s[i + 1]
    BY <1>1, <1>2, CutProperties
  <2>4. ASSUME NEW i \in 1 .. n - 1 PROVE v[i] = c[i]
    <3>1. CASE i < k
      <4>1. i <= k - 1 /\ i \in 1 .. k - 1
        BY <1>1, <3>1
      <4>2. v[i] = p[i] /\ p[i] = s[i]
        BY <1>3, <2>2, <4>1
      <4>3. c[i] = s[i]
        BY <2>3, <3>1
      <4> QED
        BY <4>2, <4>3
    <3>2. CASE ~(i < k)
      <4>1. i - (k - 1) \in 1 .. n - k /\ k + (i - (k - 1)) = i + 1 /\ ~(i <= k - 1)
        BY <1>1, <3>2
      <4> QED
        BY <1>4, <2>2, <2>3, <3>2, <4>1
    <3> QED
      BY <3>1, <3>2
  <2> QED
    <3>1. v \in Seq(S) /\ c \in Seq(S) /\ Len(v) = Len(c) /\ \A i \in 1 .. Len(v) : v[i] = c[i]
      BY <2>2, <2>3, <2>4
    <3>2. v = c
      BY ONLY <3>1, SeqEqual
    <3> QED
      BY <2>1, <3>2
<1>9. Filter(s, T) = Filter(u, T) \o Filter(r, T) /\ Filter(c, T) = Filter(p, T) \o Filter(r, T)
  <2>1. p \in Seq(S) /\ r \in Seq(S) /\ u \in Seq(S)
    BY <1>3, <1>4, <1>6
  <2>2. \A y \in Seq(S), z \in Seq(S) : Filter(y \o z, T) = Filter(y, T) \o Filter(z, T)
    BY FilterConcat
  <2>3. Filter(u \o r, T) = Filter(u, T) \o Filter(r, T)
    BY ONLY <2>1, <2>2
  <2>4. Filter(p \o r, T) = Filter(p, T) \o Filter(r, T)
    BY ONLY <2>1, <2>2
  <2> QED
    BY ONLY <1>7, <1>8, <2>3, <2>4
<1>10. Filter(u, T) = IF x \in T THEN Append(Filter(p, T), x) ELSE Filter(p, T)
  <2>1. p \in Seq(S) /\ x \in S
    BY <1>1, <1>2, <1>3
  <2>2. \A y \in Seq(S) : \A z \in S :
          Filter(Append(y, z), T) = IF z \in T THEN Append(Filter(y, T), z) ELSE Filter(y, T)
    BY FilterAppend
  <2>3. Filter(Append(p, x), T) = IF x \in T THEN Append(Filter(p, T), x) ELSE Filter(p, T)
    BY ONLY <2>1, <2>2
  <2> QED
    BY ONLY <1>5, <2>3
<1>11. ASSUME s[k] \in T, \A j \in 1 .. k - 1 : s[j] \notin T
       PROVE  /\ Filter(s, T) # << >> /\ Head(Filter(s, T)) = s[k]
              /\ Tail(Filter(s, T)) = Filter(c, T)
  <2>1. Filter(p, T) = << >>
    <3>1. p \in Seq(S) /\ \A i \in 1 .. Len(p) : p[i] \notin T
      BY <1>3, <1>11
    <3> QED
      BY ONLY <3>1, FilterNone
  <2>2. Filter(u, T) = <<x>>
    <3>1. Filter(u, T) = Append(<< >>, x)
      BY <1>2, <1>10, <1>11, <2>1
    <3> QED
      BY <3>1
  <2>3. Filter(r, T) \in Seq(S)
    <3>1. Filter(r, T) \in Seq(S \cap T)
      BY <1>4, FilterType
    <3> QED
      BY <3>1, SeqMonotonic
  <2>4. Filter(c, T) = Filter(r, T)
    BY <1>9, <2>1, <2>3, ConcatEmptySeq
  <2>5. x \in S
    BY <1>1, <1>2
  <2>6. Filter(s, T) = <<x>> \o Filter(r, T)
    BY ONLY <1>9, <2>2
  <2>7. /\ <<x>> \o Filter(r, T) # << >> /\ Head(<<x>> \o Filter(r, T)) = x
        /\ Tail(<<x>> \o Filter(r, T)) = Filter(r, T)
    BY <2>3, <2>5, HeadAndRest
  <2> QED
    BY ONLY <1>2, <2>4, <2>6, <2>7
<1> QED
  BY <1>2, <1>9, <1>10, <1>11
-----------------------------------------------------------------------------
(* The buckets as queues of requests.                                      *)

Of(nodes, i) == {n \in Node : nodes[n].iden = i}
RequestsOf(nodes, s) == [k \in DOMAIN s |-> nodes[s[k]].request]
InBucket(lists, nodes, i) == Filter(lists[BucketOf[i]], Of(nodes, i))

LEMMA WaitingIs == \A i : WaitingFor(i) = RequestsOf(node, InBucket(Listed, node, i))
BY DEF WaitingFor, RequestsOf, InBucket, Of

LEMMA WaitingNextIs == (\A i : WaitingFor(i) = RequestsOf(node, InBucket(Listed, node, i)))'
BY WaitingIs, PTL

LEMMA InBucketType ==
  ASSUME OwnedOnce, NEW i \in Idens
  PROVE  /\ Listed[BucketOf[i]] \in Seq(Node)
         /\ InBucket(Listed, node, i) \in Seq(Node)
         /\ \A k \in 1 .. Len(InBucket(Listed, node, i)) : OnList(InBucket(Listed, node, i)[k], Listed)
<1>1. PICK b \in Bucket : b = BucketOf[i]
  BY ONLY ForwardAssumption
<1>2. PICK s \in Seq(Node) : s = Listed[b]
  BY ListedIs
<1>3. PICK n \in Nat : n = Len(s) /\ s \in [1 .. n -> Node]
  BY LenProperties
<1>4. s \in Seq(Nodes(s))
  <2>1. \A k \in 1 .. n : s[k] \in Nodes(s)
    BY <1>3 DEF Nodes
  <2>2. s \in [1 .. n -> Nodes(s)]
    BY <1>3, <2>1
  <2> QED
    BY <2>2, SeqDef
<1>5. PICK f : f = Filter(s, Of(node, i)) /\ f \in Seq(Nodes(s) \cap Of(node, i))
  BY <1>4, FilterType
<1>6. Nodes(s) \cap Of(node, i) \subseteq Node
  BY DEF Of
<1>7. f \in Seq(Node)
  BY <1>5, <1>6, SeqMonotonic
<1>8. ASSUME NEW k \in 1 .. Len(f) PROVE OnList(f[k], Listed)
  <2>1. f[k] \in Nodes(s)
    BY <1>5, ElementOfSeq
  <2> QED
    BY <1>2, <2>1 DEF Nodes, OnList, Among
<1> QED
  BY <1>1, <1>2, <1>5, <1>7, <1>8 DEF InBucket

LEMMA RequestsSame ==
  ASSUME NEW nodes, NEW others, NEW f \in Seq(Node),
         \A k \in 1 .. Len(f) : nodes[f[k]].request = others[f[k]].request
  PROVE  RequestsOf(others, f) = RequestsOf(nodes, f)
<1>1. DOMAIN f = 1 .. Len(f)
  BY LenProperties
<1> QED
  BY <1>1 DEF RequestsOf

LEMMA RequestsAppend ==
  ASSUME NEW nodes, NEW f \in Seq(Node), NEW n \in Node
  PROVE  RequestsOf(nodes, Append(f, n)) = Append(RequestsOf(nodes, f), nodes[n].request)
<1> DEFINE R == {nodes[k].request : k \in Node}
<1>1. PICK m \in Nat : m = Len(f) /\ DOMAIN f = 1 .. m /\ \A k \in 1 .. m : f[k] \in Node
  BY LenProperties, ElementOfSeq
<1>2. PICK g : g = Append(f, n)
  OBVIOUS
<1>3. g \in Seq(Node) /\ Len(g) = m + 1 /\ g[m + 1] = n /\ \A k \in 1 .. m : g[k] = f[k]
  BY <1>1, <1>2, AppendProperties
<1>4. DOMAIN g = 1 .. m + 1
  BY <1>3, LenProperties
<1>5. PICK u, v : u = RequestsOf(nodes, f) /\ v = RequestsOf(nodes, g)
  OBVIOUS
<1>6. u = [k \in 1 .. m |-> nodes[f[k]].request] /\ v = [k \in 1 .. m + 1 |-> nodes[g[k]].request]
  BY <1>1, <1>4, <1>5 DEF RequestsOf
<1>7. u \in Seq(R) /\ Len(u) = m
  <2>1. \A k \in 1 .. m : nodes[f[k]].request \in R
    BY <1>1
  <2>2. u \in [1 .. m -> R]
    BY <1>6, <2>1
  <2>3. u \in Seq(R)
    BY <2>2, SeqDef
  <2> QED
    BY <1>6, <2>2, <2>3, LenProperties
<1>8. PICK r \in R : r = nodes[n].request
  OBVIOUS
<1>9. PICK w : w = Append(u, r)
  OBVIOUS
<1>10. w \in Seq(R) /\ Len(w) = m + 1 /\ w[m + 1] = r /\ \A k \in 1 .. m : w[k] = u[k]
  BY <1>7, <1>9, AppendProperties
<1>11. DOMAIN w = 1 .. m + 1 /\ w = [k \in DOMAIN w |-> w[k]]
  BY <1>10, LenProperties
<1>12. \A k \in 1 .. m + 1 : w[k] = nodes[g[k]].request
  BY <1>3, <1>6, <1>8, <1>10
<1>13. w = v
  BY <1>6, <1>11, <1>12
<1> QED
  BY <1>2, <1>5, <1>8, <1>9, <1>13

LEMMA RequestsTail ==
  ASSUME NEW nodes, NEW f \in Seq(Node), f # << >>
  PROVE  /\ RequestsOf(nodes, f) # << >>
         /\ Head(RequestsOf(nodes, f)) = nodes[Head(f)].request
         /\ Tail(RequestsOf(nodes, f)) = RequestsOf(nodes, Tail(f))
<1> DEFINE R == {nodes[k].request : k \in Node}
<1>1. PICK m \in Nat : /\ m = Len(f) /\ m >= 1 /\ DOMAIN f = 1 .. m
                       /\ \A k \in 1 .. m : f[k] \in Node
  BY EmptySeq, LenProperties, ElementOfSeq
<1>2. PICK g, h : g = Tail(f) /\ h = Head(f)
  OBVIOUS
<1>3. g \in Seq(Node) /\ Len(g) = m - 1 /\ h = f[1] /\ \A k \in 1 .. m - 1 : g[k] = f[k + 1]
  BY <1>1, <1>2, HeadTailProperties
<1>4. DOMAIN g = 1 .. m - 1
  BY <1>3, LenProperties
<1>5. PICK u, v : u = RequestsOf(nodes, f) /\ v = RequestsOf(nodes, g)
  OBVIOUS
<1>6. u = [k \in 1 .. m |-> nodes[f[k]].request] /\ v = [k \in 1 .. m - 1 |-> nodes[g[k]].request]
  BY <1>1, <1>4, <1>5 DEF RequestsOf
<1>7. u \in Seq(R) /\ Len(u) = m
  <2>1. \A k \in 1 .. m : nodes[f[k]].request \in R
    BY <1>1
  <2>2. u \in [1 .. m -> R]
    BY <1>6, <2>1
  <2>3. u \in Seq(R)
    BY <2>2, SeqDef
  <2> QED
    BY <1>6, <2>2, <2>3, LenProperties
<1>8. u # << >> /\ u[1] = nodes[f[1]].request
  BY <1>1, <1>6, <1>7
<1>9. PICK w : w = Tail(u)
  OBVIOUS
<1>10. w \in Seq(R) /\ Len(w) = m - 1 /\ \A k \in 1 .. m - 1 : w[k] = u[k + 1]
  BY <1>1, <1>7, <1>8, <1>9, HeadTailProperties
<1>11. DOMAIN w = 1 .. m - 1 /\ w = [k \in DOMAIN w |-> w[k]]
  BY <1>10, LenProperties
<1>12. ASSUME NEW k \in 1 .. m - 1 PROVE w[k] = nodes[g[k]].request
  <2>1. k + 1 \in 1 .. m
    BY <1>1
  <2>2. u[k + 1] = nodes[f[k + 1]].request
    BY <1>6, <2>1
  <2> QED
    BY <1>3, <1>10, <2>2
<1>13. w = v
  BY <1>6, <1>11, <1>12
<1>14. Head(u) = u[1]
  BY <1>7, <1>8
<1> QED
  BY <1>2, <1>3, <1>5, <1>8, <1>9, <1>13, <1>14
(* Where the list is what it was, so are the queues.                       *)
LEMMA QueuesKept ==
  ASSUME OwnedOnce, ListedKept, Listed' = Listed, NEW i \in Idens
  PROVE  WaitingFor(i)' = WaitingFor(i)
<1>1. PICK b \in Bucket : b = BucketOf[i]
  BY ForwardAssumption
<1>2. PICK s \in Seq(Node) : s = Listed[b]
  BY ListedIs
<1>3. Len(s) \in Nat /\ \A k \in 1 .. Len(s) : s[k] \in Node /\ OnList(s[k], Listed)
  BY <1>2, LenProperties, ElementOfSeq DEF OnList, Among
<1>4. \A k \in 1 .. Len(s) : s[k] \in Of(node, i) <=> s[k] \in Of(node', i)
  BY <1>3 DEF ListedKept, Of
<1>5. Filter(s, Of(node, i)) = Filter(s, Of(node', i))
  BY ONLY <1>3, <1>4, FilterSame
<1>6. PICK f : f = InBucket(Listed, node, i)
  OBVIOUS
<1>7. InBucket(Listed', node', i) = f
  BY <1>1, <1>2, <1>5, <1>6 DEF InBucket
<1>8. f \in Seq(Node) /\ \A k \in 1 .. Len(f) : f[k] \in Node /\ OnList(f[k], Listed)
  BY <1>6, InBucketType, ElementOfSeq
<1>9. \A k \in 1 .. Len(f) : node[f[k]].request = node'[f[k]].request
  BY <1>8 DEF ListedKept
<1>10. RequestsOf(node', f) = RequestsOf(node, f)
  BY ONLY <1>8, <1>9, RequestsSame
<1>11. WaitingFor(i) = RequestsOf(node, f)
  BY <1>6, WaitingIs
<1>12. WaitingFor(i)' = RequestsOf(node', f)
  BY <1>7, WaitingNextIs
<1> QED
  BY <1>10, <1>11, <1>12

LEMMA AskQueues ==
  ASSUME OwnedOnce, NEW n \in Node, NEW b \in Bucket, Files(n, b), NEW i \in Idens
  PROVE  WaitingFor(i)' = IF i = node[n].iden THEN Append(WaitingFor(i), node[n].request)
                          ELSE WaitingFor(i)
<1>1. PICK c \in Bucket : c = BucketOf[i]
  BY ForwardAssumption
<1>2. PICK s \in Seq(Node) : s = Listed[c]
  BY ListedIs
<1>3. Listed' = Added(Listed, b, n) /\ b = BucketOf[node[n].iden]
      /\ \A k \in Node : node'[k].request = node[k].request /\ node'[k].iden = node[k].iden
  BY DEF Files
<1>4. Listed \in [Bucket -> Seq(Node)]
  BY DEF OwnedOnce, Shape
<1>5. Listed'[c] = IF c = b THEN Append(s, n) ELSE s
  BY <1>2, <1>3, <1>4 DEF Added
<1>6. Of(node', i) = Of(node, i)
  BY <1>3 DEF Of
<1>7. PICK f : f = InBucket(Listed, node, i)
  OBVIOUS
<1>8. f \in Seq(Node) /\ f = Filter(s, Of(node, i))
  BY <1>1, <1>2, <1>7, InBucketType DEF InBucket
<1>9. Filter(Append(s, n), Of(node, i)) = IF n \in Of(node, i) THEN Append(f, n) ELSE f
  BY <1>8, FilterAppend
<1>10. n \in Of(node, i) <=> i = node[n].iden
  BY DEF Of
<1>11. InBucket(Listed', node', i) = IF i = node[n].iden THEN Append(f, n) ELSE f
  <2>1. InBucket(Listed', node', i) = Filter(Listed'[c], Of(node, i))
    BY <1>1, <1>6 DEF InBucket
  <2>2. i = node[n].iden => c = b
    BY <1>1, <1>3
  <2> QED
    BY <1>5, <1>8, <1>9, <1>10, <2>1, <2>2
<1>12. RequestsOf(node', f) = RequestsOf(node, f)
  <2>1. \A k \in 1 .. Len(f) : node[f[k]].request = node'[f[k]].request
    BY <1>3, <1>8, ElementOfSeq
  <2> QED
    BY ONLY <1>8, <2>1, RequestsSame
<1>13. RequestsOf(node', Append(f, n)) = Append(RequestsOf(node, f), node[n].request)
  <2>1. RequestsOf(node', Append(f, n)) = Append(RequestsOf(node', f), node'[n].request)
    BY <1>8, RequestsAppend
  <2> QED
    BY <1>3, <1>12, <2>1
<1>14. WaitingFor(i) = RequestsOf(node, f)
  BY <1>7, WaitingIs
<1>15. WaitingFor(i)' = RequestsOf(node', InBucket(Listed', node', i))
  BY WaitingNextIs
<1> QED
  BY <1>11, <1>12, <1>13, <1>14, <1>15

LEMMA AnswerQueues ==
  ASSUME OwnedOnce, NEW a, NEW j \in Idens, NEW b \in Bucket, NEW k \in 1 .. Len(Listed[b]),
         NEW n \in Node, Serves(a, j, b, k, n), NEW i \in Idens
  PROVE  /\ i # j => WaitingFor(i)' = WaitingFor(i)
         /\ i = j => /\ WaitingFor(i) # << >> /\ Head(WaitingFor(i)) = node[n].request
                     /\ WaitingFor(i)' = Tail(WaitingFor(i))
<1>1. PICK c \in Bucket : c = BucketOf[i]
  BY ForwardAssumption
<1>2. PICK s \in Seq(Node) : s = Listed[c]
  BY ONLY SMTT(30), OwnedOnce, c \in Bucket, ListedIs
<1>3. /\ Listed' = Taken(Listed, b, k) /\ b = BucketOf[j] /\ n = Listed[b][k] /\ node[n].iden = j
      /\ \A l \in 1 .. k - 1 : node[Listed[b][l]].iden # j
      /\ \A l \in Node : node'[l].request = node[l].request /\ node'[l].iden = node[l].iden
  BY DEF Serves
<1>4. Listed \in [Bucket -> Seq(Node)]
  BY DEF OwnedOnce, Shape
<1>5. Listed'[c] = IF c = b THEN Cut(s, k) ELSE s
  BY <1>2, <1>3, <1>4 DEF Taken
<1>6. Of(node', i) = Of(node, i)
  BY <1>3 DEF Of
<1>7. PICK f : f = InBucket(Listed, node, i)
  OBVIOUS
<1>8. f \in Seq(Node) /\ f = Filter(s, Of(node, i))
  BY <1>1, <1>2, <1>7, InBucketType DEF InBucket
<1>9. InBucket(Listed', node', i) = Filter(Listed'[c], Of(node, i))
  BY <1>1, <1>6 DEF InBucket
<1>10. WaitingFor(i) = RequestsOf(node, f)
  BY <1>7, WaitingIs
<1>11. WaitingFor(i)' = RequestsOf(node', InBucket(Listed', node', i))
  BY WaitingNextIs
<1>12. \A g \in Seq(Node) : RequestsOf(node', g) = RequestsOf(node, g)
  <2> SUFFICES ASSUME NEW g \in Seq(Node) PROVE RequestsOf(node', g) = RequestsOf(node, g)
    OBVIOUS
  <2>1. \A l \in 1 .. Len(g) : node[g[l]].request = node'[g[l]].request
    BY <1>3, ElementOfSeq
  <2> QED
    BY <2>1, RequestsSame
<1>13. ASSUME i # j PROVE WaitingFor(i)' = WaitingFor(i)
  <2>1. CASE c = b
    <3>1. k \in 1 .. Len(s) /\ s[k] \notin Of(node, i)
      BY <1>2, <1>3, <1>13, <2>1 DEF Of
    <3>2. Filter(Cut(s, k), Of(node, i)) = Filter(s, Of(node, i))
      BY ONLY s \in Seq(Node), <3>1, FilterCut
    <3> QED
      BY <1>5, <1>8, <1>9, <1>10, <1>11, <1>12, <2>1, <3>2
  <2>2. CASE c # b
    BY <1>5, <1>8, <1>9, <1>10, <1>11, <1>12, <2>2
  <2> QED
    BY <2>1, <2>2
<1>14. ASSUME i = j
       PROVE  /\ WaitingFor(i) # << >> /\ Head(WaitingFor(i)) = node[n].request
              /\ WaitingFor(i)' = Tail(WaitingFor(i))
  <2>1. c = b /\ k \in 1 .. Len(s) /\ s[k] = n
    BY <1>1, <1>2, <1>3, <1>14
  <2>2. s[k] \in Of(node, i) /\ \A l \in 1 .. k - 1 : s[l] \notin Of(node, i)
    BY <1>2, <1>3, <1>14, <2>1 DEF Of
  <2>3. /\ Filter(s, Of(node, i)) # << >> /\ Head(Filter(s, Of(node, i))) = s[k]
        /\ Tail(Filter(s, Of(node, i))) = Filter(Cut(s, k), Of(node, i))
    <3>1. k \in 1 .. Len(s)
      BY <2>1
    <3> QED
      BY ONLY s \in Seq(Node), <2>2, <3>1, FilterCut
  <2>4. f # << >> /\ Head(f) = n /\ Tail(f) = InBucket(Listed', node', i)
    BY <1>5, <1>8, <1>9, <2>1, <2>3
  <2>5. /\ RequestsOf(node, f) # << >> /\ Head(RequestsOf(node, f)) = node[n].request
        /\ Tail(RequestsOf(node, f)) = RequestsOf(node, Tail(f))
    BY <1>8, <2>4, RequestsTail
  <2>6. Tail(f) \in Seq(Node)
    BY <1>8, <2>4, HeadTailProperties
  <2>7. RequestsOf(node', Tail(f)) = RequestsOf(node, Tail(f))
    BY <1>12, <2>6
  <2> QED
    BY <1>10, <1>11, <2>4, <2>5, <2>7
<1> QED
  BY <1>13, <1>14
LEMMA ListedAtFirst ==
  ASSUME Init, NEW b \in Bucket
  PROVE  Listed[b] = << >>
<1>1. mem \in Memory /\ \A c \in Bucket : mem.next[c] = c /\ mem.prev[c] = c
  <2>1. PICK link : link = [p \in Ptr |-> IF p \in Bucket THEN p ELSE Null]
    OBVIOUS
  <2>2. link \in [Ptr -> Ptr \cup {Null}] /\ \A c \in Bucket : link[c] = c
    BY <2>1, HeadsAndNodes
  <2>3. mem = [next |-> link, prev |-> link]
    BY <2>1 DEF Init
  <2> QED
    BY <2>2, <2>3 DEF Memory
<1>2. Shape(mem, [c \in Bucket |-> << >>])
  BY <1>1, EmptyLists
<1>3. Listed = [c \in Bucket |-> << >>]
  BY <1>2, ShapeListed DEF Listed
<1> QED
  BY <1>3

LEMMA QueuesInit == Init => Pending!Init
<1> SUFFICES ASSUME Init PROVE Pending!Init
  OBVIOUS
<1>2. ASSUME NEW i \in Idens PROVE WaitingFor(i) = << >>
  <2>1. PICK b \in Bucket : b = BucketOf[i]
    BY ForwardAssumption
  <2>2. InBucket(Listed, node, i) = << >>
    BY <2>1, ListedAtFirst, FilterEmpty DEF InBucket
  <2>3. RequestsOf(node, << >>) = << >>
    BY DEF RequestsOf
  <2> QED
    BY <2>2, <2>3, WaitingIs
<1> QED
  BY <1>2 DEF Pending!Init, Init

LEMMA QueuesNext ==
  ASSUME ForwardInv, [Next]_vars
  PROVE  [Pending!Next]_(Pending!vars)
<1>1. OwnedOnce /\ Requests /\ ListInv
  BY DEF ForwardInv, ListInv
<1>2. CASE Aside
  <2>1. Listed' = Listed /\ ListedKept
    BY <1>2, AsideInv
  <2>2. \A i \in Idens : WaitingFor(i)' = WaitingFor(i)
    BY <1>1, <2>1, QueuesKept
  <2>3. released' = released
    BY <1>2 DEF Aside, ParseRejects, ParseRoutes, Receive, WriteBack, Upstream, UpstreamAnswer,
                UpstreamAnswerTwice, UpstreamLoss, ParseUnmatched, history, vars
  <2> QED
    BY <2>2, <2>3 DEF Pending!vars
<1>3. CASE GetHostAddr
  <2>1. PICK n \in Node, b \in Bucket : Files(n, b)
    BY <1>1, <1>3, AskFacts
  <2>2. PICK j, r : j = node[n].iden /\ r = node[n].request
    OBVIOUS
  <2>3. j \in Idens /\ r \in Received
    BY <2>1, <2>2 DEF Files
  <2>4. r \in Request
    <3>1. PICK m \in Nat : m = Len(queries) /\ m <= MaxQueries
      BY <1>1, LenProperties DEF Requests
    <3> QED
      BY <2>3, <3>1, ForwardAssumption DEF Received, Request
  <2>5. \A i \in Idens : WaitingFor(i)' = IF i = j THEN Append(WaitingFor(i), r) ELSE WaitingFor(i)
    BY <1>1, <2>1, <2>2, AskQueues
  <2>6. released' = released
    BY <1>3 DEF GetHostAddr, history
  <2>7. Pending!Ask(j, r)
    BY <2>3, <2>5, <2>6 DEF Pending!Ask
  <2> QED
    BY <2>3, <2>4, <2>7 DEF Pending!Next
<1>4. CASE \E a \in arrived : ParseResponse(a)
  <2>1. PICK a \in arrived : ParseResponse(a)
    BY <1>4
  <2>2. PICK j \in Idens, b \in Bucket : \E k \in 1 .. Len(Listed[b]) : \E n \in Node : Serves(a, j, b, k, n)
    BY <1>1, <2>1, ResponseFacts
  <2>3. PICK k \in 1 .. Len(Listed[b]), n \in Node : Serves(a, j, b, k, n)
    BY <2>2
  <2>4. \A i \in Idens : /\ i # j => WaitingFor(i)' = WaitingFor(i)
                         /\ i = j => /\ WaitingFor(i) # << >> /\ Head(WaitingFor(i)) = node[n].request
                                     /\ WaitingFor(i)' = Tail(WaitingFor(i))
    BY <1>1, <2>3, AnswerQueues
  <2>5. released' = Append(released, node[n].request)
    BY <2>3 DEF Serves
  <2>6. Pending!Answer(j)
    BY <2>4, <2>5 DEF Pending!Answer
  <2> QED
    BY <2>6 DEF Pending!Next
<1> QED
  BY <1>2, <1>3, <1>4, StepKinds

(* The buckets implement PendingQueues: whatever the hash, the pointers    *)
(* and the loop over a bucket do, a request waits in the queue of its      *)
(* identifier, and an answer takes the oldest request of its identifier.   *)
THEOREM ForwardImplementsPending == Spec => ImplementsPending
<1>1. ForwardInv /\ [Next]_vars => [Pending!Next]_(Pending!vars)
  BY QueuesNext
<1> QED
  BY QueuesInit, <1>1, ForwardInvariant, PTL DEF Spec, ImplementsPending, Pending!Spec
-----------------------------------------------------------------------------
(* What is in the nodes, the cache and the replies.                        *)

(* The forwarder takes the answer to q, with the records rs, for one to r, *)
(* for they have the same identifier; v is what its walk over the records  *)
(* finds, which starts where the name of r has it start.                   *)
TakenFor(q, r, rs, v) ==
  /\ q \in Queries /\ r \in Queries /\ q.iden = r.iden /\ r.name # << >>
  /\ rs \in Answers[q.name] /\ v = AddressIn(WireAnswer(q, rs), Len(Dotted(r.name)))
Cached(h, v) ==
  \E q, r \in Queries : \E rs \in Answers[q.name] : h = Dotted(r.name) /\ TakenFor(q, r, rs, v)
Held(v) == v = Unresolved \/ \E q, r \in Queries : \E rs \in Answers[q.name] : TakenFor(q, r, rs, v)
ReadFrom(rs, v) == \E q, r \in Queries : TakenFor(q, r, rs, v)

(* What the parser has made of the query q, rejected or not.               *)
Parsed(f, q, rj) ==
  /\ f.data = WireQuery(q)
  /\ f.request \in rj => ~Accepted(WireQuery(q)) /\ f.host = << >>
  /\ f.request \notin rj => Accepted(WireQuery(q)) /\ f.host = Dotted(q.name) /\ f.iden = q.iden
Sourced(f) == Held(f.ipv4) /\ \A rs \in f.answer : ReadFrom(rs, f.ipv4)
Content(f, qs, rj) ==
  /\ Sourced(f)
  /\ f.request = 0 => f.data = << >> /\ f.host = << >>
  /\ f.request # 0 => f.request \in 1 .. Len(qs) /\ Parsed(f, qs[f.request], rj)
Replied(r, qs) ==
  /\ Held(r.addr)
  /\ r.request \in 1 .. Len(qs) /\ r.msg = Reply(WireQuery(qs[r.request]), r.addr)

NodesHold == \A n \in Node : Content(node[n], queries, rejected)
RejectedStay ==
  /\ rejected \subseteq Received
  /\ \A n \in Node : Waits(n) \/ Among(n, outbox) => node[n].request \notin rejected
CacheHolds == \A h \in DOMAIN cache : Cached(h, cache[h])
RepliesHold == \A r \in replies : Replied(r, queries)
Bounded == released \in Seq(Request) /\ Cardinality(dups) <= MaxDups /\ broken \in BOOLEAN
ContentInv == NodesHold /\ RejectedStay /\ CacheHolds /\ RepliesHold /\ Bounded

LEMMA QueryParses ==
  ASSUME NEW q \in Queries
  PROVE  /\ Iden(WireQuery(q)) = q.iden /\ Question(WireQuery(q)).host = Dotted(q.name)
         /\ Accepted(WireQuery(q)) <=> q.type = TypeA /\ q.name # << >>
         /\ AskRecursion(WireQuery(q)) = WireQuery(q)
<1>1. PICK m : m = WireQuery(q)
  OBVIOUS
<1>2. Proper(q)
  BY FieldTypes
<1>3. /\ Iden(m) = q.iden /\ Question(m).host = Dotted(q.name)
      /\ Accepted(m) <=> q.type = TypeA /\ q.name # << >>
      /\ AskRecursion(m) = m
  BY ONLY <1>1, <1>2, QueryParsed
<1> QED
  BY ONLY <1>1, <1>3, Zenon

(* A name the cache has, has been read out of an answer.                   *)
LEMMA SearchHeld ==
  ASSUME CacheHolds, NEW h
  PROVE  Held(Search(h))
<1>1. CASE h \in DOMAIN cache
  <2>1. PICK q \in Queries, r \in Queries :
          \E rs \in Answers[q.name] : h = Dotted(r.name) /\ TakenFor(q, r, rs, cache[h])
    BY ONLY CacheHolds, <1>1, Zenon DEF CacheHolds, Cached
  <2>2. Search(h) = cache[h]
    BY ONLY <1>1, Zenon DEF Search
  <2>3. Held(cache[h])
    BY ONLY <2>1, Zenon DEF Held
  <2> QED
    BY ONLY <2>2, <2>3, Zenon
<1>2. CASE h \notin DOMAIN cache
  BY ONLY <1>2, Zenon DEF Search, Held
<1> QED
  BY <1>1, <1>2

(* Requests stay what they are while further ones come in.                 *)
Continues(qs, rj, qs2, rj2) ==
  \A r \in 1 .. Len(qs) : r \in 1 .. Len(qs2) /\ qs2[r] = qs[r] /\ (r \in rj2 <=> r \in rj)

LEMMA ContentKept ==
  \A f, qs, rj, qs2, rj2 : Content(f, qs, rj) /\ Continues(qs, rj, qs2, rj2) => Content(f, qs2, rj2)
<1> SUFFICES ASSUME NEW f, NEW qs, NEW rj, NEW qs2, NEW rj2, Content(f, qs, rj), Continues(qs, rj, qs2, rj2)
             PROVE  Content(f, qs2, rj2)
  BY Zenon
<1>1. CASE f.request = 0
  BY ONLY Content(f, qs, rj), <1>1, Zenon DEF Content
<1>2. CASE f.request # 0
  <2>1. f.request \in 1 .. Len(qs) /\ Parsed(f, qs[f.request], rj) /\ Sourced(f)
    BY ONLY Content(f, qs, rj), <1>2, Zenon DEF Content
  <2>2. /\ f.request \in 1 .. Len(qs2) /\ qs2[f.request] = qs[f.request]
        /\ f.request \in rj2 <=> f.request \in rj
    BY ONLY Continues(qs, rj, qs2, rj2), <2>1, Zenon DEF Continues
  <2>3. Parsed(f, qs[f.request], rj2)
    BY ONLY <2>1, <2>2, Zenon DEF Parsed
  <2>4. Parsed(f, qs2[f.request], rj2)
    BY ONLY <2>2, <2>3, Zenon
  <2> QED
    BY ONLY <1>2, <2>1, <2>2, <2>4, Zenon DEF Content
<1> QED
  BY ONLY <1>1, <1>2, Zenon

LEMMA RepliedKept ==
  \A r, qs, rj, qs2, rj2 : Replied(r, qs) /\ Continues(qs, rj, qs2, rj2) => Replied(r, qs2)
BY Zenon DEF Replied, Continues

(* Of the fields just those that say something matter.                     *)
LEMMA ContentSame ==
  ASSUME NEW f, NEW g, NEW qs, NEW rj, Content(f, qs, rj),
         g.request = f.request, g.data = f.data, g.host = f.host, g.iden = f.iden, Sourced(g)
  PROVE  Content(g, qs, rj)
<1>1. CASE f.request = 0
  BY ONLY Content(f, qs, rj), Sourced(g), g.request = f.request, g.data = f.data, g.host = f.host, <1>1, Zenon
     DEF Content
<1>2. CASE f.request # 0
  <2>1. f.request \in 1 .. Len(qs) /\ Parsed(f, qs[f.request], rj)
    BY ONLY Content(f, qs, rj), <1>2, Zenon DEF Content
  <2>2. PICK q : q = qs[f.request]
    OBVIOUS
  <2>3. Parsed(f, q, rj)
    BY ONLY <2>1, <2>2, Zenon
  <2>4. Parsed(g, q, rj)
    BY ONLY <2>3, g.request = f.request, g.data = f.data, g.host = f.host, g.iden = f.iden, Zenon DEF Parsed
  <2>5. g.request # 0 /\ g.request \in 1 .. Len(qs) /\ Parsed(g, qs[g.request], rj)
    BY ONLY <1>2, <2>1, <2>2, <2>4, g.request = f.request, Zenon
  <2> QED
    BY ONLY <2>5, Sourced(g), Zenon DEF Content
<1> QED
  BY ONLY <1>1, <1>2, Zenon

LEMMA UnusedContent == \A qs, rj : Content(Unused, qs, rj)
<1>1. /\ Unused.request = 0 /\ Unused.data = << >> /\ Unused.host = << >> /\ Unused.ipv4 = Unresolved
      /\ Unused.answer = {}
  BY DEF Unused
<1>2. Sourced(Unused)
  BY ONLY <1>1, Zenon DEF Sourced, Held
<1> QED
  BY ONLY <1>1, <1>2, Zenon DEF Content

LEMMA ContentInit == Init => ContentInv
<1> SUFFICES ASSUME Init PROVE ContentInv
  OBVIOUS
<1>1. /\ node = [n \in Node |-> Unused] /\ inbox = << >> /\ outbox = << >> /\ cache = << >>
      /\ queries = << >> /\ rejected = {} /\ released = << >> /\ replies = {} /\ dups = {} /\ broken = FALSE
  BY DEF Init
<1>2. NodesHold
  BY <1>1, UnusedContent DEF NodesHold
<1>3. RejectedStay
  BY <1>1 DEF RejectedStay
<1>4. CacheHolds
  <2>1. DOMAIN cache = {}
    BY <1>1
  <2> QED
    BY ONLY <2>1, Zenon DEF CacheHolds
<1>5. RepliesHold
  BY <1>1 DEF RepliesHold
<1>6. Bounded
  <2>1. Cardinality(dups) = 0
    BY <1>1, FS_EmptySet
  <2>2. 0 <= MaxDups
    BY ForwardAssumption
  <2>3. released \in Seq(Request)
    BY <1>1
  <2> QED
    BY <1>1, <2>1, <2>2, <2>3 DEF Bounded
<1> QED
  BY ONLY <1>2, <1>3, <1>4, <1>5, <1>6, Zenon DEF ContentInv

(* A query comes in: what the other nodes and the replies hold, stays.     *)
LEMMA ReceiveContent ==
  ASSUME ListInv, ContentInv, NEW q \in Queries, NEW n \in Node, Receive(q, n),
         NEW rec, node' = [node EXCEPT ![n] = rec], Content(rec, queries', rejected'),
         rejected' = rejected \/ rejected' = rejected \cup {Len(queries')}, RejectedStay'
  PROVE  ContentInv'
<1>1. Requests /\ Fields
  BY DEF ListInv
<1>2. NodesHold /\ RejectedStay /\ CacheHolds /\ RepliesHold /\ Bounded
  BY DEF ContentInv
<1>3. /\ queries' = Append(queries, q) /\ cache' = cache /\ dups' = dups /\ released' = released
      /\ replies' = replies /\ broken' = broken
  BY DEF Receive, network, Alive
<1>4. Continues(queries, rejected, queries', rejected')
  <2>1. \A r \in Received : r \in Received' /\ queries'[r] = queries[r]
    BY <1>1, <1>3, QueryAppended
  <2>2. Len(queries') \notin Received
    BY <1>1, <1>3, QueryAppended
  <2>3. \A r \in Received : r \in rejected' <=> r \in rejected
    BY ONLY <2>2, rejected' = rejected \/ rejected' = rejected \cup {Len(queries')}
  <2> QED
    BY ONLY <2>1, <2>3, Zenon DEF Received, Continues
<1>5. node'[n] = rec /\ \A k \in Node : k # n => node'[k] = node[k]
  BY <1>1 DEF Fields
<1>6. NodesHold'
  <2>1. ASSUME NEW k \in Node PROVE Content(node'[k], queries', rejected')
    <3>1. CASE k = n
      BY ONLY <1>5, <3>1, Content(rec, queries', rejected'), Zenon
    <3>2. CASE k # n
      <4>1. Content(node[k], queries, rejected)
        BY ONLY <1>2, k \in Node, Zenon DEF NodesHold
      <4>2. Content(node[k], queries', rejected')
        BY ONLY <1>4, <4>1, ContentKept, Zenon
      <4> QED
        BY ONLY <1>5, <3>2, <4>2, k \in Node, Zenon
    <3> QED
      BY ONLY <3>1, <3>2, Zenon
  <2> QED
    BY <2>1 DEF NodesHold
<1>7. RepliesHold'
  <2>1. \A r \in replies : Replied(r, queries')
    BY ONLY <1>2, <1>4, RepliedKept, Zenon DEF RepliesHold
  <2> QED
    BY <1>3, <2>1 DEF RepliesHold
<1>8. CacheHolds' /\ Bounded'
  BY <1>2, <1>3 DEF CacheHolds, Cached, TakenFor, Bounded
<1> QED
  BY <1>6, <1>7, <1>8 DEF ContentInv

LEMMA ParseRejectsContent ==
  ASSUME ListInv, ContentInv, NEW q \in Queries, NEW n \in Node, ParseRejects(q, n)
  PROVE  ContentInv'
<1>1. PICK rec : rec = [Unused EXCEPT !.request = Len(queries'), !.data = WireQuery(q)]
  OBVIOUS
<1>2. /\ rec.request = Len(queries') /\ rec.data = WireQuery(q) /\ rec.host = << >>
      /\ rec.ipv4 = Unresolved /\ rec.answer = {}
  BY <1>1 DEF Unused
<1>3. /\ Receive(q, n) /\ ~Accepted(WireQuery(q)) /\ node' = [node EXCEPT ![n] = rec]
      /\ rejected' = rejected \cup {Len(queries')} /\ inbox' = inbox /\ outbox' = outbox
      /\ mem' = mem /\ queries' = Append(queries, q) /\ node[n] = Unused
  BY <1>1 DEF ParseRejects, Receive
<1>4. Requests /\ Fields
  BY DEF ListInv
<1>5. /\ \A r \in Received : r \in Received'
      /\ Len(queries') \in Received' /\ Len(queries') \notin Received
      /\ queries'[Len(queries')] = q
  BY <1>3, <1>4, QueryAppended
<1>6. Content(rec, queries', rejected')
  <2>1. Sourced(rec)
    BY ONLY <1>2, Zenon DEF Sourced, Held
  <2>2. rec.request \in rejected'
    BY ONLY <1>2, <1>3, Zenon
  <2>3. Parsed(rec, q, rejected')
    BY ONLY <1>2, <1>3, <2>2, Zenon DEF Parsed
  <2>4. rec.request # 0
    <3>1. 0 \notin Received'
      BY DEF Received
    <3> QED
      BY ONLY <1>2, <1>5, <3>1, Zenon
  <2>5. rec.request \in 1 .. Len(queries')
    BY ONLY <1>2, <1>5, Zenon DEF Received
  <2>6. Parsed(rec, queries'[rec.request], rejected')
    BY ONLY <1>2, <1>5, <2>3, Zenon
  <2> QED
    BY ONLY <2>1, <2>4, <2>5, <2>6, Zenon DEF Content
<1>7. RejectedStay'
  <2>0. RejectedStay
    BY DEF ContentInv
  <2>1. rejected' \subseteq Received'
    BY ONLY <1>3, <1>5, <2>0 DEF RejectedStay
  <2>2. Listed' = Listed
    BY ONLY <1>3 DEF Listed
  <2>3. \A k : Waits(k)' <=> Waits(k)
    BY ONLY <1>3, <2>2 DEF Waits
  <2>4. ~Waits(n) /\ ~Among(n, outbox)
    BY <1>3, UnusedNowhere
  <2>5. ASSUME NEW k \in Node, Waits(k)' \/ Among(k, outbox)'
        PROVE  node'[k].request \notin rejected'
    <3>1. Waits(k) \/ Among(k, outbox)
      BY ONLY <1>3, <2>3, <2>5, Zenon
    <3>2. k # n
      BY ONLY <2>4, <3>1, Zenon
    <3>3. node'[k] = node[k]
      BY <1>3, <1>4, <3>2 DEF Fields
    <3>4. node[k].request \in Received
      BY <3>1 DEF ListInv, Carried
    <3>5. node[k].request \notin rejected
      BY ONLY <2>0, <3>1, k \in Node, Zenon DEF RejectedStay
    <3>6. node[k].request # Len(queries')
      BY ONLY <1>5, <3>4, Zenon
    <3>7. node[k].request \notin rejected'
      BY ONLY <1>3, <3>5, <3>6
    <3> QED
      BY ONLY <3>3, <3>7, Zenon
  <2> QED
    BY <2>1, <2>5 DEF RejectedStay
<1> QED
  BY ONLY ListInv, ContentInv, q \in Queries, n \in Node, <1>3, <1>6, <1>7, ReceiveContent

LEMMA ParseRoutesContent ==
  ASSUME ListInv, ContentInv, NEW q \in Queries, NEW n \in Node, ParseRoutes(q, n)
  PROVE  ContentInv'
<1>1. PICK h, a, m : m = WireQuery(q) /\ h = Question(m).host /\ a = Search(h)
  OBVIOUS
<1>2. PICK rec : rec = [request |-> Len(queries'), data |-> m, host |-> h, iden |-> Iden(m),
                        ipv4 |-> a, answer |-> {}]
  OBVIOUS
<1>3. /\ Receive(q, n) /\ node' = [node EXCEPT ![n] = rec] /\ Accepted(m)
      /\ rejected' = rejected /\ mem' = mem /\ queries' = Append(queries, q) /\ node[n] = Unused
      /\ \/ inbox' = Append(inbox, n) /\ outbox' = outbox
         \/ inbox' = inbox /\ outbox' = Append(outbox, n)
  BY <1>1, <1>2 DEF ParseRoutes, Receive
<1>4. Requests /\ Fields /\ OwnedOnce
  BY DEF ListInv
<1>5. /\ \A r \in Received : r \in Received'
      /\ Len(queries') \in Received' /\ Len(queries') \notin Received
      /\ queries'[Len(queries')] = q
  BY <1>3, <1>4, QueryAppended
<1>6. RejectedStay /\ CacheHolds
  BY DEF ContentInv
<1>7. rec.request = Len(queries') /\ rec.request \notin rejected'
  BY <1>2, <1>3, <1>5, <1>6 DEF RejectedStay
<1>8. Content(rec, queries', rejected')
  <2>1. Sourced(rec)
    <3>1. Held(a)
      BY <1>1, <1>6, SearchHeld
    <3>2. rec.ipv4 = a /\ rec.answer = {}
      BY <1>2
    <3> QED
      BY ONLY <3>1, <3>2, Zenon DEF Sourced
  <2>2. h = Dotted(q.name) /\ Iden(m) = q.iden
    BY ONLY <1>1, q \in Queries, QueryParses
  <2>3. rec.data = WireQuery(q) /\ rec.host = Dotted(q.name) /\ rec.iden = q.iden
    BY <1>1, <1>2, <2>2
  <2>4. Accepted(WireQuery(q))
    BY ONLY <1>1, <1>3, Zenon
  <2>5. Parsed(rec, q, rejected')
    BY ONLY <1>7, <2>3, <2>4, Zenon DEF Parsed
  <2>6. rec.request # 0
    <3>1. 0 \notin Received'
      BY DEF Received
    <3> QED
      BY ONLY <1>5, <1>7, <3>1, Zenon
  <2>7. rec.request \in 1 .. Len(queries')
    BY ONLY <1>5, <1>7, Zenon DEF Received
  <2>8. Parsed(rec, queries'[rec.request], rejected')
    BY ONLY <1>5, <1>7, <2>5, Zenon
  <2> QED
    BY ONLY <2>1, <2>6, <2>7, <2>8, Zenon DEF Content
<1>9. RejectedStay'
  <2>1. rejected' \subseteq Received'
    BY ONLY <1>3, <1>5, <1>6 DEF RejectedStay
  <2>2. Listed' = Listed
    BY ONLY <1>3 DEF Listed
  <2>3. ~Waits(n) /\ ~Among(n, inbox) /\ ~Among(n, outbox)
    BY <1>3, UnusedNowhere
  <2>4. /\ inbox \in Seq(Node) /\ Distinct(inbox) /\ outbox \in Seq(Node) /\ Distinct(outbox)
    BY <1>4 DEF OwnedOnce
  <2>5. /\ \A x : Among(x, inbox') => Among(x, inbox) \/ x = n
        /\ \A x : Among(x, outbox') => Among(x, outbox) \/ x = n
    <3>1. CASE inbox' = Append(inbox, n) /\ outbox' = outbox
      <4>1. \A x : Among(x, Append(inbox, n)) <=> Among(x, inbox) \/ x = n
        BY ONLY n \in Node, <2>3, <2>4, RingIn
      <4> QED
        BY ONLY <3>1, <4>1, Zenon
    <3>2. CASE inbox' = inbox /\ outbox' = Append(outbox, n)
      <4>1. \A x : Among(x, Append(outbox, n)) <=> Among(x, outbox) \/ x = n
        BY ONLY n \in Node, <2>3, <2>4, RingIn
      <4> QED
        BY ONLY <3>2, <4>1, Zenon
    <3> QED
      BY ONLY <1>3, <3>1, <3>2, Zenon
  <2>6. ASSUME NEW k \in Node, Waits(k)' \/ Among(k, outbox)'
        PROVE  node'[k].request \notin rejected'
    <3>1. CASE k = n
      <4>1. node'[n] = rec
        BY <1>3, <1>4 DEF Fields
      <4> QED
        BY ONLY <1>7, <3>1, <4>1, Zenon
    <3>2. CASE k # n
      <4>1. node'[k] = node[k]
        BY <1>3, <1>4, <3>2 DEF Fields
      <4>2. Waits(k) \/ Among(k, outbox)
        BY ONLY <2>2, <2>5, <2>6, <3>2, Zenon DEF Waits
      <4>3. node[k].request \notin rejected
        BY ONLY <1>6, <4>2, k \in Node, Zenon DEF RejectedStay
      <4> QED
        BY ONLY <1>3, <4>1, <4>3
    <3> QED
      BY ONLY <3>1, <3>2, Zenon
  <2> QED
    BY ONLY <2>1, <2>6 DEF RejectedStay
<1> QED
  BY ONLY ListInv, ContentInv, q \in Queries, n \in Node, <1>3, <1>8, <1>9, ReceiveContent

(* The forwarder sets a flag that the client has set; the node moves from  *)
(* the ring to the list.                                                   *)
LEMMA GetHostAddrContent ==
  ASSUME ListInv, ContentInv, GetHostAddr
  PROVE  ContentInv'
<1>1. OwnedOnce /\ Fields /\ Carried /\ Requests
  BY DEF ListInv
<1>2. NodesHold /\ RejectedStay /\ CacheHolds /\ RepliesHold /\ Bounded
  BY DEF ContentInv
<1>3. PICK n \in Node, b \in Bucket :
        /\ n = Head(inbox) /\ Among(n, inbox) /\ node[n].request \in Received
        /\ \A x : OnList(x, Listed') <=> OnList(x, Listed) \/ x = n
  <2>1. PICK n \in Node, b \in Bucket : Files(n, b)
    BY AskFacts
  <2> QED
    BY ONLY <2>1, n \in Node, b \in Bucket, Zenon DEF Files
<1>4. /\ node' = [node EXCEPT ![n].data = AskRecursion(@)] /\ inbox' = Tail(inbox) /\ outbox' = outbox
      /\ inbox # << >> /\ cache' = cache /\ dups' = dups /\ queries' = queries /\ rejected' = rejected
      /\ released' = released /\ replies' = replies /\ broken' = broken
  BY <1>3 DEF GetHostAddr, history, Alive
<1>5. \A x : Among(x, inbox') => Among(x, inbox)
  <2>1. inbox \in Seq(Node) /\ Distinct(inbox)
    BY <1>1 DEF OwnedOnce
  <2>2. \A x : Among(x, Tail(inbox)) <=> Among(x, inbox) /\ x # Head(inbox)
    BY ONLY <1>4, <2>1, RingOut
  <2> QED
    BY ONLY <1>4, <2>2, Zenon
<1>6. /\ node'[n].data = AskRecursion(node[n].data)
      /\ node'[n].request = node[n].request /\ node'[n].host = node[n].host /\ node'[n].iden = node[n].iden
      /\ node'[n].ipv4 = node[n].ipv4 /\ node'[n].answer = node[n].answer
      /\ \A k \in Node : k # n => node'[k] = node[k]
  BY <1>1, <1>4, FieldNames DEF Fields
<1>7. AskRecursion(node[n].data) = node[n].data
  <2>1. PICK q \in Queries : q = queries[node[n].request]
    BY <1>1, <1>3, ElementOfSeq DEF Requests, Received
  <2>2. node[n].request # 0
    BY <1>3 DEF Received
  <2>3. Parsed(node[n], q, rejected)
    BY ONLY <1>2, <2>1, <2>2, n \in Node, Zenon DEF NodesHold, Content
  <2>4. node[n].data = WireQuery(q)
    BY ONLY <2>3, Zenon DEF Parsed
  <2>5. AskRecursion(WireQuery(q)) = WireQuery(q)
    BY ONLY q \in Queries, QueryParses
  <2> QED
    BY ONLY <2>4, <2>5, Zenon
<1>8. ASSUME NEW k \in Node
      PROVE  Content(node'[k], queries, rejected) /\ node'[k].request = node[k].request
  <2>1. Content(node[k], queries, rejected)
    BY ONLY <1>2, k \in Node, Zenon DEF NodesHold
  <2>2. CASE k = n
    <3>1. Content(node[n], queries, rejected)
      BY ONLY <2>1, <2>2, Zenon
    <3>2. Sourced(node[n])
      BY ONLY <3>1, Zenon DEF Content
    <3>3. Sourced(node'[n])
      BY ONLY <1>6, <3>2, Zenon DEF Sourced
    <3>4. PICK f, g : f = node[n] /\ g = node'[n]
      OBVIOUS
    <3>5. /\ Content(f, queries, rejected) /\ Sourced(g)
          /\ g.request = f.request /\ g.data = f.data /\ g.host = f.host /\ g.iden = f.iden
      BY ONLY <1>6, <1>7, <3>1, <3>3, <3>4, Zenon
    <3>6. Content(g, queries, rejected)
      BY ONLY <3>5, ContentSame
    <3> QED
      BY ONLY <2>2, <3>4, <3>5, <3>6, Zenon
  <2>3. CASE k # n
    BY ONLY <1>6, <2>1, <2>3, k \in Node, Zenon
  <2> QED
    BY ONLY <2>2, <2>3, Zenon
<1>9. NodesHold'
  BY <1>4, <1>8 DEF NodesHold
<1>10. RejectedStay'
  <2>1. rejected' \subseteq Received'
    BY <1>2, <1>4 DEF RejectedStay, Received
  <2>2. ASSUME NEW k \in Node, Waits(k)' \/ Among(k, outbox)'
        PROVE  node'[k].request \notin rejected'
    <3>1. Waits(k) \/ Among(k, outbox)
      BY ONLY <1>3, <1>4, <1>5, <2>2, Zenon DEF Waits
    <3>2. node[k].request \notin rejected
      BY ONLY <1>2, <3>1, k \in Node, Zenon DEF RejectedStay
    <3>3. node'[k].request = node[k].request
      BY ONLY <1>8, k \in Node, Zenon
    <3> QED
      BY ONLY <1>4, <3>2, <3>3
  <2> QED
    BY <2>1, <2>2 DEF RejectedStay
<1>11. CacheHolds' /\ RepliesHold' /\ Bounded'
  BY <1>2, <1>4 DEF CacheHolds, Cached, TakenFor, RepliesHold, Replied, Held, Bounded
<1> QED
  BY <1>9, <1>10, <1>11 DEF ContentInv

LEMMA AppendLast ==
  ASSUME NEW s \in Seq(Node), NEW x \in Node, NEW y \in Node, Append(s, x) = Append(s, y)
  PROVE  x = y
<1>1. Append(s, x)[Len(s) + 1] = x /\ Append(s, y)[Len(s) + 1] = y
  BY AppendProperties
<1> QED
  BY <1>1

(* The address is out of the records in the answer, and the node is one    *)
(* that has its identifier.                                                *)
Resolves(a, n, v) ==
  /\ Cached(node[n].host, v) /\ ReadFrom(a.records, v)
  /\ OnList(n, Listed) /\ \A x : OnList(x, Listed') => OnList(x, Listed)
  /\ node[n].request \in Received
  /\ node' = [node EXCEPT ![n].ipv4 = v, ![n].answer = {a.records}]
  /\ cache' = [h \in DOMAIN cache \cup {node[n].host} |-> IF h \in DOMAIN cache THEN cache[h] ELSE v]
  /\ outbox' = Append(outbox, n) /\ released' = Append(released, node[n].request)

LEMMA ResponseSource ==
  ASSUME ListInv, ContentInv, NEW a \in arrived, ParseResponse(a)
  PROVE  \E n \in Node : \E v : Resolves(a, n, v)
<1>1. OwnedOnce /\ Fields /\ Carried /\ Requests /\ InFlight
  BY DEF ListInv
<1>2. NodesHold /\ RejectedStay /\ CacheHolds /\ RepliesHold /\ Bounded
  BY DEF ContentInv
<1>3. PICK n \in Node :
        /\ node[n].iden = IdenOf(a.request) /\ OnList(n, Listed) /\ node[n].request \in Received
        /\ outbox' = Append(outbox, n) /\ \A x : OnList(x, Listed') => OnList(x, Listed)
  <2>0. PICK i \in Idens, b \in Bucket : \E k \in 1 .. Len(Listed[b]) : \E n \in Node : Serves(a, i, b, k, n)
    BY ResponseFacts, Zenon
  <2>1. PICK k \in 1 .. Len(Listed[b]), n \in Node : Serves(a, i, b, k, n)
    BY ONLY <2>0, Zenon
  <2>2. n \in Node /\ node[n].iden = IdenOf(a.request) /\ OnList(n, Listed) /\ node[n].request \in Received
        /\ outbox' = Append(outbox, n)
    BY ONLY <2>1, n \in Node, Zenon DEF Serves
  <2>3. \A x : OnList(x, Listed') => OnList(x, Listed)
    BY ONLY <2>1, Zenon DEF Serves
  <2> QED
    BY ONLY <2>2, <2>3, Zenon
<1>4. PICK item \in Node : \E v :
        /\ v = AddressIn(AnswerOctets(a), Len(node[item].host))
        /\ node' = [node EXCEPT ![item].ipv4 = v, ![item].answer = {a.records}]
        /\ cache' = [h \in DOMAIN cache \cup {node[item].host} |-> IF h \in DOMAIN cache THEN cache[h] ELSE v]
        /\ outbox' = Append(outbox, item) /\ released' = Append(released, node[item].request)
  BY DEF ParseResponse, Insert
<1>5. PICK v :
        /\ v = AddressIn(AnswerOctets(a), Len(node[item].host))
        /\ node' = [node EXCEPT ![item].ipv4 = v, ![item].answer = {a.records}]
        /\ cache' = [h \in DOMAIN cache \cup {node[item].host} |-> IF h \in DOMAIN cache THEN cache[h] ELSE v]
        /\ outbox' = Append(outbox, item) /\ released' = Append(released, node[item].request)
  BY ONLY <1>4, Zenon
<1>6. item = n
  <2>1. outbox \in Seq(Node)
    BY <1>1 DEF OwnedOnce
  <2>2. Append(outbox, item) = Append(outbox, n)
    BY ONLY <1>3, <1>5, Zenon
  <2> QED
    BY ONLY item \in Node, n \in Node, <2>1, <2>2, AppendLast
<1>7. PICK q \in Queries : q = queries[a.request] /\ a.records \in Answers[q.name]
  <2>1. a.request \in Received
    BY <1>1 DEF Requests, ArrivedFor
  <2>2. queries[a.request] \in Queries
    BY <1>1, <2>1, ElementOfSeq DEF Requests, Received
  <2> QED
    BY <1>1, <2>2 DEF InFlight
<1>8. PICK r \in Queries : r = queries[node[n].request]
  BY <1>1, <1>3, ElementOfSeq DEF Requests, Received
<1>9. node[n].host = Dotted(r.name) /\ Accepted(WireQuery(r))
  <2>1. node[n].request # 0
    BY <1>3 DEF Received
  <2>2. Parsed(node[n], r, rejected)
    BY ONLY <1>2, <1>8, <2>1, n \in Node, Zenon DEF NodesHold, Content
  <2>3. node[n].request \notin rejected
    BY ONLY <1>2, <1>3, n \in Node, Zenon DEF RejectedStay, Waits
  <2> QED
    BY ONLY <2>2, <2>3, Zenon DEF Parsed
<1>10. q.iden = r.iden
  <2>1. node[n].iden = IdenOf(node[n].request)
    BY <1>1, <1>3 DEF Carried, Waits
  <2> QED
    BY ONLY <1>3, <1>7, <1>8, <2>1, Zenon DEF IdenOf
<1>11. r.name # << >>
  BY ONLY <1>9, r \in Queries, QueryParses
<1>12. TakenFor(q, r, a.records, v)
  <2>1. AnswerOctets(a) = WireAnswer(q, a.records)
    BY ONLY <1>7, Zenon DEF AnswerOctets
  <2>2. v = AddressIn(WireAnswer(q, a.records), Len(Dotted(r.name)))
    BY ONLY <1>6, <1>9, <1>5, <2>1, Zenon
  <2> QED
    BY ONLY <1>7, <1>10, <1>11, <2>2, q \in Queries, r \in Queries, Zenon DEF TakenFor
<1>13. Cached(node[n].host, v)
  BY ONLY <1>7, <1>9, <1>12, q \in Queries, r \in Queries, Zenon DEF Cached
<1>14. ReadFrom(a.records, v)
  BY ONLY <1>12, q \in Queries, r \in Queries, Zenon DEF ReadFrom
<1> QED
  BY ONLY <1>3, <1>6, <1>13, <1>14, <1>5, n \in Node, Zenon DEF Resolves

LEMMA ParseResponseContent ==
  ASSUME ListInv, ContentInv, NEW a \in arrived, ParseResponse(a)
  PROVE  ContentInv'
<1>1. OwnedOnce /\ Fields /\ Carried /\ Requests
  BY DEF ListInv
<1>2. NodesHold /\ RejectedStay /\ CacheHolds /\ RepliesHold /\ Bounded
  BY DEF ContentInv
<1>3. PICK n \in Node : \E v : Resolves(a, n, v)
  BY ResponseSource
<1>4. PICK v : Resolves(a, n, v)
  BY ONLY <1>3, Zenon
<1>5. /\ Cached(node[n].host, v) /\ ReadFrom(a.records, v)
      /\ OnList(n, Listed) /\ \A x : OnList(x, Listed') => OnList(x, Listed)
      /\ node[n].request \in Received
      /\ node' = [node EXCEPT ![n].ipv4 = v, ![n].answer = {a.records}]
      /\ cache' = [h \in DOMAIN cache \cup {node[n].host} |-> IF h \in DOMAIN cache THEN cache[h] ELSE v]
      /\ outbox' = Append(outbox, n) /\ released' = Append(released, node[n].request)
  BY ONLY <1>4, Zenon DEF Resolves
<1>6. /\ inbox' = inbox /\ dups' = dups /\ queries' = queries /\ rejected' = rejected
      /\ replies' = replies /\ broken' = broken
  BY DEF ParseResponse, Alive
<1>7. /\ node'[n].ipv4 = v /\ node'[n].answer = {a.records}
      /\ node'[n].request = node[n].request /\ node'[n].host = node[n].host /\ node'[n].iden = node[n].iden
      /\ node'[n].data = node[n].data
      /\ \A k \in Node : k # n => node'[k] = node[k]
  BY <1>1, <1>5, FieldNames DEF Fields
<1>8. Sourced(node'[n])
  <2>1. Held(v)
    BY ONLY <1>5, Zenon DEF Cached, Held
  <2>2. \A rs \in node'[n].answer : ReadFrom(rs, v)
    BY ONLY <1>5, <1>7
  <2> QED
    BY ONLY <1>7, <2>1, <2>2, Zenon DEF Sourced
<1>9. ASSUME NEW k \in Node
      PROVE  Content(node'[k], queries, rejected) /\ node'[k].request = node[k].request
  <2>1. Content(node[k], queries, rejected)
    BY ONLY <1>2, k \in Node, Zenon DEF NodesHold
  <2>2. CASE k = n
    <3>1. PICK f, g : f = node[n] /\ g = node'[n]
      OBVIOUS
    <3>2. /\ Content(f, queries, rejected) /\ Sourced(g)
          /\ g.request = f.request /\ g.data = f.data /\ g.host = f.host /\ g.iden = f.iden
      BY ONLY <1>7, <1>8, <2>1, <2>2, <3>1, Zenon
    <3>3. Content(g, queries, rejected)
      BY ONLY <3>2, ContentSame
    <3> QED
      BY ONLY <2>2, <3>1, <3>2, <3>3, Zenon
  <2>3. CASE k # n
    BY ONLY <1>7, <2>1, <2>3, k \in Node, Zenon
  <2> QED
    BY ONLY <2>2, <2>3, Zenon
<1>10. NodesHold'
  BY <1>6, <1>9 DEF NodesHold
<1>11. RejectedStay'
  <2>1. rejected' \subseteq Received'
    BY <1>2, <1>6 DEF RejectedStay, Received
  <2>2. /\ outbox \in Seq(Node) /\ Distinct(outbox) /\ ~Among(n, outbox)
    BY <1>1, <1>5 DEF OwnedOnce, Waits
  <2>3. \A x : Among(x, outbox') => Among(x, outbox) \/ x = n
    <3>1. \A x : Among(x, Append(outbox, n)) <=> Among(x, outbox) \/ x = n
      BY ONLY n \in Node, <2>2, RingIn
    <3> QED
      BY ONLY <1>5, <3>1, Zenon
  <2>4. ASSUME NEW k \in Node, Waits(k)' \/ Among(k, outbox)'
        PROVE  node'[k].request \notin rejected'
    <3>1. Waits(k) \/ Among(k, outbox)
      BY ONLY <1>5, <1>6, <2>3, <2>4, Zenon DEF Waits
    <3>2. node[k].request \notin rejected
      BY ONLY <1>2, <3>1, k \in Node, Zenon DEF RejectedStay
    <3>3. node'[k].request = node[k].request
      BY ONLY <1>9, k \in Node, Zenon
    <3> QED
      BY ONLY <1>6, <3>2, <3>3
  <2> QED
    BY <2>1, <2>4 DEF RejectedStay
<1>12. CacheHolds'
  <2>1. ASSUME NEW h \in DOMAIN cache' PROVE Cached(h, cache'[h])
    <3>1. CASE h \in DOMAIN cache
      <4>1. cache'[h] = cache[h]
        BY ONLY <1>5, <3>1
      <4>2. Cached(h, cache[h])
        BY ONLY <1>2, <3>1, Zenon DEF CacheHolds
      <4> QED
        BY ONLY <4>1, <4>2, Zenon
    <3>2. CASE h \notin DOMAIN cache
      <4>1. h = node[n].host /\ cache'[h] = v
        BY ONLY <1>5, <2>1, <3>2
      <4> QED
        BY ONLY <1>5, <4>1, Zenon
    <3> QED
      BY ONLY <3>1, <3>2, Zenon
  <2> QED
    BY <2>1 DEF CacheHolds, Cached, TakenFor
<1>13. RepliesHold'
  BY <1>2, <1>6 DEF RepliesHold, Replied, Held, TakenFor
<1>14. Bounded'
  <2>1. node[n].request \in Request
    <3>1. \A r \in Received : r \in Request
      BY <1>1, ForwardAssumption, LenProperties DEF Requests, Received, Request
    <3> QED
      BY ONLY <1>5, <3>1, Zenon
  <2>2. released \in Seq(Request)
    BY <1>2 DEF Bounded
  <2>3. Append(released, node[n].request) \in Seq(Request)
    BY ONLY <2>1, <2>2, AppendProperties
  <2> QED
    BY <1>2, <1>5, <1>6, <2>3 DEF Bounded
<1> QED
  BY <1>10, <1>11, <1>12, <1>13, <1>14 DEF ContentInv

LEMMA WriteBackContent ==
  ASSUME ListInv, ContentInv, WriteBack
  PROVE  ContentInv'
<1>1. OwnedOnce /\ Fields /\ Carried /\ Requests
  BY DEF ListInv
<1>2. NodesHold /\ RejectedStay /\ CacheHolds /\ RepliesHold /\ Bounded
  BY DEF ContentInv
<1>3. outbox \in Seq(Node) /\ Distinct(outbox) /\ outbox # << >>
  BY <1>1 DEF OwnedOnce, WriteBack
<1>4. PICK n \in Node : n = Head(outbox) /\ Among(n, outbox)
  BY ONLY <1>3, RingOut
<1>5. PICK r : r = [request |-> node[n].request, addr |-> node[n].ipv4, msg |-> Reply(node[n].data, node[n].ipv4)]
  OBVIOUS
<1>6. /\ node' = [node EXCEPT ![n] = Unused] /\ replies' = replies \cup {r} /\ outbox' = Tail(outbox)
      /\ mem' = mem /\ inbox' = inbox /\ cache' = cache /\ dups' = dups /\ queries' = queries
      /\ rejected' = rejected /\ released' = released /\ broken' = broken
  BY <1>4, <1>5 DEF WriteBack, network, Alive
<1>7. node'[n] = Unused /\ \A k \in Node : k # n => node'[k] = node[k]
  BY <1>1, <1>6 DEF Fields
<1>8. NodesHold'
  <2>1. ASSUME NEW k \in Node PROVE Content(node'[k], queries, rejected)
    BY ONLY <1>2, <1>7, k \in Node, UnusedContent, Zenon DEF NodesHold
  <2> QED
    BY <1>6, <2>1 DEF NodesHold
<1>9. Replied(r, queries)
  <2>1. node[n].request \in Received
    BY <1>1, <1>4 DEF Carried
  <2>2. node[n].request # 0
    BY <2>1 DEF Received
  <2>3. Content(node[n], queries, rejected)
    BY ONLY <1>2, n \in Node, Zenon DEF NodesHold
  <2>4. Held(node[n].ipv4) /\ node[n].data = WireQuery(queries[node[n].request])
    BY ONLY <2>2, <2>3, Zenon DEF Content, Sourced, Parsed
  <2>5. r.request = node[n].request /\ r.addr = node[n].ipv4 /\ r.msg = Reply(node[n].data, node[n].ipv4)
    BY <1>5
  <2>6. r.request \in 1 .. Len(queries)
    BY ONLY <2>1, <2>5, Zenon DEF Received
  <2>7. Held(r.addr) /\ r.msg = Reply(WireQuery(queries[r.request]), r.addr)
    BY ONLY <2>4, <2>5, Zenon
  <2> QED
    BY ONLY <2>6, <2>7, Zenon DEF Replied
<1>10. RepliesHold'
  <2>1. \A s \in replies' : Replied(s, queries)
    BY ONLY <1>2, <1>6, <1>9 DEF RepliesHold
  <2> QED
    BY <1>6, <2>1 DEF RepliesHold
<1>11. RejectedStay'
  <2>1. rejected' \subseteq Received'
    BY <1>2, <1>6 DEF RejectedStay, Received
  <2>2. \A x : Among(x, outbox') <=> Among(x, outbox) /\ x # n
    <3>1. \A x : Among(x, Tail(outbox)) <=> Among(x, outbox) /\ x # Head(outbox)
      BY ONLY <1>3, RingOut
    <3> QED
      BY ONLY <1>4, <1>6, <3>1, Zenon
  <2>3. Listed' = Listed
    BY ONLY <1>6 DEF Listed
  <2>4. ASSUME NEW k \in Node, Waits(k)' \/ Among(k, outbox)'
        PROVE  node'[k].request \notin rejected'
    <3>1. Waits(k) \/ (Among(k, outbox) /\ k # n)
      BY ONLY <1>6, <2>2, <2>3, <2>4, Zenon DEF Waits
    <3>2. k # n
      <4>1. ~Waits(n)
        BY <1>1, <1>4 DEF OwnedOnce
      <4> QED
        BY ONLY <3>1, <4>1, Zenon
    <3>3. node[k].request \notin rejected
      BY ONLY <1>2, <3>1, k \in Node, Zenon DEF RejectedStay
    <3>4. node'[k] = node[k]
      BY ONLY <1>7, <3>2, k \in Node, Zenon
    <3> QED
      BY ONLY <1>6, <3>3, <3>4
  <2> QED
    BY <2>1, <2>4 DEF RejectedStay
<1>12. CacheHolds' /\ Bounded'
  BY <1>2, <1>6 DEF CacheHolds, Cached, TakenFor, Bounded
<1> QED
  BY <1>8, <1>10, <1>11, <1>12 DEF ContentInv

(* Whatever happens between the server and upstream, and after the server  *)
(* has used a head for a node, changes none of it.                         *)
LEMMA ElsewhereContent ==
  ASSUME ContentInv, UNCHANGED <<mem, node, inbox, outbox, cache, queries, rejected, released, replies>>,
         Cardinality(dups') <= MaxDups, broken' \in BOOLEAN
  PROVE  ContentInv'
<1>1. NodesHold /\ RejectedStay /\ CacheHolds /\ RepliesHold /\ Bounded
  BY DEF ContentInv
<1>2. NodesHold'
  BY <1>1 DEF NodesHold, Content, Sourced, Held, ReadFrom, TakenFor, Parsed
<1>3. RejectedStay'
  BY <1>1 DEF RejectedStay, Waits, Listed, Received
<1>4. CacheHolds' /\ RepliesHold'
  BY <1>1 DEF CacheHolds, Cached, TakenFor, RepliesHold, Replied, Held
<1>5. Bounded'
  BY <1>1 DEF Bounded
<1> QED
  BY <1>2, <1>3, <1>4, <1>5 DEF ContentInv

LEMMA UpstreamContent ==
  ASSUME ListInv, ContentInv, Upstream
  PROVE  ContentInv'
<1>1. Cardinality(dups) <= MaxDups /\ broken \in BOOLEAN
  BY DEF ContentInv, Bounded
<1>2. CASE \E r \in asked : UpstreamLoss(r) \/ \E s \in Answers[queries[r].name] : UpstreamAnswer(r, s)
  <2>1. /\ UNCHANGED <<mem, node, inbox, outbox, cache, queries, rejected, released, replies>>
        /\ dups' = dups /\ broken' = broken
    BY <1>2 DEF UpstreamLoss, UpstreamAnswer, history, Alive
  <2> QED
    BY <1>1, <2>1, ElsewhereContent
<1>3. CASE \E a \in arrived : UpstreamAnswerTwice(a)
  <2>1. PICK a \in arrived : UpstreamAnswerTwice(a)
    BY <1>3
  <2>2. /\ UNCHANGED <<mem, node, inbox, outbox, cache, queries, rejected, released, replies>>
        /\ a.request \notin dups /\ Cardinality(dups) < MaxDups /\ dups' = dups \cup {a.request}
        /\ broken' = broken
    BY <2>1 DEF UpstreamAnswerTwice, history, Alive
  <2>3. IsFiniteSet(dups)
    <3>1. dups \subseteq Received /\ Len(queries) \in Nat
      BY LenProperties DEF ListInv, Requests
    <3>2. IsFiniteSet(Received)
      BY <3>1, FS_Interval DEF Received
    <3> QED
      BY ONLY <3>1, <3>2, FS_Subset
  <2>4. PICK c \in Nat : c = Cardinality(dups) /\ Cardinality(dups \cup {a.request}) = c + 1
    BY ONLY <2>2, <2>3, FS_AddElement, FS_CardinalityType
  <2>5. c + 1 <= MaxDups
    <3>1. PICK d \in Nat : d = MaxDups
      BY ForwardAssumption
    <3>2. c < d
      BY ONLY <2>2, <2>4, <3>1
    <3>3. c + 1 <= d
      BY ONLY c \in Nat, d \in Nat, <3>2
    <3> QED
      BY ONLY <3>1, <3>3
  <2>6. Cardinality(dups') <= MaxDups
    BY ONLY <2>2, <2>4, <2>5
  <2> QED
    BY <1>1, <2>2, <2>6, ElsewhereContent
<1> QED
  BY <1>2, <1>3 DEF Upstream

LEMMA ContentNext ==
  ASSUME ForwardInv, ContentInv, [Next]_vars
  PROVE  ContentInv'
<1>0. ListInv
  BY DEF ForwardInv
<1>1. CASE \E q \in Queries, n \in Node : ParseRejects(q, n) \/ ParseRoutes(q, n)
  BY <1>0, <1>1, ParseRejectsContent, ParseRoutesContent
<1>2. CASE GetHostAddr
  BY <1>0, <1>2, GetHostAddrContent
<1>3. CASE WriteBack
  BY <1>0, <1>3, WriteBackContent
<1>4. CASE Upstream
  BY <1>0, <1>4, UpstreamContent
<1>5. CASE \E a \in arrived : ParseResponse(a)
  BY <1>0, <1>5, ParseResponseContent
<1>6. CASE (\E a \in arrived : ParseUnmatched(a)) \/ UNCHANGED vars
  <2>1. /\ UNCHANGED <<mem, node, inbox, outbox, cache, queries, rejected, released, replies, dups>>
        /\ broken' = broken \/ broken' = TRUE
    BY <1>6 DEF ParseUnmatched, vars, network, history
  <2>2. Cardinality(dups) <= MaxDups /\ broken \in BOOLEAN
    BY DEF ContentInv, Bounded
  <2>3. Cardinality(dups') <= MaxDups /\ broken' \in BOOLEAN
    BY ONLY <2>1, <2>2
  <2> QED
    BY ONLY ContentInv, <2>1, <2>3, ElsewhereContent
<1> QED
  BY <1>1, <1>2, <1>3, <1>4, <1>5, <1>6 DEF Next

(* The nodes, the cache and the replies have what the queries say, and     *)
(* addresses that the walk has found in answers to queries with the same   *)
(* identifier; no request that was turned away waits for an address.       *)
(* Nothing is assumed of who chooses which identifier.                     *)
THEOREM ForwardContents == Spec => []ContentInv
<1>1. ContentInv /\ ForwardInv /\ [Next]_vars => ContentInv'
  BY ContentNext
<1> QED
  BY ContentInit, <1>1, ForwardInvariant, PTL DEF Spec

-----------------------------------------------------------------------------
(* What the walk over the records of an answer finds.                      *)

LEMMA SourceFour == \A q, r, rs, v : TakenFor(q, r, rs, v) => Len(v) = 4
<1> SUFFICES ASSUME NEW q, NEW r, NEW rs, NEW v, TakenFor(q, r, rs, v) PROVE Len(v) = 4
  BY Zenon
<1>1. PICK m, h : m = WireAnswer(q, rs) /\ h = Len(Dotted(r.name)) /\ v = AddressIn(m, h)
  BY Zenon DEF TakenFor
<1>2. q \in Queries /\ r \in Queries /\ rs \in Answers[q.name]
  BY Zenon DEF TakenFor
<1>3. Proper(q) /\ Proper(r) /\ rs \in Seq(Records)
  BY ONLY <1>2, FieldTypes
<1>4. h \in Nat
  <2>1. Dotted(r.name) \in Seq(Octet)
    BY ONLY <1>3, DottedOctets DEF Proper
  <2> QED
    BY ONLY <1>1, <2>1, LenProperties
<1>5. QuestionAndRest(m, q.name, q.type, WireRecords(rs \o Extras(q)))
  BY ONLY <1>1, <1>3, AnswerRead
<1>6. m \in Seq(Nat)
  BY ONLY <1>5, Zenon DEF QuestionAndRest
<1>7. Len(m) \in Nat
  BY ONLY <1>6, LenProperties
<1>8. Len(AddressIn(m, h)) = 4
  BY ONLY <1>4, <1>7, AddressFour
<1> QED
  BY ONLY <1>1, <1>8, Zenon

(* Where equal identifiers mean equal names an answer is only taken for    *)
(* one to its own query.                                                   *)
FromAnswer(q, rs, v) ==
  /\ q \in Queries /\ rs \in Answers[q.name] /\ q.name # << >>
  /\ v = AddressIn(WireAnswer(q, rs), Len(Dotted(q.name)))

LEMMA TakenForItsOwn ==
  ASSUME IdensApart
  PROVE  \A q, r, rs, v : TakenFor(q, r, rs, v) => FromAnswer(q, rs, v) /\ q.name = r.name
<1> SUFFICES ASSUME NEW q, NEW r, NEW rs, NEW v, TakenFor(q, r, rs, v)
             PROVE  FromAnswer(q, rs, v) /\ q.name = r.name
  BY Zenon
<1>1. /\ q \in Queries /\ r \in Queries /\ q.iden = r.iden /\ r.name # << >>
      /\ rs \in Answers[q.name] /\ v = AddressIn(WireAnswer(q, rs), Len(Dotted(r.name)))
  BY Zenon DEF TakenFor
<1>2. q.name = r.name
  BY ONLY IdensApart, <1>1, Zenon DEF IdensApart
<1> QED
  BY ONLY <1>1, <1>2, Zenon DEF FromAnswer

Walks(q, rs, v, m, h) ==
  /\ Proper(q) /\ rs \in Seq(Records) /\ q.name # << >> /\ m = WireAnswer(q, rs)
  /\ h = Len(Dotted(q.name)) /\ h \in Nat /\ v = AddressIn(m, h)

LEMMA SourceWalks == \A q, rs, v : FromAnswer(q, rs, v) => \E m, h : Walks(q, rs, v, m, h)
<1> SUFFICES ASSUME NEW q, NEW rs, NEW v, FromAnswer(q, rs, v) PROVE \E m, h : Walks(q, rs, v, m, h)
  BY Zenon
<1>1. /\ q \in Queries /\ rs \in Answers[q.name] /\ q.name # << >>
      /\ v = AddressIn(WireAnswer(q, rs), Len(Dotted(q.name)))
  BY Zenon DEF FromAnswer
<1>2. Proper(q) /\ rs \in Seq(Records)
  BY ONLY <1>1, FieldTypes
<1>3. PICK m, h : m = WireAnswer(q, rs) /\ h = Len(Dotted(q.name))
  OBVIOUS
<1>4. h \in Nat
  <2>1. Dotted(q.name) \in Seq(Octet)
    BY ONLY <1>2, DottedOctets DEF Proper
  <2> QED
    BY ONLY <1>3, <2>1, LenProperties
<1>5. Walks(q, rs, v, m, h)
  BY ONLY <1>1, <1>2, <1>3, <1>4, Zenon DEF Walks
<1> QED
  BY ONLY <1>5, Zenon

(* Where all owner names are of the kind the walk gets past, the first     *)
(* data of four octets is found.                                           *)
LEMMA SourceFirst ==
  ASSUME OwnersReadable
  PROVE  \A q, rs, v : FromAnswer(q, rs, v) => rs \in Seq(Records) /\ FirstFour(rs, Len(rs), v)
<1> SUFFICES ASSUME NEW q, NEW rs, NEW v, FromAnswer(q, rs, v)
             PROVE  rs \in Seq(Records) /\ FirstFour(rs, Len(rs), v)
  BY Zenon
<1>1. PICK m, h : Walks(q, rs, v, m, h)
  BY SourceWalks, Zenon
<1>2. /\ Proper(q) /\ rs \in Seq(Records) /\ q.name # << >> /\ m = WireAnswer(q, rs)
      /\ h = Len(Dotted(q.name)) /\ v = AddressIn(m, h)
  BY ONLY <1>1, Zenon DEF Walks
<1>3. Readable(rs)
  BY Zenon DEF OwnersReadable, FromAnswer
<1>4. AnswerTo(q, rs, m, h)
  BY ONLY <1>2, <1>3, Zenon DEF AnswerTo
<1>5. FirstFour(rs, Len(rs), AddressIn(m, h))
  BY ONLY <1>4, AnswerFirst, Zenon
<1> QED
  BY ONLY <1>2, <1>5, Zenon

LEMMA HeldOctets ==
  ASSUME IdensApart, OwnersReadable, NEW v, Held(v)
  PROVE  v \in Seq(Octet) /\ Len(v) = 4
<1>1. CASE v = Unresolved
  <2>1. PICK o \in Octet : o = 0
    BY OctetNumbers
  <2>2. <<o, o, o, o>> \in Seq(Octet) /\ Len(<<o, o, o, o>>) = 4
    OBVIOUS
  <2> QED
    BY ONLY <1>1, <2>1, <2>2 DEF Unresolved
<1>2. CASE v # Unresolved
  <2>0. PICK q, r, rs : TakenFor(q, r, rs, v)
    BY ONLY Held(v), <1>2, Zenon DEF Held
  <2>1. FromAnswer(q, rs, v)
    BY ONLY IdensApart, <2>0, TakenForItsOwn, Zenon
  <2>2. rs \in Seq(Records) /\ FirstFour(rs, Len(rs), v)
    BY ONLY OwnersReadable, <2>1, SourceFirst, Zenon
  <2>3. PICK n \in Nat : n = Len(rs)
    BY ONLY <2>2, LenProperties
  <2>4. FirstFour(rs, n, v)
    BY ONLY <2>2, <2>3, Zenon
  <2> QED
    BY ONLY n \in Nat, <2>2, <2>3, <2>4, FirstOctets
<1> QED
  BY ONLY <1>1, <1>2, Zenon

LEMMA SourceAddress ==
  ASSUME OwnersReadable, JustAddressesFour
  PROVE  \A q, rs, v : FromAnswer(q, rs, v) => v = AddressOf(rs)
<1> SUFFICES ASSUME NEW q, NEW rs, NEW v, FromAnswer(q, rs, v) PROVE v = AddressOf(rs)
  BY Zenon
<1>1. rs \in Seq(Records) /\ FirstFour(rs, Len(rs), v)
  BY SourceFirst, Zenon
<1>2. FoursAreA(rs)
  BY Zenon DEF JustAddressesFour, FromAnswer
<1>3. PICK n \in Nat : n = Len(rs)
  BY ONLY <1>1, LenProperties
<1>4. FirstFour(rs, n, v)
  BY ONLY <1>1, <1>3, Zenon
<1> QED
  BY ONLY n \in Nat, <1>1, <1>2, <1>3, <1>4, FirstIsAddress

-----------------------------------------------------------------------------
(* What the worker has read, the forwarder has found and the responder has *)
(* sent.                                                                   *)

LEMMA NodeParsed ==
  ASSUME ForwardInv, ContentInv, NEW n \in InUse
  PROVE  \E q \in Queries : /\ q = QueryOf(n) /\ Parsed(node[n], q, rejected)
                            /\ node[n].request \in Received
<1>1. n \in Node /\ node[n].request # 0
  BY DEF InUse
<1>2. node[n].request \in 1 .. Len(queries) /\ Parsed(node[n], queries[node[n].request], rejected)
  BY ONLY ContentInv, <1>1, Zenon DEF ContentInv, NodesHold, Content
<1>3. queries[node[n].request] \in Queries
  BY <1>2, ElementOfSeq DEF ForwardInv, ListInv, Requests
<1> QED
  BY ONLY <1>2, <1>3, Zenon DEF QueryOf, Received

(* Out of every query the parser gets the name and the identifier, and it  *)
(* turns away just the queries for the root and for anything but an A      *)
(* record, whatever the names, the identifiers and the types are.          *)
THEOREM ForwardQuestionRead == Spec => []QuestionRead
<1>1. ForwardInv /\ ContentInv => QuestionRead
  <2> SUFFICES ASSUME ForwardInv, ContentInv, NEW n \in InUse, NEW q, q = QueryOf(n)
               PROVE  IF node[n].request \in rejected
                      THEN q.type # TypeA \/ q.name = << >>
                      ELSE q.type = TypeA /\ node[n].host = Dotted(q.name) /\ node[n].iden = q.iden
    BY DEF QuestionRead
  <2>1. q \in Queries /\ Parsed(node[n], q, rejected)
    BY NodeParsed
  <2>2. Accepted(WireQuery(q)) <=> q.type = TypeA /\ q.name # << >>
    BY ONLY <2>1, QueryParses
  <2> QED
    BY ONLY <2>1, <2>2, Zenon DEF Parsed
<1> QED
  BY <1>1, ForwardInvariant, ForwardContents, PTL

(* The address a node has is that of the first A record of the answer it   *)
(* was read out of, 0 where there is none, and the cache has no other for  *)
(* the name: if equal identifiers mean equal names, no owner name is one   *)
(* the walk gets lost in, just A records have four octets of data, and no  *)
(* two names are spelled alike.                                            *)
THEOREM ForwardAddressRead ==
  ASSUME IdensApart, OwnersReadable, JustAddressesFour, NamesApart
  PROVE  Spec => []AddressRead
<1>1. ContentInv => AddressRead
  <2> SUFFICES ASSUME ContentInv PROVE AddressRead
    OBVIOUS
  <2>1. ASSUME NEW n \in InUse, NEW records \in node[n].answer
        PROVE  node[n].ipv4 = AddressOf(records)
    <3>1. n \in Node
      BY DEF InUse
    <3>2. ReadFrom(records, node[n].ipv4)
      BY ONLY ContentInv, <3>1, records \in node[n].answer, Zenon DEF ContentInv, NodesHold, Content, Sourced
    <3>3. PICK q, r : TakenFor(q, r, records, node[n].ipv4)
      BY ONLY <3>2, Zenon DEF ReadFrom
    <3>4. FromAnswer(q, records, node[n].ipv4)
      BY ONLY IdensApart, <3>3, TakenForItsOwn, Zenon
    <3> QED
      BY ONLY OwnersReadable, JustAddressesFour, <3>4, SourceAddress, Zenon
  <2>2. ASSUME NEW q \in Queries, Dotted(q.name) \in DOMAIN cache
        PROVE  \E records \in Answers[q.name] : cache[Dotted(q.name)] = AddressOf(records)
    <3>1. PICK h, v : h = Dotted(q.name) /\ v = cache[h]
      OBVIOUS
    <3>2. Cached(h, v)
      BY ONLY ContentInv, <2>2, <3>1, Zenon DEF ContentInv, CacheHolds
    <3>3. PICK r \in Queries, o \in Queries :
            \E rs \in Answers[r.name] : h = Dotted(o.name) /\ TakenFor(r, o, rs, v)
      BY ONLY <3>2, Zenon DEF Cached
    <3>4. PICK rs \in Answers[r.name] : h = Dotted(r.name) /\ FromAnswer(r, rs, v)
      BY ONLY IdensApart, <3>3, TakenForItsOwn, Zenon
    <3>5. q.name = r.name
      <4>1. Dotted(q.name) = Dotted(r.name)
        BY ONLY <3>1, <3>4, Zenon
      <4> QED
        BY ONLY NamesApart, <4>1, q \in Queries, r \in Queries, Zenon DEF NamesApart
    <3>6. v = AddressOf(rs)
      BY ONLY OwnersReadable, JustAddressesFour, <3>4, SourceAddress, Zenon
    <3> QED
      BY ONLY <3>1, <3>4, <3>5, <3>6, rs \in Answers[r.name], Zenon
  <2> QED
    BY ONLY <2>1, <2>2, Zenon DEF AddressRead
<1> QED
  BY <1>1, ForwardContents, PTL

(* Every reply to a query without an additional record reads back: its     *)
(* identifier, question and address are those of the request, and nothing  *)
(* follows the record, if equal identifiers mean equal names and no owner  *)
(* name is one the walk gets lost in.                                      *)
THEOREM ForwardReplyReadsBack ==
  ASSUME IdensApart, OwnersReadable
  PROVE  Spec => []ReplyReadsBack
<1>1. ForwardInv /\ ContentInv => ReplyReadsBack
  <2> SUFFICES ASSUME ForwardInv, ContentInv, NEW r \in replies, ~queries[r.request].edns
               PROVE  ReadsBack(r)
    BY DEF ReplyReadsBack
  <2>1. Replied(r, queries)
    BY ONLY ContentInv, r \in replies, Zenon DEF ContentInv, RepliesHold
  <2>2. PICK q : q = queries[r.request]
    OBVIOUS
  <2>3. Held(r.addr) /\ r.request \in 1 .. Len(queries) /\ r.msg = Reply(WireQuery(q), r.addr)
    BY ONLY <2>1, <2>2, Zenon DEF Replied
  <2>4. q \in Queries
    BY <2>2, <2>3, ElementOfSeq DEF ForwardInv, ListInv, Requests
  <2>5. Proper(q) /\ ~q.edns
    BY <2>2, <2>4, FieldTypes
  <2>6. PICK addr \in Seq(Octet) : addr = r.addr /\ Len(addr) = 4
    BY ONLY IdensApart, OwnersReadable, <2>3, HeldOctets
  <2>7. PICK m : m = r.msg /\ m = Reply(WireQuery(q), addr)
    BY ONLY <2>3, <2>6, Zenon
  <2>8. /\ ReadReply(m) = [iden |-> q.iden, response |-> TRUE, counts |-> <<1, 1>>,
                           type |-> TypeA, class |-> ClassIN, data |-> addr, left |-> 0]
        /\ Question(m).host = Dotted(q.name)
    BY ONLY addr \in Seq(Octet), <2>5, <2>6, <2>7, ReplyReads
  <2> QED
    BY ONLY <2>2, <2>6, <2>7, <2>8 DEF ReadsBack
<1> QED
  BY <1>1, ForwardInvariant, ForwardContents, PTL

LEMMA AddressesFour ==
  ASSUME NEW v, Held(v)
  PROVE  Len(v) = 4
<1>1. Len(Unresolved) = 4
  BY DEF Unresolved
<1> QED
  BY ONLY Held(v), <1>1, SourceFour, Zenon DEF Held

(* Types, and the bounds of the model.                                     *)
THEOREM ForwardTypeOK == Spec => []TypeOK
<1>1. ForwardInv /\ ContentInv => TypeOK
  <2> SUFFICES ASSUME ForwardInv, ContentInv PROVE TypeOK
    OBVIOUS
  <2>1. OwnedOnce /\ Fields /\ Requests
    BY DEF ForwardInv, ListInv
  <2>2. mem \in Memory /\ DOMAIN node = Node /\ inbox \in Seq(Node) /\ outbox \in Seq(Node)
    BY <2>1 DEF OwnedOnce, Shape, Fields
  <2>3. ASSUME NEW n \in Node
        PROVE  /\ DOMAIN node[n] = DOMAIN Unused /\ node[n].request \in 0 .. Len(queries)
               /\ node[n].data \in Seq(0 .. 255) /\ node[n].host \in Seq(0 .. 255)
               /\ Len(node[n].ipv4) = 4
    <3>1. DOMAIN node[n] = DOMAIN Unused
      BY <2>1 DEF Fields
    <3>2. Content(node[n], queries, rejected)
      BY ONLY ContentInv, n \in Node, Zenon DEF ContentInv, NodesHold
    <3>3. Held(node[n].ipv4)
      BY ONLY <3>2, Zenon DEF Content, Sourced
    <3>4. Len(node[n].ipv4) = 4
      BY ONLY <3>3, AddressesFour
    <3>5. Len(queries) \in Nat
      BY <2>1, LenProperties DEF Requests
    <3>6. CASE node[n].request = 0
      <4>1. node[n].data = << >> /\ node[n].host = << >>
        BY ONLY <3>2, <3>6, Zenon DEF Content
      <4>2. << >> \in Seq(0 .. 255)
        OBVIOUS
      <4>3. node[n].request \in 0 .. Len(queries)
        BY ONLY <3>5, <3>6
      <4> QED
        BY ONLY <3>1, <3>4, <4>1, <4>2, <4>3, Zenon
    <3>7. CASE node[n].request # 0
      <4>1. node[n].request \in 1 .. Len(queries) /\ Parsed(node[n], queries[node[n].request], rejected)
        BY ONLY <3>2, <3>7, Zenon DEF Content
      <4>2. PICK q \in Queries : q = queries[node[n].request]
        BY <2>1, <4>1, ElementOfSeq DEF Requests
      <4>3. Parsed(node[n], q, rejected)
        BY ONLY <4>1, <4>2, Zenon
      <4>4. node[n].data = WireQuery(q) /\ (node[n].host = << >> \/ node[n].host = Dotted(q.name))
        BY ONLY <4>3, Zenon DEF Parsed
      <4>5. WireQuery(q) \in Seq(Octet) /\ Dotted(q.name) \in Seq(Octet) /\ << >> \in Seq(Octet)
        <5>1. Proper(q)
          BY FieldTypes
        <5>2. q.name \in Seq(Label)
          BY ONLY <5>1, Zenon DEF Proper
        <5> QED
          BY ONLY <5>1, <5>2, QueryOctets, DottedOctets, SomeOctets
      <4>6. node[n].data \in Seq(Octet) /\ node[n].host \in Seq(Octet)
        BY ONLY <4>4, <4>5, Zenon
      <4>7. node[n].request \in 0 .. Len(queries)
        BY ONLY <3>5, <4>1
      <4> QED
        BY ONLY <3>1, <3>4, <4>6, <4>7, Zenon DEF Octet
    <3> QED
      BY ONLY <3>6, <3>7, Zenon
  <2>4. \A host \in DOMAIN cache : Len(cache[host]) = 4
    BY ONLY ContentInv, SourceFour, Zenon DEF ContentInv, CacheHolds, Cached
  <2>5. queries \in Seq(Queries) /\ Len(queries) <= MaxQueries
    BY <2>1 DEF Requests
  <2>6. rejected \cup asked \cup lost \cup dups \subseteq Request
    <3>1. Received \subseteq Request
      BY <2>1, ForwardAssumption, LenProperties DEF Requests, Received, Request
    <3>2. rejected \subseteq Received
      BY DEF ContentInv, RejectedStay
    <3> QED
      BY <2>1, <3>1, <3>2 DEF Requests
  <2>7. released \in Seq(Request) /\ Cardinality(dups) <= MaxDups /\ broken \in BOOLEAN
    BY DEF ContentInv, Bounded
  <2> QED
    BY ONLY <2>2, <2>3, <2>4, <2>5, <2>6, <2>7, Zenon DEF TypeOK
<1> QED
  BY <1>1, ForwardInvariant, ForwardContents, PTL
-----------------------------------------------------------------------------
(* What the operators on sequences make, by its elements.                  *)

Appends(S, r, e, n) ==
  \E a \in Seq(S) : a = Append(r, e) /\ Len(a) = n + 1 /\ a[n + 1] = e /\ \A i \in 1 .. n : a[i] = r[i]

LEMMA AppendAs == \A S : \A r \in Seq(S), e \in S, n \in Nat : n = Len(r) => Appends(S, r, e, n)
<1> SUFFICES ASSUME NEW S, NEW r \in Seq(S), NEW e \in S, NEW n \in Nat, n = Len(r) PROVE Appends(S, r, e, n)
  OBVIOUS
<1> USE DEF Appends
<1>1. /\ Append(r, e) \in Seq(S) /\ Len(Append(r, e)) = Len(r) + 1
      /\ Append(r, e)[Len(r) + 1] = e /\ \A i \in 1 .. Len(r) : Append(r, e)[i] = r[i]
  BY AppendProperties
<1> WITNESS Append(r, e) \in Seq(S)
<1> QED
  BY <1>1

ConcatOf(S, a, b, p, q) ==
  \E v \in Seq(S) : /\ v = a \o b /\ Len(v) = p + q
                    /\ \A i \in 1 .. p : v[i] = a[i]
                    /\ \A i \in 1 .. q : v[p + i] = b[i]

LEMMA ConcatAs == \A S : \A a, b \in Seq(S), p, q \in Nat : p = Len(a) /\ q = Len(b) => ConcatOf(S, a, b, p, q)
<1> SUFFICES ASSUME NEW S, NEW a \in Seq(S), NEW b \in Seq(S), NEW p \in Nat, NEW q \in Nat, p = Len(a), q = Len(b)
             PROVE  ConcatOf(S, a, b, p, q)
  OBVIOUS
<1>1. PICK v : v = a \o b
  OBVIOUS
<1>2. /\ v \in Seq(S) /\ Len(v) = p + q
      /\ \A i \in 1 .. p + q : v[i] = IF i <= p THEN a[i] ELSE b[i - p]
  BY <1>1, ConcatProperties
<1>3. ASSUME NEW i \in 1 .. p PROVE v[i] = a[i]
  <2>1. i \in 1 .. p + q /\ i <= p
    OBVIOUS
  <2> QED
    BY ONLY <1>2, <2>1
<1>4. ASSUME NEW i \in 1 .. q PROVE v[p + i] = b[i]
  <2>1. PICK j : j = p + i
    OBVIOUS
  <2>2. j \in 1 .. p + q /\ ~ (j <= p) /\ j - p = i
    BY <2>1
  <2> QED
    BY ONLY <1>2, <2>1, <2>2
<1> QED
  BY <1>1, <1>2, <1>3, <1>4 DEF ConcatOf

Begins(S, s, k) == \E a \in Seq(S) : a = SubSeq(s, 1, k) /\ Len(a) = k /\ \A i \in 1 .. k : a[i] = s[i]

LEMMA FirstPart == \A S : \A s \in Seq(S), n \in Nat : \A k \in 0 .. n : n = Len(s) => Begins(S, s, k)
<1> SUFFICES ASSUME NEW S, NEW s \in Seq(S), NEW n \in Nat, n = Len(s), NEW k \in 0 .. n PROVE Begins(S, s, k)
  OBVIOUS
<1> USE DEF Begins
<1>1. \A i \in 1 .. k : s[i] \in S
  BY ElementOfSeq
<1>2. 1 \in Int /\ k \in Int /\ k - 1 + 1 = k /\ (IF 1 <= k THEN k - 1 + 1 ELSE 0) = k
  OBVIOUS
<1>3. PICK a : a = SubSeq(s, 1, k)
  OBVIOUS
<1>4. a \in Seq(S) /\ Len(a) = (IF 1 <= k THEN k - 1 + 1 ELSE 0) /\ \A i \in 1 .. k - 1 + 1 : a[i] = s[1 + i - 1]
  BY <1>1, <1>2, <1>3, SubSeqProperties
<1>5. \A i \in 1 .. k : i \in 1 .. k - 1 + 1 /\ 1 + i - 1 = i
  BY <1>2
<1>6. \A i \in 1 .. k : a[i] = s[i]
  BY <1>4, <1>5
<1> QED
  BY <1>2, <1>3, <1>4, <1>6

Finishes(S, s, n, k) ==
  \E c \in Seq(S) : c = SubSeq(s, k + 1, n) /\ Len(c) = n - k /\ \A i \in 1 .. n - k : c[i] = s[k + i]

LEMMA LastPart == \A S : \A s \in Seq(S), n \in Nat : \A k \in 0 .. n : n = Len(s) => Finishes(S, s, n, k)
<1> SUFFICES ASSUME NEW S, NEW s \in Seq(S), NEW n \in Nat, n = Len(s), NEW k \in 0 .. n PROVE Finishes(S, s, n, k)
  OBVIOUS
<1> USE DEF Finishes
<1>1. \A i \in k + 1 .. n : s[i] \in S
  BY ElementOfSeq
<1>2. k + 1 \in Int /\ n \in Int /\ n - (k + 1) + 1 = n - k /\ (IF k + 1 <= n THEN n - (k + 1) + 1 ELSE 0) = n - k
  OBVIOUS
<1>3. PICK c : c = SubSeq(s, k + 1, n)
  OBVIOUS
<1>4. /\ c \in Seq(S) /\ Len(c) = (IF k + 1 <= n THEN n - (k + 1) + 1 ELSE 0)
      /\ \A i \in 1 .. n - (k + 1) + 1 : c[i] = s[(k + 1) + i - 1]
  BY <1>1, <1>2, <1>3, SubSeqProperties
<1>5. \A i \in 1 .. n - k : i \in 1 .. n - (k + 1) + 1 /\ (k + 1) + i - 1 = k + i
  BY <1>2
<1>6. \A i \in 1 .. n - k : c[i] = s[k + i]
  BY <1>4, <1>5
<1> QED
  BY <1>2, <1>3, <1>4, <1>6

LEMMA MemoryEqual ==
  ASSUME NEW v \in Memory, NEW w \in Memory, \A q \in Ptr : v.next[q] = w.next[q] /\ v.prev[q] = w.prev[q]
  PROVE  v = w
<1>1. v.next = w.next
  BY DEF Memory
<1>2. v.prev = w.prev
  BY DEF Memory
<1> QED
  BY <1>1, <1>2 DEF Memory
-----------------------------------------------------------------------------
(* The other operations of the list, which the server does not call.       *)

(* Outside of T the pointers are as they were.                             *)
Elsewhere(m, w, T) == \A q \in Ptr : q \notin T => w.next[q] = m.next[q] /\ w.prev[q] = m.prev[q]
RingOf(h, s) == {h} \cup Nodes(s)

LEMMA CircleElsewhere ==
  ASSUME NEW m, NEW lists, Shape(m, lists), NEW c \in Bucket, NEW w, NEW T, Elsewhere(m, w, T),
         c \notin T, \A i \in 1 .. Len(lists[c]) : lists[c][i] \notin T
  PROVE  IsCircle(w, c, lists[c])
<1>1. PICK s \in Seq(Ptr) : s = lists[c] /\ IsCircle(m, c, s)
  BY ShapeFacts
<1>2. c \in Ptr
  BY HeadsAndNodes
<1>3. \A q \in Ptr : q = c \/ Among(q, s) => w.next[q] = m.next[q] /\ w.prev[q] = m.prev[q]
  BY <1>1 DEF Among, Elsewhere
<1> QED
  BY <1>1, <1>2, <1>3, SameCircle

(* One list's pointers are no other's.                                     *)
LEMMA RingsApart ==
  ASSUME NEW m, NEW lists, Shape(m, lists), NEW b \in Bucket, NEW c \in Bucket, b # c
  PROVE  c \notin RingOf(b, lists[b]) /\ \A i \in 1 .. Len(lists[c]) : lists[c][i] \notin RingOf(b, lists[b])
<1>1. \A d \in Bucket : \A i \in 1 .. Len(lists[d]) : lists[d][i] \in Node
  BY ShapeFacts
<1>2. Bucket \cap Node = {}
  BY ForwardAssumption
<1>3. \A i \in 1 .. Len(lists[b]), j \in 1 .. Len(lists[c]) : lists[b][i] # lists[c][j]
  BY DEF Shape, EveryOnce
<1> QED
  BY <1>1, <1>2, <1>3 DEF RingOf, Nodes

(* A pointer that is neither a head nor on a list.                         *)
Spare(x, lists) == x \in Ptr /\ x \notin Bucket /\ ~OnList(x, lists)

(* What a change of one list, and of a spare pointer, leaves alone.        *)
LEMMA OtherCircles ==
  ASSUME NEW m, NEW lists, Shape(m, lists), NEW b \in Bucket, NEW x, x \notin Bucket, ~OnList(x, lists),
         NEW w, Elsewhere(m, w, RingOf(b, lists[b]) \cup {x})
  PROVE  \A c \in Bucket : c # b => IsCircle(w, c, lists[c])
<1> SUFFICES ASSUME NEW c \in Bucket, c # b PROVE IsCircle(w, c, lists[c])
  OBVIOUS
<1>1. c \notin RingOf(b, lists[b]) /\ \A i \in 1 .. Len(lists[c]) : lists[c][i] \notin RingOf(b, lists[b])
  BY RingsApart
<1>2. c # x /\ \A i \in 1 .. Len(lists[c]) : lists[c][i] # x
  BY DEF OnList, Among
<1> QED
  BY <1>1, <1>2, CircleElsewhere

LEMMA HoldsWith ==
  ASSUME NEW lists, DOMAIN lists = Bucket, NEW b \in Bucket, NEW w, NEW s, IsCircle(w, b, s),
         \A c \in Bucket : c # b => IsCircle(w, c, lists[c])
  PROVE  Holds(w, [lists EXCEPT ![b] = s])
<1>1. PICK t : t = [lists EXCEPT ![b] = s]
  OBVIOUS
<1>2. DOMAIN t = Bucket /\ \A c \in Bucket : t[c] = IF c = b THEN s ELSE lists[c]
  BY <1>1
<1>3. \A c \in Bucket : IsCircle(w, c, t[c])
  BY <1>2
<1> QED
  BY <1>1, <1>2, <1>3 DEF Holds

LEMMA ShapeHolds ==
  ASSUME NEW m, NEW lists, Shape(m, lists)
  PROVE  Holds(m, lists)
<1>1. DOMAIN lists = Bucket /\ \A b \in Bucket : IsCircle(m, b, lists[b])
  BY DEF Shape
<1> QED
  BY <1>1 DEF Holds
-----------------------------------------------------------------------------
(* Backwards: the lists with next and prev exchanged.                      *)

Turned(m) == [next |-> m.prev, prev |-> m.next]
TurnedLists(lists) == [b \in Bucket |-> Reverse(lists[b])]

LEMMA TurnedTwice ==
  ASSUME NEW m \in Memory
  PROVE  Turned(m) \in Memory /\ Turned(Turned(m)) = m
BY DEF Turned, Memory

LEMMA ReverseFacts ==
  ASSUME NEW S, NEW s \in Seq(S)
  PROVE  /\ Reverse(s) \in Seq(S) /\ Len(Reverse(s)) = Len(s)
         /\ \A i \in 1 .. Len(s) : Reverse(s)[i] = s[Len(s) + 1 - i]
<1>1. PICK n \in Nat : n = Len(s) /\ \A i \in 1 .. n : s[i] \in S
  BY LenProperties, ElementOfSeq
<1>2. Reverse(s) = [i \in 1 .. n |-> s[(n - i) + 1]]
  BY <1>1 DEF Reverse
<1>3. \A i \in 1 .. n : (n - i) + 1 = n + 1 - i /\ n + 1 - i \in 1 .. n
  OBVIOUS
<1>4. PICK r : r = Reverse(s)
  OBVIOUS
<1>5. r = [i \in 1 .. n |-> s[n + 1 - i]]
  BY <1>2, <1>3, <1>4
<1>6. r \in [1 .. n -> S]
  BY <1>1, <1>3, <1>5
<1>7. r \in Seq(S)
  BY <1>6, SeqDef
<1>8. Len(r) = n
  BY <1>5, <1>7, LenProperties
<1> QED
  BY <1>1, <1>4, <1>5, <1>7, <1>8

Backwards(S, s, n) ==
  \E r \in Seq(S) : r = Reverse(s) /\ Len(r) = n /\ \A i \in 1 .. n : r[i] = s[n + 1 - i]

LEMMA ReverseAs == \A S : \A s \in Seq(S), n \in Nat : n = Len(s) => Backwards(S, s, n)
<1> SUFFICES ASSUME NEW S, NEW s \in Seq(S), NEW n \in Nat, n = Len(s) PROVE Backwards(S, s, n)
  OBVIOUS
<1>1. /\ Reverse(s) \in Seq(S) /\ Len(Reverse(s)) = Len(s)
      /\ \A i \in 1 .. Len(s) : Reverse(s)[i] = s[Len(s) + 1 - i]
  BY ReverseFacts
<1> QED
  BY <1>1 DEF Backwards

LEMMA ReverseTwice ==
  ASSUME NEW S, NEW s \in Seq(S)
  PROVE  Reverse(Reverse(s)) = s
<1>1. PICK n \in Nat : n = Len(s)
  BY LenProperties
<1>2. PICK r \in Seq(S) : r = Reverse(s) /\ Len(r) = n /\ \A i \in 1 .. n : r[i] = s[n + 1 - i]
  BY <1>1, ReverseFacts
<1>10. r \in Seq(S) /\ Len(r) = n
  BY <1>2
<1>11. /\ Reverse(r) \in Seq(S) /\ Len(Reverse(r)) = Len(r)
      /\ \A i \in 1 .. Len(r) : Reverse(r)[i] = r[Len(r) + 1 - i]
  BY <1>10, ReverseFacts
<1>3. PICK t \in Seq(S) : t = Reverse(r) /\ Len(t) = n /\ \A i \in 1 .. n : t[i] = r[n + 1 - i]
  BY <1>10, <1>11
<1>4. \A i \in 1 .. n : n + 1 - i \in 1 .. n /\ n + 1 - (n + 1 - i) = i
  OBVIOUS
<1>5. \A i \in 1 .. n : t[i] = s[i]
  BY <1>2, <1>3, <1>4
<1>6. t = s
  BY <1>1, <1>3, <1>5, SeqEqual
<1> QED
  BY <1>2, <1>3, <1>6

LEMMA CircleTurned ==
  ASSUME NEW m, NEW h \in Ptr, NEW s \in Seq(Ptr), IsCircle(m, h, s)
  PROVE  IsCircle(Turned(m), h, Reverse(s))
<1>1. PICK n \in Nat : n = Len(s)
  BY LenProperties
<1>2. PICK r \in Seq(Ptr) : r = Reverse(s) /\ Len(r) = n /\ \A i \in 1 .. n : r[i] = s[n + 1 - i]
  BY <1>1, ReverseFacts
<1>3. \A i \in 0 .. n : m.next[Place(h, s, i)] = Place(h, s, i + 1) /\ m.prev[Place(h, s, i + 1)] = Place(h, s, i)
  BY <1>1, CirclePlaces
<1>4. \A i \in 0 .. n + 1 : Place(h, r, i) = Place(h, s, n + 1 - i)
  BY <1>1, <1>2 DEF Place
<1>0. Turned(m).next = m.prev /\ Turned(m).prev = m.next
  BY DEF Turned
<1>5. PICK w : w = Turned(m) /\ w.next = m.prev /\ w.prev = m.next
  BY <1>0
<1>6. ASSUME NEW i \in 0 .. n
      PROVE  w.next[Place(h, r, i)] = Place(h, r, i + 1) /\ w.prev[Place(h, r, i + 1)] = Place(h, r, i)
  <2>1. PICK j \in 0 .. n : j = n - i
    OBVIOUS
  <2>2. n + 1 - i = j + 1 /\ n + 1 - (i + 1) = j /\ i \in 0 .. n + 1 /\ i + 1 \in 0 .. n + 1
    BY <2>1
  <2>3. Place(h, r, i) = Place(h, s, j + 1) /\ Place(h, r, i + 1) = Place(h, s, j)
    BY <1>4, <2>2
  <2> QED
    BY <1>3, <1>5, <2>3
<1>7. IsCircle(w, h, r)
  BY <1>2, <1>6, CirclePlaces
<1> QED
  BY <1>2, <1>5, <1>7

LEMMA ShapeTurned ==
  ASSUME NEW m, NEW lists, Shape(m, lists)
  PROVE  Shape(Turned(m), TurnedLists(lists))
<1>1. PICK w, r : w = Turned(m) /\ r = TurnedLists(lists)
  OBVIOUS
<1>2. \A b \in Bucket : lists[b] \in Seq(Node) /\ lists[b] \in Seq(Ptr) /\ IsCircle(m, b, lists[b])
                        /\ Len(lists[b]) \in Nat
  BY ShapeFacts
<1>3. \A b \in Bucket : r[b] = Reverse(lists[b]) /\ r[b] \in Seq(Node) /\ Len(r[b]) = Len(lists[b])
                        /\ \A i \in 1 .. Len(lists[b]) : r[b][i] = lists[b][Len(lists[b]) + 1 - i]
  BY <1>1, <1>2, ReverseFacts DEF TurnedLists
<1>4. r \in [Bucket -> Seq(Node)]
  BY <1>1, <1>3 DEF TurnedLists
<1>5. \A b \in Bucket : IsCircle(w, b, r[b])
  BY <1>1, <1>2, <1>3, CircleTurned, HeadsAndNodes
<1>6. w \in Memory
  BY <1>1, TurnedTwice DEF Shape
<1>7. ASSUME NEW b \in Bucket, NEW c \in Bucket, NEW i \in 1 .. Len(r[b]), NEW j \in 1 .. Len(r[c]), r[b][i] = r[c][j]
      PROVE  b = c /\ i = j
  <2>1. PICK n \in Nat, k \in Nat : n = Len(lists[b]) /\ k = Len(lists[c])
    BY <1>2
  <2>0. i \in 1 .. n /\ j \in 1 .. k
    BY <1>3, <2>1
  <2>2. PICK p \in 1 .. n, q \in 1 .. k : p = n + 1 - i /\ q = k + 1 - j
    BY <2>0
  <2>3. lists[b][p] = lists[c][q]
    BY <1>3, <1>7, <2>1, <2>2
  <2>4. b = c /\ p = q
    BY <2>1, <2>3 DEF Shape, EveryOnce
  <2> QED
    BY <1>3, <2>1, <2>2, <2>4
<1>8. EveryOnce(r)
  BY <1>7 DEF EveryOnce
<1> QED
  BY <1>1, <1>4, <1>5, <1>6, <1>8 DEF Shape

(* list_for_each_prev is list_for_each backwards.                          *)
LEMMA ShapeListedPrev ==
  ASSUME NEW m, NEW lists, Shape(m, lists), NEW b \in Bucket
  PROVE  ForEachPrev(m, b) = Reverse(lists[b])
<1>1. ForEach(Turned(m), b) = TurnedLists(lists)[b]
  BY ShapeTurned, ShapeListed
<1>2. Turned(m).next = m.prev
  BY DEF Turned
<1>3. ForEachPrev(m, b) = ForEach(Turned(m), b)
  BY <1>2 DEF ForEachPrev, ForEach
<1> QED
  BY <1>1, <1>3 DEF TurnedLists
-----------------------------------------------------------------------------
(* Moving and deleting.                                                    *)

(* Unlinking does what list_del does but for the entry's own pointers.     *)
LEMMA ShapeUnlink ==
  ASSUME NEW m, NEW lists, Shape(m, lists), NEW b \in Bucket, NEW k \in 1 .. Len(lists[b]), NEW e, e = lists[b][k]
  PROVE  /\ Shape(Unlink(m, e), Taken(lists, b, k))
         /\ e \in Node /\ ~OnList(e, Taken(lists, b, k))
<1>1. PICK r, d, w : r = Taken(lists, b, k) /\ d = ListDel(m, e) /\ w = Unlink(m, e)
  OBVIOUS
<1>2. Shape(d, r)
  BY <1>1, ShapeDel
<1>3. e \in Node /\ ~OnList(e, r)
  BY <1>1, ShapeFacts, OnListTaken
<1>4. e \in Ptr /\ e \notin Bucket
  BY <1>3, HeadsAndNodes
<1>5. m.next \in [Ptr -> Ptr \cup {Null}] /\ m.prev \in [Ptr -> Ptr \cup {Null}] /\ m \in Memory
  BY DEF Shape, Memory
<1>6. PICK p \in Ptr, x \in Ptr : p = m.prev[e] /\ x = m.next[e]
  <2>1. PICK s \in Seq(Ptr) : s = lists[b] /\ IsCircle(m, b, s) /\ Len(s) \in Nat
    BY ShapeFacts
  <2>2. b \in Ptr
    BY HeadsAndNodes
  <2>3. k \in 0 .. Len(s) /\ k - 1 \in 0 .. Len(s) /\ (k - 1) + 1 = k /\ Place(b, s, k) = e
    BY <2>1 DEF Place
  <2>4. m.next[Place(b, s, k)] = Place(b, s, k + 1) /\ m.prev[Place(b, s, k)] = Place(b, s, k - 1)
    BY SMTT(30), <2>1, <2>2, <2>3, CirclePlaces
  <2> QED
    BY <2>2, <2>3, <2>4, PlaceIn
<1>7. w.next = [m.next EXCEPT ![p] = x] /\ w.prev = [m.prev EXCEPT ![x] = p] /\ w \in Memory
  BY <1>1, <1>5, <1>6 DEF Unlink, Join, Memory
<1>8. d.next = [w.next EXCEPT ![e] = Null] /\ d.prev = [w.prev EXCEPT ![e] = Null]
  BY <1>1, <1>7 DEF ListDel, Memory
<1>9. \A q \in Ptr : q # e => d.next[q] = w.next[q] /\ d.prev[q] = w.prev[q]
  BY <1>8
<1>10. Elsewhere(d, w, {e})
  BY <1>9 DEF Elsewhere
<1>11. ASSUME NEW c \in Bucket PROVE IsCircle(w, c, r[c])
  <2>1. c \notin {e} /\ \A i \in 1 .. Len(r[c]) : r[c][i] \notin {e}
    BY <1>3, <1>4 DEF OnList, Among
  <2> QED
    BY <1>2, <1>10, <2>1, CircleElsewhere
<1> QED
  BY <1>1, <1>2, <1>3, <1>7, <1>11 DEF Shape

(* list_add: a node goes in behind the head.                               *)
Pushed(lists, b, e) == [lists EXCEPT ![b] = <<e>> \o @]

LEMMA ReversePush ==
  ASSUME NEW S, NEW s \in Seq(S), NEW e \in S
  PROVE  Reverse(Append(Reverse(s), e)) = <<e>> \o s
<1>1. PICK n \in Nat : n = Len(s)
  BY LenProperties
<1>2. PICK r \in Seq(S) : r = Reverse(s) /\ Len(r) = n /\ \A i \in 1 .. n : r[i] = s[n + 1 - i]
  <2>1. Backwards(S, s, n)
    BY <1>1, ReverseAs, Zenon
  <2> QED
    BY ONLY <2>1, Zenon DEF Backwards
<1>3. PICK a \in Seq(S) : a = Append(r, e) /\ Len(a) = n + 1 /\ a[n + 1] = e /\ \A i \in 1 .. n : a[i] = r[i]
  <2>1. Appends(S, r, e, n)
    BY <1>2, AppendAs, Zenon
  <2> QED
    BY ONLY <2>1, Zenon DEF Appends
<1>8. PICK l \in Nat : l = n + 1
  OBVIOUS
<1>4. PICK t \in Seq(S) : t = Reverse(a) /\ Len(t) = l /\ \A i \in 1 .. l : t[i] = a[l + 1 - i]
  <2>1. Backwards(S, a, l)
    BY <1>3, <1>8, ReverseAs, Zenon
  <2> QED
    BY ONLY <2>1, Zenon DEF Backwards
<1>5. PICK v \in Seq(S) : v = <<e>> \o s /\ Len(v) = 1 + n /\ v[1] = e /\ \A i \in 1 .. n : v[1 + i] = s[i]
  <2>0. <<e>> \in Seq(S) /\ Len(<<e>>) = 1 /\ <<e>>[1] = e
    OBVIOUS
  <2>1. PICK o \in Seq(S) : o = <<e>> /\ Len(o) = 1 /\ o[1] = e
    BY ONLY <2>0, Zenon
  <2>4. 1 \in Nat /\ 1 = Len(o)
    BY ONLY <2>1
  <2>5. ConcatOf(S, o, s, 1, n)
    BY ONLY <1>1, o \in Seq(S), s \in Seq(S), n \in Nat, <2>4, ConcatAs, Zenon
  <2>2. PICK v \in Seq(S) : /\ v = o \o s /\ Len(v) = 1 + n
                            /\ (\A i \in 1 .. 1 : v[i] = o[i]) /\ \A i \in 1 .. n : v[1 + i] = s[i]
    BY ONLY <2>5, Zenon DEF ConcatOf
  <2>3. 1 \in 1 .. 1
    OBVIOUS
  <2> QED
    BY <2>1, <2>2, <2>3
<1>6. ASSUME NEW i \in 1 .. l PROVE t[i] = v[i]
  <2>1. CASE i = 1
    BY <1>3, <1>4, <1>5, <1>8, <2>1
  <2>2. CASE i \in 2 .. l
    <3>1. PICK j \in 1 .. n : j = l + 1 - i
      BY <1>8, <2>2
    <3>2. n + 1 - j = i - 1 /\ i - 1 \in 1 .. n /\ 1 + (i - 1) = i
      BY <1>8, <2>2, <3>1
    <3>3. t[i] = a[j] /\ a[j] = r[j] /\ r[j] = s[n + 1 - j]
      BY <1>2, <1>3, <1>4, <3>1
    <3>4. v[1 + (i - 1)] = s[i - 1]
      BY <1>5, <3>2
    <3> QED
      BY <3>2, <3>3, <3>4
  <2> QED
    BY <2>1, <2>2
<1>7. t = v
  BY <1>4, <1>5, <1>6, <1>8, SeqEqual
<1> QED
  BY <1>2, <1>3, <1>4, <1>5, <1>7

AddsBetween(m, e, p, x) ==
  LET w == AddBetween(m, e, p, x) IN
  /\ w \in Memory
  /\ w.next[e] = x /\ w.next[p] = e /\ \A q \in Ptr \ {e, p} : w.next[q] = m.next[q]
  /\ w.prev[e] = p /\ w.prev[x] = e /\ \A q \in Ptr \ {e, x} : w.prev[q] = m.prev[q]

LEMMA AddsBetweenAll == \A m \in Memory, e, p, x \in Ptr : e # p /\ e # x => AddsBetween(m, e, p, x)
BY AddBetweenLinks DEF AddsBetween

LEMMA AddTurned ==
  ASSUME NEW m \in Memory, NEW e \in Ptr, NEW h \in Ptr, m.next[h] \in Ptr, e # h, e # m.next[h]
  PROVE  ListAdd(m, e, h) = Turned(ListAddTail(Turned(m), e, h))
<1>1. PICK x \in Ptr : x = m.next[h] /\ x # e
  OBVIOUS
<1>2. PICK t \in Memory : t = Turned(m) /\ t.next = m.prev /\ t.prev = m.next
  <2>1. Turned(m) \in Memory
    BY TurnedTwice
  <2> QED
    BY <2>1 DEF Turned
<1>3. PICK v \in Memory : /\ v = ListAdd(m, e, h)
                          /\ v.next[e] = x /\ v.next[h] = e /\ \A q \in Ptr \ {e, h} : v.next[q] = m.next[q]
                          /\ v.prev[e] = h /\ v.prev[x] = e /\ \A q \in Ptr \ {e, x} : v.prev[q] = m.prev[q]
  <2>1. ListAdd(m, e, h) = AddBetween(m, e, h, x)
    BY <1>1 DEF ListAdd
  <2>2. e # h /\ e # x
    BY <1>1
  <2>3. AddsBetween(m, e, h, x)
    BY <2>2, AddsBetweenAll, Zenon
  <2> QED
    BY ONLY <2>1, <2>3, Zenon DEF AddsBetween
<1>4. PICK u \in Memory : /\ u = ListAddTail(t, e, h)
                          /\ u.next[e] = h /\ u.next[x] = e /\ \A q \in Ptr \ {e, x} : u.next[q] = m.prev[q]
                          /\ u.prev[e] = x /\ u.prev[h] = e /\ \A q \in Ptr \ {e, h} : u.prev[q] = m.next[q]
  <2>1. ListAddTail(t, e, h) = AddBetween(t, e, x, h)
    BY <1>1, <1>2 DEF ListAddTail
  <2>2. PICK u \in Memory : /\ u = AddBetween(t, e, x, h)
                            /\ u.next[e] = h /\ u.next[x] = e /\ \A q \in Ptr \ {e, x} : u.next[q] = t.next[q]
                            /\ u.prev[e] = x /\ u.prev[h] = e /\ \A q \in Ptr \ {e, h} : u.prev[q] = t.prev[q]
    <3>1. e # h /\ e # x
      BY <1>1
    <3>2. AddsBetween(t, e, x, h)
      BY <3>1, AddsBetweenAll, Zenon
    <3> QED
      BY ONLY <3>2, Zenon DEF AddsBetween
  <2> QED
    BY <1>2, <2>1, <2>2
<1>5. PICK w \in Memory : w = Turned(u) /\ w.next = u.prev /\ w.prev = u.next
  <2>1. Turned(u) \in Memory
    BY TurnedTwice
  <2> QED
    BY <2>1 DEF Turned
<1>6. \A q \in Ptr : v.next[q] = w.next[q] /\ v.prev[q] = w.prev[q]
  BY <1>3, <1>4, <1>5
<1>7. v = w
  BY <1>6, MemoryEqual
<1> QED
  BY <1>2, <1>3, <1>4, <1>5, <1>7

LEMMA ShapePush ==
  ASSUME NEW m, NEW lists, Shape(m, lists), NEW b \in Bucket, NEW e \in Node, ~OnList(e, lists)
  PROVE  Shape(ListAdd(m, e, b), Pushed(lists, b, e))
<1>1. PICK r : r = TurnedLists(lists)
  OBVIOUS
<1>2. Shape(Turned(m), r)
  BY <1>1, ShapeTurned
<1>3. \A c \in Bucket : lists[c] \in Seq(Node) /\ Len(lists[c]) \in Nat
  BY ShapeFacts
<1>4. \A c \in Bucket : r[c] = Reverse(lists[c]) /\ r[c] \in Seq(Node) /\ Len(r[c]) = Len(lists[c])
                        /\ \A i \in 1 .. Len(lists[c]) : r[c][i] = lists[c][Len(lists[c]) + 1 - i]
  BY <1>1, <1>3, ReverseFacts DEF TurnedLists
<1>5. ~OnList(e, r)
  <2> SUFFICES ASSUME NEW c \in Bucket, NEW i \in 1 .. Len(r[c]), r[c][i] = e PROVE FALSE
    BY DEF OnList, Among
  <2>1. PICK j \in 1 .. Len(lists[c]) : j = Len(lists[c]) + 1 - i
    BY <1>3, <1>4
  <2>2. lists[c][j] = e
    BY <1>4, <2>1
  <2> QED
    BY <2>2 DEF OnList, Among
<1>6. PICK w : w = ListAddTail(Turned(m), e, b)
  OBVIOUS
<1>7. Shape(Turned(w), TurnedLists(Added(r, b, e)))
  BY <1>2, <1>5, <1>6, ShapeAdd, ShapeTurned
<1>8. TurnedLists(Added(r, b, e)) = Pushed(lists, b, e)
  <2>1. DOMAIN r = Bucket /\ DOMAIN lists = Bucket
    BY <1>1 DEF TurnedLists, Shape
  <2>2. \A c \in Bucket : Added(r, b, e)[c] = IF c = b THEN Append(r[b], e) ELSE r[c]
    BY <2>1 DEF Added
  <2>3. \A c \in Bucket : Pushed(lists, b, e)[c] = IF c = b THEN <<e>> \o lists[b] ELSE lists[c]
    BY <2>1 DEF Pushed
  <2>4. Reverse(Append(r[b], e)) = <<e>> \o lists[b]
    BY <1>3, <1>4, ReversePush
  <2>5. \A c \in Bucket : Reverse(r[c]) = lists[c]
    BY <1>3, <1>4, ReverseTwice
  <2>6. \A c \in Bucket : Reverse(Added(r, b, e)[c]) = Pushed(lists, b, e)[c]
    BY <2>2, <2>3, <2>4, <2>5
  <2>7. Pushed(lists, b, e) = [c \in Bucket |-> Pushed(lists, b, e)[c]]
    BY <2>1 DEF Pushed
  <2> QED
    BY <2>6, <2>7 DEF TurnedLists
<1>9. Turned(w) = ListAdd(m, e, b)
  <2>1. b \in Ptr /\ e \in Ptr /\ e # b
    BY HeadsAndNodes
  <2>2. PICK s \in Seq(Ptr) : s = lists[b] /\ IsCircle(m, b, s) /\ Len(s) \in Nat
    BY ShapeFacts
  <2>3. m.next[b] = Place(b, s, 1)
    <3>1. 0 \in 0 .. Len(s) /\ 0 + 1 = 1 /\ Place(b, s, 0) = b
      BY <2>2 DEF Place
    <3>2. \A i \in 0 .. Len(s) : m.next[Place(b, s, i)] = Place(b, s, i + 1)
      BY ZenonT(60), <2>1, <2>2, CirclePlaces
    <3> QED
      BY <3>1, <3>2
  <2>5. \A i \in 1 .. Len(s) : s[i] # e
    BY <2>2 DEF OnList, Among
  <2>4. m.next[b] \in Ptr /\ m \in Memory /\ m.next[b] # e
    BY <2>1, <2>2, <2>3, <2>5, PlaceIn DEF Shape, Place
  <2> QED
    BY <1>6, <2>1, <2>4, AddTurned
<1> QED
  BY <1>7, <1>8, <1>9

(* The position a node has on its list, and the list without it.           *)
LEMMA UpToIs ==
  ASSUME NEW S, NEW s \in Seq(S), Distinct(s), NEW k \in 1 .. Len(s), NEW e, e = s[k]
  PROVE  UpTo(s, e) = k
<1>1. Len(s) \in Nat
  BY LenProperties
<1> DEFINE I == {i \in 1 .. Len(s) : s[i] = e}
<1>2. I = {k}
  BY DEF Distinct
<1>3. UpTo(s, e) = IF I # {} THEN Min(I) ELSE 0
  BY DEF UpTo, SelectInSeq
<1> HIDE DEF I
<1>4. Min(I) = k
  BY <1>1, <1>2 DEF Min
<1> QED
  BY <1>2, <1>3, <1>4

LEMMA WithoutIs ==
  ASSUME NEW S, NEW s \in Seq(S), Distinct(s), NEW k \in 1 .. Len(s), NEW e, e = s[k]
  PROVE  Without(s, e) = Cut(s, k)
<1>1. PICK n \in Nat : n = Len(s) /\ k \in 1 .. n /\ \A i \in 1 .. n : s[i] \in S
  BY LenProperties, ElementOfSeq
<1>0. PICK l \in 0 .. n : l = k - 1 /\ l \in Nat /\ k \in 0 .. n
  BY <1>1
<1>2. PICK a \in Seq(S) : a = SubSeq(s, 1, l) /\ Len(a) = l /\ \A i \in 1 .. l : a[i] = s[i]
  <2>1. Begins(S, s, l)
    BY <1>0, <1>1, FirstPart, Zenon
  <2> QED
    BY ONLY <2>1, Zenon DEF Begins
<1>3. PICK c \in Seq(S) : c = SubSeq(s, k + 1, n) /\ Len(c) = n - k /\ \A i \in 1 .. n - k : c[i] = s[k + i]
  <2>1. Finishes(S, s, n, k)
    BY <1>0, <1>1, LastPart, Zenon
  <2> QED
    BY ONLY <2>1, Zenon DEF Finishes
<1>4. Without(s, e) = a \o c
  <2>1. UpTo(s, e) = k
    BY UpToIs
  <2> QED
    BY <1>0, <1>1, <1>2, <1>3, <2>1 DEF Without, RemoveAt
<1>5. PICK t \in Seq(S) : /\ t = Cut(s, k) /\ Len(t) = n - 1
                          /\ \A i \in 1 .. n - 1 : t[i] = IF i < k THEN s[i] ELSE s[i + 1]
  BY <1>1, CutProperties
<1>6. PICK v \in Seq(S) : /\ v = a \o c /\ Len(v) = l + (n - k)
                          /\ \A i \in 1 .. l : v[i] = a[i]
                          /\ \A i \in 1 .. n - k : v[l + i] = c[i]
  <2>1. n - k \in Nat
    BY <1>1
  <2>2. ConcatOf(S, a, c, l, n - k)
    BY <1>0, <1>2, <1>3, <2>1, ConcatAs, Zenon
  <2> QED
    BY ONLY <2>2, Zenon DEF ConcatOf
<1>7. Len(v) = n - 1
  BY <1>0, <1>1, <1>6
<1>8. ASSUME NEW i \in 1 .. n - 1 PROVE v[i] = t[i]
  <2>1. CASE i < k
    <3>1. i \in 1 .. l
      BY <1>0, <1>1, <2>1
    <3> QED
      BY <1>2, <1>5, <1>6, <2>1, <3>1
  <2>2. CASE ~ (i < k)
    <3>1. PICK j \in 1 .. n - k : j = i - l /\ l + j = i /\ k + j = i + 1
      BY <1>0, <1>1, <2>2
    <3>2. v[i] = c[j]
      BY <1>6, <3>1
    <3> QED
      BY <1>3, <1>5, <2>2, <3>1, <3>2
  <2> QED
    BY <2>1, <2>2
<1>9. v = t
  BY <1>5, <1>7, <1>8, SeqEqual
<1> QED
  BY <1>4, <1>5, <1>6, <1>9
-----------------------------------------------------------------------------
(* Replacing.                                                              *)

(* The links of a circle, one by one.                                      *)
Linked(m, h, s, i) == m.next[Place(h, s, i)] = Place(h, s, i + 1) /\ m.prev[Place(h, s, i + 1)] = Place(h, s, i)

LEMMA LinkIs ==
  \A m : \A h \in Ptr, s \in Seq(Ptr) : IsCircle(m, h, s) => \A i \in 0 .. Len(s) : Linked(m, h, s, i)
BY CirclePlaces DEF Linked

(* list_replace puts the new pointer between the neighbours of the old.    *)
LEMMA ReplaceIs ==
  ASSUME NEW m \in Memory, NEW e \in Ptr, NEW x \in Ptr, m.next[e] # e, m.next[e] \in Ptr, m.prev[e] \in Ptr
  PROVE  ListReplace(m, e, x) = AddBetween(m, x, m.prev[e], m.next[e])
<1>1. PICK f \in [Ptr -> Ptr \cup {Null}], g \in [Ptr -> Ptr \cup {Null}] : f = m.next /\ g = m.prev
  BY DEF Memory
<1>2. m = [next |-> f, prev |-> g]
  BY <1>1 DEF Memory
<1>3. PICK a : a = [m EXCEPT !.next[x] = m.next[e], !.prev[m.next[e]] = x]
  OBVIOUS
<1>4. a = [next |-> [f EXCEPT ![x] = f[e]], prev |-> [g EXCEPT ![f[e]] = x]]
  BY <1>1, <1>2, <1>3
<1>5. a.prev[e] = g[e]
  BY <1>1, <1>4
<1>6. ListReplace(m, e, x) = [a EXCEPT !.prev[x] = g[e], !.next[g[e]] = x]
  BY <1>3, <1>5 DEF ListReplace
<1>7. ListReplace(m, e, x) = [next |-> [f EXCEPT ![x] = f[e], ![g[e]] = x], prev |-> [g EXCEPT ![f[e]] = x, ![x] = g[e]]]
  BY <1>4, <1>6
<1>8. PICK p \in Ptr, y \in Ptr : p = g[e] /\ y = f[e]
  BY <1>1
<1>9. PICK u : u = AddBetween(m, x, p, y)
  OBVIOUS
<1>10. u.next = [m.next EXCEPT ![x] = y, ![p] = x]
  BY <1>9 DEF AddBetween, Memory
<1>11. u.prev = [m.prev EXCEPT ![y] = x, ![x] = p]
  BY <1>9 DEF AddBetween, Memory
<1>12. u \in Memory
  BY <1>9 DEF AddBetween, Memory
<1>13. u = [next |-> u.next, prev |-> u.prev]
  BY <1>12 DEF Memory
<1>14. u = ListReplace(m, e, x)
  BY ONLY <1>1, <1>7, <1>8, <1>10, <1>11, <1>13
<1> QED
  BY <1>1, <1>8, <1>9, <1>14

PutAt(s, k, x) == [i \in 1 .. Len(s) |-> IF i = k THEN x ELSE s[i]]

Puts(S, s, k, x) ==
  /\ \E t \in Seq(S) : /\ t = PutAt(s, k, x) /\ Len(t) = Len(s)
                        /\ \A i \in 1 .. Len(s) : t[i] = IF i = k THEN x ELSE s[i]
  /\ Distinct(s) => PutFor(s, s[k], x) = PutAt(s, k, x)

LEMMA PutAtIs == \A S : \A s \in Seq(S), x \in S : \A k \in 1 .. Len(s) : Puts(S, s, k, x)
<1> SUFFICES ASSUME NEW S, NEW s \in Seq(S), NEW x \in S, NEW k \in 1 .. Len(s) PROVE Puts(S, s, k, x)
  OBVIOUS
<1>1. PICK n \in Nat : n = Len(s) /\ \A i \in 1 .. n : s[i] \in S
  BY LenProperties, ElementOfSeq
<1>2. PICK t : t = PutAt(s, k, x) /\ t = [i \in 1 .. n |-> IF i = k THEN x ELSE s[i]]
  BY <1>1 DEF PutAt
<1>3. t \in [1 .. n -> S]
  BY <1>1, <1>2
<1>4. t \in Seq(S)
  BY <1>3, SeqDef
<1>5. Len(t) = n
  BY <1>2, <1>4, LenProperties
<1>6. ASSUME Distinct(s) PROVE PutFor(s, s[k], x) = t
  <2>1. DOMAIN s = 1 .. n
    BY <1>1, LenProperties
  <2>2. \A i \in 1 .. n : s[i] = s[k] <=> i = k
    BY <1>1, <1>6 DEF Distinct
  <2> QED
    BY <1>2, <2>1, <2>2 DEF PutFor
<1> QED
  BY <1>1, <1>2, <1>4, <1>5, <1>6 DEF Puts

LEMMA ReplaceCircle ==
  ASSUME NEW m \in Memory, NEW h \in Ptr, NEW s \in Seq(Ptr), IsCircle(m, h, s), Distinct(s), ~Among(h, s),
         NEW k \in 1 .. Len(s), NEW x \in Ptr, x # h, ~Among(x, s)
  PROVE  /\ IsCircle(ListReplace(m, s[k], x), h, PutAt(s, k, x))
         /\ Elsewhere(m, ListReplace(m, s[k], x), RingOf(h, s) \cup {x})
<1>1. PICK n \in Nat : n = Len(s)
  BY LenProperties
<1>2. PICK p \in Ptr, e \in Ptr, y \in Ptr :
        p = Place(h, s, k - 1) /\ e = Place(h, s, k) /\ y = Place(h, s, k + 1)
  BY PlaceIn
<1>3. k \in 1 .. n /\ k - 1 \in Nat /\ k \in Nat /\ (k - 1) + 1 = k /\ e = s[k] /\ k <= n /\ k - 1 <= n
  BY <1>1, <1>2 DEF Place
<1>4. m.prev[e] = p /\ m.next[e] = y
  <2>1. k - 1 \in 0 .. Len(s) /\ k \in 0 .. Len(s)
    BY <1>1, <1>3
  <2>2. Linked(m, h, s, k - 1) /\ Linked(m, h, s, k)
    BY <2>1, LinkIs, Zenon
  <2> QED
    BY ONLY <1>2, <1>3, <2>2 DEF Linked
<1>5. /\ \A i, j \in 0 .. n : Place(h, s, i) = Place(h, s, j) => i = j
      /\ \A i, j \in 1 .. n + 1 : Place(h, s, i) = Place(h, s, j) => i = j
  BY <1>1, PlacesDiffer
<1>6. y # e
  <2>1. k \in 1 .. n + 1 /\ k + 1 \in 1 .. n + 1 /\ k # k + 1
    BY <1>3
  <2> QED
    BY ONLY <1>2, <1>5, <2>1
<1>7. \A i \in Int : Place(h, s, i) # x /\ Place(h, s, i) \in Ptr
  BY PlaceIn DEF Place, Among
<1>8. x # p /\ x # y
  BY <1>2, <1>3, <1>7
<1>9. PICK w : w = ListReplace(m, e, x)
  OBVIOUS
<1>10. w = AddBetween(m, x, p, y)
  BY <1>4, <1>6, <1>9, ReplaceIs
<1>11. /\ w.next[x] = y /\ w.next[p] = x /\ \A q \in Ptr \ {x, p} : w.next[q] = m.next[q]
       /\ w.prev[x] = p /\ w.prev[y] = x /\ \A q \in Ptr \ {x, y} : w.prev[q] = m.prev[q]
  <2>1. AddsBetween(m, x, p, y)
    BY <1>8, AddsBetweenAll, Zenon
  <2> QED
    BY ONLY <1>10, <2>1, Zenon DEF AddsBetween
<1>12. PICK t \in Seq(Ptr) : t = PutAt(s, k, x) /\ Len(t) = n /\ \A i \in 1 .. n : t[i] = IF i = k THEN x ELSE s[i]
  <2>1. Puts(Ptr, s, k, x)
    BY PutAtIs, Zenon
  <2> QED
    BY ONLY <1>1, <2>1, Zenon DEF Puts
<1>13. \A i \in 0 .. n + 1 : Place(h, t, i) = IF i = k THEN x ELSE Place(h, s, i)
  BY <1>1, <1>3, <1>12 DEF Place
<1>14. ASSUME NEW i \in 0 .. n
       PROVE  w.next[Place(h, t, i)] = Place(h, t, i + 1) /\ w.prev[Place(h, t, i + 1)] = Place(h, t, i)
  <2>0. i \in 0 .. n + 1 /\ i + 1 \in 0 .. n + 1 /\ i + 1 \in 1 .. n + 1 /\ i \in Int /\ i + 1 \in Int /\ k \in 1 .. n + 1 /\ k + 1 \in 1 .. n + 1
        /\ i \in Nat /\ i <= n /\ k \in 0 .. n /\ k - 1 \in 0 .. n
    BY <1>3
  <2>1. CASE i = k
    <3>1. i + 1 # k /\ Place(h, t, i) = x /\ Place(h, t, i + 1) = y
      BY <1>2, <1>3, <1>13, <2>0, <2>1
    <3> QED
      BY <1>11, <3>1
  <2>2. CASE i + 1 = k
    <3>1. i # k /\ i = k - 1 /\ Place(h, t, i) = p /\ Place(h, t, i + 1) = x
      BY <1>2, <1>3, <1>13, <2>0, <2>2
    <3> QED
      BY <1>11, <3>1
  <2>3. CASE i # k /\ i + 1 # k
    <3>1. Place(h, t, i) = Place(h, s, i) /\ Place(h, t, i + 1) = Place(h, s, i + 1)
      BY <1>13, <2>0, <2>3
    <3>2. i # k - 1 /\ i + 1 # k + 1
      BY <1>3, <2>3
    <3>3. Place(h, s, i) # p /\ Place(h, s, i + 1) # y
      BY ONLY <1>2, <1>5, <2>0, <3>2, i \in 0 .. n
    <3>4. Place(h, s, i) \in Ptr \ {x, p} /\ Place(h, s, i + 1) \in Ptr \ {x, y}
      BY <1>7, <2>0, <3>3
    <3>5. m.next[Place(h, s, i)] = Place(h, s, i + 1) /\ m.prev[Place(h, s, i + 1)] = Place(h, s, i)
      <4>1. Linked(m, h, s, i)
        BY <1>1, LinkIs, Zenon
      <4> QED
        BY ONLY <4>1, Zenon DEF Linked
    <3> QED
      BY <1>11, <3>1, <3>4, <3>5
  <2> QED
    BY <2>1, <2>2, <2>3
<1>15. IsCircle(w, h, t)
  BY <1>12, <1>14, CirclePlaces
<1>16. ASSUME NEW q \in Ptr, q \notin RingOf(h, s) \cup {x}
       PROVE  w.next[q] = m.next[q] /\ w.prev[q] = m.prev[q]
  <2>1. q # p /\ q # y /\ q # x
    BY <1>2, <1>16 DEF Place, RingOf, Nodes
  <2> QED
    BY <1>11, <2>1
<1> QED
  BY <1>3, <1>9, <1>12, <1>15, <1>16 DEF Elsewhere

LEMMA ReplaceHolds ==
  ASSUME NEW m, NEW lists, Shape(m, lists), NEW b \in Bucket, NEW k \in 1 .. Len(lists[b]), NEW e, e = lists[b][k],
         NEW x, Spare(x, lists)
  PROVE  Holds(ListReplace(m, e, x), [lists EXCEPT ![b] = PutFor(@, e, x)])
<1>1. PICK s \in Seq(Ptr) : s = lists[b] /\ IsCircle(m, b, s) /\ Distinct(s) /\ ~Among(b, s) /\ m \in Memory
  BY ShapeFacts
<1>2. x \in Ptr /\ x # b /\ ~Among(x, s) /\ b \in Ptr /\ x \notin Bucket /\ ~OnList(x, lists)
  BY <1>1, HeadsAndNodes DEF Spare, OnList
<1>3. PICK w : w = ListReplace(m, e, x)
  OBVIOUS
<1>4. IsCircle(w, b, PutAt(s, k, x)) /\ Elsewhere(m, w, RingOf(b, s) \cup {x})
  BY <1>1, <1>2, <1>3, ReplaceCircle
<1>5. PutFor(s, e, x) = PutAt(s, k, x)
  <2>1. k \in 1 .. Len(s)
    BY <1>1
  <2>2. Puts(Ptr, s, k, x)
    BY <1>2, <2>1, PutAtIs, Zenon
  <2> QED
    BY ONLY <1>1, <2>2, e = lists[b][k], Zenon DEF Puts
<1>6. \A c \in Bucket : c # b => IsCircle(w, c, lists[c])
  BY <1>1, <1>2, <1>4, OtherCircles
<1>7. DOMAIN lists = Bucket
  BY DEF Shape
<1> QED
  BY <1>1, <1>3, <1>4, <1>5, <1>6, <1>7, HoldsWith
-----------------------------------------------------------------------------
(* All the operations on a node.                                           *)

LEMMA InitElsewhere ==
  ASSUME NEW m \in Memory, NEW x \in Ptr
  PROVE  /\ InitListHead(m, x) \in Memory /\ ListEmpty(InitListHead(m, x), x)
         /\ Elsewhere(m, InitListHead(m, x), {x})
         /\ InitListHead(m, x).next[x] = x /\ InitListHead(m, x).prev[x] = x
<1>1. PICK w : w = InitListHead(m, x)
  OBVIOUS
<1>2. w.next = [m.next EXCEPT ![x] = x] /\ w.prev = [m.prev EXCEPT ![x] = x] /\ w \in Memory
  BY <1>1 DEF InitListHead, Memory
<1>3. w.next[x] = x /\ w.prev[x] = x
  BY <1>2 DEF Memory
<1>4. \A q \in Ptr : q # x => w.next[q] = m.next[q] /\ w.prev[q] = m.prev[q]
  BY <1>2 DEF Memory
<1> QED
  BY <1>1, <1>2, <1>3, <1>4 DEF ListEmpty, Elsewhere

(* A spare pointer may be given any pointers.                              *)
LEMMA ShapeInit ==
  ASSUME NEW m, NEW lists, Shape(m, lists), NEW x, Spare(x, lists)
  PROVE  Shape(InitListHead(m, x), lists) /\ ListEmpty(InitListHead(m, x), x)
<1>1. x \in Ptr /\ m \in Memory
  BY DEF Spare, Shape
<1>2. PICK w : w = InitListHead(m, x) /\ w \in Memory /\ ListEmpty(w, x) /\ Elsewhere(m, w, {x})
  BY <1>1, InitElsewhere
<1>3. ASSUME NEW c \in Bucket PROVE IsCircle(w, c, lists[c])
  <2>1. c \notin {x} /\ \A i \in 1 .. Len(lists[c]) : lists[c][i] \notin {x}
    BY DEF Spare, OnList, Among
  <2> QED
    BY <1>2, <2>1, CircleElsewhere
<1> QED
  BY <1>2, <1>3 DEF Shape

LEMMA LastIs ==
  ASSUME NEW m, NEW lists, Shape(m, lists), NEW b \in Bucket, NEW k \in 1 .. Len(lists[b]), NEW e, e = lists[b][k]
  PROVE  ListIsLast(m, e, b) <=> e = Last(lists[b])
<1>1. PICK s \in Seq(Ptr) : s = lists[b] /\ IsCircle(m, b, s) /\ Distinct(s) /\ ~Among(b, s)
  BY ShapeFacts
<1>2. PICK n \in Nat : n = Len(s) /\ k \in 1 .. n
  BY <1>1, LenProperties
<1>3. b \in Ptr
  BY HeadsAndNodes
<1>4. m.next[e] = Place(b, s, k + 1)
  <2>1. k \in Nat /\ k <= Len(s) /\ Place(b, s, k) = e
    BY <1>1, <1>2 DEF Place
  <2> QED
    <3>1. k \in 0 .. Len(s)
      BY <1>2
    <3>2. Linked(m, b, s, k)
      BY <1>1, <1>3, <3>1, LinkIs, Zenon
    <3> QED
      BY ONLY <2>1, <3>2, Zenon DEF Linked
<1>5. m.next[e] = b <=> k = n
  <2>1. CASE k = n
    BY <1>2, <1>4, <2>1 DEF Place
  <2>2. CASE k # n
    <3>1. k + 1 \in 1 .. n
      BY <1>2, <2>2
    <3> QED
      BY <1>1, <1>2, <1>4, <2>2, <3>1 DEF Place, Among
  <2> QED
    BY <2>1, <2>2
<1>6. e = s[n] <=> k = n
  BY <1>1, <1>2 DEF Distinct
<1> QED
  BY <1>1, <1>2, <1>5, <1>6 DEF ListIsLast, Last

LEMMA NodeOps ==
  ASSUME NEW m, NEW lists, Shape(m, lists), NEW b \in Bucket, NEW k \in 1 .. Len(lists[b]), NEW e, e = lists[b][k],
         NEW spare, \A x \in spare : Spare(x, lists)
  PROVE  NodeOpsSound(m, lists, b, e, spare)
<1>1. PICK s \in Seq(Node) : s = lists[b] /\ Distinct(s) /\ DOMAIN lists = Bucket
  BY ShapeFacts DEF Shape
<1>2. PICK r : r = Taken(lists, b, k)
  OBVIOUS
<1>3. r = [lists EXCEPT ![b] = Without(@, e)]
  BY <1>1, <1>2, WithoutIs DEF Taken
<1>4. PICK w : w = Unlink(m, e) /\ Shape(w, r) /\ e \in Node /\ ~OnList(e, r)
  BY <1>2, ShapeUnlink
<1>5. ASSUME NEW g \in Bucket
      PROVE  /\ Holds(ListMove(m, e, g), [r EXCEPT ![g] = <<e>> \o @])
             /\ Holds(ListMoveTail(m, e, g), [r EXCEPT ![g] = Append(@, e)])
  <2>1. Shape(ListAdd(w, e, g), Pushed(r, g, e)) /\ Shape(ListAddTail(w, e, g), Added(r, g, e))
    BY <1>4, ShapePush, ShapeAdd
  <2>2. Holds(ListAdd(w, e, g), Pushed(r, g, e)) /\ Holds(ListAddTail(w, e, g), Added(r, g, e))
    BY <2>1, ShapeHolds
  <2> QED
    BY <1>4, <2>2 DEF ListMove, ListMoveTail, Pushed, Added
<1>6. Holds(ListDelInit(m, e), r) /\ ListEmpty(ListDelInit(m, e), e)
  <2>1. Spare(e, r)
    BY <1>4, HeadsAndNodes DEF Spare
  <2>2. Shape(InitListHead(w, e), r) /\ ListEmpty(InitListHead(w, e), e)
    BY <1>4, <2>1, ShapeInit
  <2> QED
    BY <1>4, <2>2, ShapeHolds DEF ListDelInit
<1>7. \A x \in spare : Holds(ListReplace(m, e, x), [lists EXCEPT ![b] = PutFor(@, e, x)])
  BY ReplaceHolds
<1>8. ListIsLast(m, e, b) <=> e = Last(lists[b])
  BY LastIs
<1> QED
  BY <1>1, <1>3, <1>5, <1>6, <1>7, <1>8 DEF NodeOpsSound
-----------------------------------------------------------------------------
(* Whole lists: their length, turning, the head's replacement, cutting.    *)

Ends(m, h, s, n) ==
  /\ m.next[h] = IF n = 0 THEN h ELSE s[1]
  /\ m.prev[h] = IF n = 0 THEN h ELSE s[n]
  /\ ListEmpty(m, h) <=> n = 0
  /\ ListEmptyCareful(m, h) <=> n = 0
  /\ ListIsSingular(m, h) <=> n = 1

LEMMA EndsAre ==
  \A m : \A h \in Ptr, s \in Seq(Ptr), n \in Nat :
    IsCircle(m, h, s) /\ Distinct(s) /\ ~Among(h, s) /\ n = Len(s) => Ends(m, h, s, n)
<1> SUFFICES ASSUME NEW m, NEW h \in Ptr, NEW s \in Seq(Ptr), IsCircle(m, h, s), Distinct(s), ~Among(h, s),
                    NEW n \in Nat, n = Len(s)
             PROVE  Ends(m, h, s, n)
  OBVIOUS
<1>1. m.next[h] = Place(h, s, 1)
  <2>1. 0 \in 0 .. Len(s) /\ 0 + 1 = 1 /\ Place(h, s, 0) = h
    BY DEF Place
  <2>2. Linked(m, h, s, 0)
    BY <2>1, LinkIs, Zenon
  <2> QED
    BY ONLY <2>1, <2>2 DEF Linked
<1>2. m.prev[h] = Place(h, s, n)
  <2>1. n \in 0 .. Len(s) /\ Place(h, s, n + 1) = h
    BY DEF Place
  <2>2. Linked(m, h, s, n)
    BY <2>1, LinkIs, Zenon
  <2> QED
    BY ONLY <2>1, <2>2 DEF Linked
<1>3. /\ Place(h, s, 1) = IF n = 0 THEN h ELSE s[1]
      /\ Place(h, s, n) = IF n = 0 THEN h ELSE s[n]
  BY DEF Place
<1>4. n # 0 => s[1] # h /\ s[n] # h
  BY DEF Among
<1>5. n # 0 => (s[1] = s[n] <=> n = 1)
  BY DEF Distinct
<1> QED
  BY <1>1, <1>2, <1>3, <1>4, <1>5 DEF Ends, ListEmpty, ListEmptyCareful, ListIsSingular

LEMMA HeadEnds ==
  ASSUME NEW m, NEW lists, Shape(m, lists), NEW b \in Bucket, NEW s, s = lists[b]
  PROVE  /\ ListEmpty(m, b) <=> s = << >>
         /\ ListEmptyCareful(m, b) <=> s = << >>
         /\ ListIsSingular(m, b) <=> Len(s) = 1
<1>1. s \in Seq(Ptr) /\ IsCircle(m, b, s) /\ Distinct(s) /\ ~Among(b, s)
  BY ShapeFacts
<1>2. PICK n \in Nat : n = Len(s)
  BY <1>1, LenProperties
<1>3. n = 0 <=> s = << >>
  BY <1>1, <1>2, EmptySeq
<1>4. b \in Ptr
  BY HeadsAndNodes
<1>5. Ends(m, b, s, n)
  BY <1>1, <1>2, <1>4, EndsAre, Zenon
<1>6. (ListEmpty(m, b) <=> n = 0) /\ (ListEmptyCareful(m, b) <=> n = 0) /\ (ListIsSingular(m, b) <=> n = 1)
  BY ONLY <1>5 DEF Ends
<1> QED
  BY ONLY <1>2, <1>3, <1>6

(* list_rotate_left takes the first node to the end.                       *)
LEMMA RotateHolds ==
  ASSUME NEW m, NEW lists, Shape(m, lists), NEW b \in Bucket
  PROVE  Holds(ListRotateLeft(m, b), [lists EXCEPT ![b] = IF @ = << >> THEN @ ELSE Append(Tail(@), Head(@))])
<1>1. PICK s \in Seq(Node) : /\ s = lists[b] /\ Distinct(s) /\ DOMAIN lists = Bucket
                             /\ s \in Seq(Ptr) /\ IsCircle(m, b, s) /\ ~Among(b, s)
  BY ShapeFacts DEF Shape
<1>2. ListEmpty(m, b) <=> s = << >>
  BY <1>1, HeadEnds
<1>3. CASE s = << >>
  <2>1. [lists EXCEPT ![b] = IF @ = << >> THEN @ ELSE Append(Tail(@), Head(@))] = lists
    <3>1. PICK v : v = IF lists[b] = << >> THEN lists[b] ELSE Append(Tail(lists[b]), Head(lists[b]))
      OBVIOUS
    <3>2. v = lists[b]
      BY ONLY <1>1, <1>3, <3>1
    <3>3. lists \in [Bucket -> Seq(Node)]
      BY DEF Shape
    <3>4. [lists EXCEPT ![b] = v] = lists
      BY ONLY <3>2, <3>3, b \in Bucket
    <3> QED
      BY ONLY <3>1, <3>4
  <2> QED
    BY <1>2, <1>3, <2>1, ShapeHolds DEF ListRotateLeft
<1>4. CASE s # << >>
  <2>1. PICK n \in Nat : n = Len(s) /\ n # 0
    BY <1>1, <1>4, LenProperties, EmptySeq
  <2>2. PICK e : e = s[1]
    OBVIOUS
  <2>3. m.next[b] = e
    <3>1. b \in Ptr
      BY HeadsAndNodes
    <3>2. Ends(m, b, s, n)
      BY <1>1, <2>1, <3>1, EndsAre, Zenon
    <3> QED
      BY ONLY <2>1, <2>2, <3>2 DEF Ends
  <2>4. 1 \in 1 .. Len(lists[b]) /\ e = lists[b][1]
    BY <1>1, <2>1, <2>2
  <2>5. PICK w, r : /\ w = Unlink(m, e) /\ r = Taken(lists, b, 1)
                    /\ Shape(w, r) /\ e \in Node /\ ~OnList(e, r)
    BY <2>4, ShapeUnlink
  <2>6. Holds(ListAddTail(w, e, b), Added(r, b, e))
    BY <2>5, ShapeAdd, ShapeHolds
  <2>7. Cut(s, 1) = Tail(s) /\ Head(s) = e
    <3>1. PICK t \in Seq(Node) : t = Cut(s, 1) /\ Len(t) = n - 1 /\ \A i \in 1 .. n - 1 : t[i] = IF i < 1 THEN s[i] ELSE s[i + 1]
      BY <1>1, <2>1, <2>4, CutProperties
    <3>6. Tail(s) \in Seq(Node) /\ Len(Tail(s)) = Len(s) - 1 /\ \A i \in 1 .. Len(Tail(s)) : Tail(s)[i] = s[i + 1]
      BY <1>4, HeadTailProperties
    <3>2. PICK u \in Seq(Node) : u = Tail(s) /\ Len(u) = n - 1 /\ (\A i \in 1 .. n - 1 : u[i] = s[i + 1]) /\ Head(s) = s[1]
      <4>1. Tail(s) \in Seq(Node) /\ Len(Tail(s)) = n - 1 /\ \A i \in 1 .. n - 1 : Tail(s)[i] = s[i + 1]
        BY ONLY <2>1, <3>6
      <4>2. Head(s) = s[1]
        BY <1>4
      <4> QED
        BY ONLY <4>1, <4>2, Zenon
    <3>3. \A i \in 1 .. n - 1 : ~ (i < 1)
      BY <2>1
    <3>4. \A i \in 1 .. n - 1 : t[i] = u[i]
      BY <3>1, <3>2, <3>3
    <3>5. t = u
      BY <3>1, <3>2, <3>4, SeqEqual
    <3> QED
      BY <2>2, <3>1, <3>2, <3>5
  <2>8. Added(r, b, e) = [lists EXCEPT ![b] = Append(Tail(s), Head(s))]
    BY <1>1, <2>5, <2>7 DEF Added, Taken
  <2>9. ListRotateLeft(m, b) = ListAddTail(w, e, b)
    BY <1>2, <1>4, <2>3, <2>5 DEF ListRotateLeft, ListMoveTail
  <2> QED
    BY <1>1, <1>4, <2>6, <2>8, <2>9
<1> QED
  BY <1>3, <1>4

(* list_replace_init of a head: the spare pointer has its nodes then.      *)
LEMMA ReplaceHeadCircle ==
  ASSUME NEW m \in Memory, NEW h \in Ptr, NEW s \in Seq(Ptr), IsCircle(m, h, s), Distinct(s), ~Among(h, s),
         NEW x \in Ptr, x # h, ~Among(x, s)
  PROVE  /\ ListReplace(m, h, x) \in Memory
         /\ IsCircle(ListReplaceInit(m, h, x), x, s)
         /\ Elsewhere(m, ListReplaceInit(m, h, x), RingOf(h, s) \cup {x})
<1>1. PICK n \in Nat : n = Len(s)
  BY LenProperties
<1>2. PICK a : a = ListReplace(m, h, x)
  OBVIOUS
<1>3. PICK w : w = InitListHead(a, h)
  OBVIOUS
<1>4. \A i \in Int : Place(h, s, i) # x /\ Place(h, s, i) \in Ptr
  BY PlaceIn DEF Place, Among
<1>5. PICK p \in Ptr, y \in Ptr : p = Place(h, s, n) /\ y = Place(h, s, 1)
  BY PlaceIn
<1>6. m.next[h] = y /\ m.prev[h] = p
  <2>1. Ends(m, h, s, n)
    BY <1>1, EndsAre, Zenon
  <2>2. p = (IF n = 0 THEN h ELSE s[n]) /\ y = IF n = 0 THEN h ELSE s[1]
    BY <1>1, <1>5 DEF Place
  <2> QED
    BY ONLY <2>1, <2>2 DEF Ends
<1>7. /\ a \in Memory
      /\ a.next[x] = (IF n = 0 THEN x ELSE y) /\ (n # 0 => a.next[p] = x)
      /\ \A q \in Ptr \ {x, p} : q # h => a.next[q] = m.next[q]
      /\ a.prev[x] = (IF n = 0 THEN x ELSE p) /\ (n # 0 => a.prev[y] = x)
      /\ \A q \in Ptr \ {x, y} : q # h => a.prev[q] = m.prev[q]
  <2>1. CASE n # 0
    <3>1. y # h
      BY <1>1, <1>5, <2>1 DEF Place, Among
    <3>2. a = AddBetween(m, x, p, y)
      BY <1>2, <1>6, <3>1, ReplaceIs
    <3>3. x # p /\ x # y
      BY <1>4, <1>5, <1>1
    <3>4. AddsBetween(m, x, p, y)
      BY <3>3, AddsBetweenAll, Zenon
    <3>5. /\ a \in Memory
          /\ a.next[x] = y /\ a.next[p] = x /\ \A q \in Ptr \ {x, p} : a.next[q] = m.next[q]
          /\ a.prev[x] = p /\ a.prev[y] = x /\ \A q \in Ptr \ {x, y} : a.prev[q] = m.prev[q]
      BY ONLY <3>2, <3>4, Zenon DEF AddsBetween
    <3> QED
      BY ONLY <2>1, <3>5
  <2>2. CASE n = 0
    <3>1. y = h /\ p = h
      BY <1>1, <1>5, <2>2 DEF Place
    <3>2. PICK f \in [Ptr -> Ptr \cup {Null}], g \in [Ptr -> Ptr \cup {Null}] : f = m.next /\ g = m.prev
      BY DEF Memory
    <3>3. m = [next |-> f, prev |-> g] /\ f[h] = h
      BY <1>6, <3>1, <3>2 DEF Memory
    <3>4. PICK c : c = [m EXCEPT !.next[x] = m.next[h], !.prev[m.next[h]] = x]
      OBVIOUS
    <3>5. c = [next |-> [f EXCEPT ![x] = h], prev |-> [g EXCEPT ![h] = x]]
      BY <3>2, <3>3, <3>4
    <3>6. c.prev[h] = x
      BY <3>2, <3>5
    <3>7. a = [c EXCEPT !.prev[x] = x, !.next[x] = x]
      BY <1>2, <3>4, <3>6 DEF ListReplace
    <3>8. a = [next |-> [f EXCEPT ![x] = h, ![x] = x], prev |-> [g EXCEPT ![h] = x, ![x] = x]]
      BY <3>5, <3>7
    <3>9. a.next = [f EXCEPT ![x] = x] /\ a.prev = [g EXCEPT ![h] = x, ![x] = x]
      BY <3>2, <3>8
    <3>10. a \in Memory
      BY <3>2, <3>8 DEF Memory
    <3> QED
      BY <2>2, <3>1, <3>2, <3>9, <3>10
  <2> QED
    BY <2>1, <2>2
<1>8. w \in Memory /\ Elsewhere(a, w, {h})
  BY <1>3, <1>7, InitElsewhere
<1>9. /\ w.next[x] = (IF n = 0 THEN x ELSE y) /\ (n # 0 => w.next[p] = x)
      /\ \A q \in Ptr \ {x, p, h} : w.next[q] = m.next[q]
      /\ w.prev[x] = (IF n = 0 THEN x ELSE p) /\ (n # 0 => w.prev[y] = x)
      /\ \A q \in Ptr \ {x, y, h} : w.prev[q] = m.prev[q]
  <2>1. n # 0 => p # h /\ y # h
    BY <1>1, <1>5 DEF Place, Among
  <2> QED
    BY <1>7, <1>8, <2>1 DEF Elsewhere
<1>10. \A i \in 0 .. n + 1 : Place(x, s, i) = IF i \in 1 .. n THEN Place(h, s, i) ELSE x
  BY <1>1 DEF Place
<1>11. ASSUME NEW i \in 0 .. n
       PROVE  w.next[Place(x, s, i)] = Place(x, s, i + 1) /\ w.prev[Place(x, s, i + 1)] = Place(x, s, i)
  <2>0. i \in 0 .. n + 1 /\ i + 1 \in 0 .. n + 1 /\ i \in Nat /\ i <= Len(s) /\ i \in Int /\ i + 1 \in Int
    BY <1>1
  <2>1. CASE n = 0
    <3>1. Place(x, s, i) = x /\ Place(x, s, i + 1) = x
      BY <1>10, <2>0, <2>1
    <3> QED
      BY <1>9, <2>1, <3>1
  <2>2. CASE n # 0
    <3>1. w.next[Place(x, s, i)] = Place(x, s, i + 1)
      <4>1. CASE i = 0
        <5>1. Place(x, s, i) = x /\ i + 1 = 1 /\ i + 1 \in 1 .. n /\ Place(x, s, i + 1) = y
          BY <1>5, <1>10, <2>0, <2>2, <4>1
        <5> QED
          BY <1>9, <2>2, <5>1
      <4>2. CASE i = n
        <5>1. Place(x, s, i) = p /\ Place(x, s, i + 1) = x
          BY <1>5, <1>10, <2>0, <2>2, <4>2
        <5> QED
          BY <1>9, <2>2, <5>1
      <4>3. CASE i # 0 /\ i # n
        <5>1. i \in 1 .. n /\ i + 1 \in 1 .. n /\ n \in 1 .. n
          BY <4>3
        <5>2. Place(x, s, i) = Place(h, s, i) /\ Place(x, s, i + 1) = Place(h, s, i + 1) /\ Place(h, s, i) = s[i] /\ p = s[n]
          BY <1>1, <1>5, <1>10, <2>0, <5>1 DEF Place
        <5>3. s[i] # p /\ s[i] # h /\ s[i] # x /\ s[i] \in Ptr
          BY <1>1, <1>4, <2>0, <4>3, <5>1, <5>2 DEF Distinct, Among
        <5>4. m.next[Place(h, s, i)] = Place(h, s, i + 1)
          <6>1. Linked(m, h, s, i)
            BY <1>1, LinkIs, Zenon
          <6> QED
            BY ONLY <6>1, Zenon DEF Linked
        <5> QED
          BY <1>9, <5>2, <5>3, <5>4
      <4> QED
        BY <4>1, <4>2, <4>3
    <3>2. w.prev[Place(x, s, i + 1)] = Place(x, s, i)
      <4>1. CASE i = n
        <5>1. Place(x, s, i + 1) = x /\ Place(x, s, i) = p
          BY <1>5, <1>10, <2>0, <2>2, <4>1
        <5> QED
          BY <1>9, <2>2, <5>1
      <4>2. CASE i = 0
        <5>1. Place(x, s, i + 1) = y /\ Place(x, s, i) = x
          BY <1>5, <1>10, <2>0, <2>2, <4>2
        <5> QED
          BY <1>9, <2>2, <5>1
      <4>3. CASE i # 0 /\ i # n
        <5>1. i \in 1 .. n /\ i + 1 \in 1 .. n /\ 1 \in 1 .. n /\ i + 1 # 1
          BY <4>3
        <5>2. Place(x, s, i) = Place(h, s, i) /\ Place(x, s, i + 1) = Place(h, s, i + 1) /\ Place(h, s, i + 1) = s[i + 1] /\ y = s[1]
          BY <1>1, <1>5, <1>10, <2>0, <5>1 DEF Place
        <5>3. s[i + 1] # y /\ s[i + 1] # h /\ s[i + 1] # x /\ s[i + 1] \in Ptr
          BY <1>1, <1>4, <2>0, <4>3, <5>1, <5>2 DEF Distinct, Among
        <5>4. m.prev[Place(h, s, i + 1)] = Place(h, s, i)
          <6>1. Linked(m, h, s, i)
            BY <1>1, LinkIs, Zenon
          <6> QED
            BY ONLY <6>1, Zenon DEF Linked
        <5> QED
          BY <1>9, <5>2, <5>3, <5>4
      <4> QED
        BY <4>1, <4>2, <4>3
    <3> QED
      BY <3>1, <3>2
  <2> QED
    BY <2>1, <2>2
<1>12. IsCircle(w, x, s)
  BY <1>1, <1>11, CirclePlaces
<1>13. ASSUME NEW q \in Ptr, q \notin RingOf(h, s) \cup {x}
       PROVE  w.next[q] = m.next[q] /\ w.prev[q] = m.prev[q]
  <2>1. q # p /\ q # y /\ q # x /\ q # h
    BY <1>1, <1>5, <1>13 DEF Place, RingOf, Nodes
  <2> QED
    BY <1>9, <2>1
<1>14. w = ListReplaceInit(m, h, x)
  BY <1>2, <1>3 DEF ListReplaceInit
<1> QED
  BY <1>2, <1>7, <1>12, <1>13, <1>14 DEF Elsewhere

LEMMA ReplaceHeadHolds ==
  ASSUME NEW m, NEW lists, Shape(m, lists), NEW b \in Bucket, NEW x, Spare(x, lists)
  PROVE  /\ Holds(ListReplaceInit(m, b, x),
                  [g \in (DOMAIN lists \ {b}) \cup {x} |-> IF g = x THEN lists[b] ELSE lists[g]])
         /\ ListEmpty(ListReplaceInit(m, b, x), b)
<1>1. PICK s \in Seq(Ptr) : s = lists[b] /\ IsCircle(m, b, s) /\ Distinct(s) /\ ~Among(b, s) /\ m \in Memory
  BY ShapeFacts
<1>2. x \in Ptr /\ x # b /\ ~Among(x, s) /\ b \in Ptr /\ x \notin Bucket /\ ~OnList(x, lists)
  BY <1>1, HeadsAndNodes DEF Spare, OnList
<1>3. PICK w : w = ListReplaceInit(m, b, x)
  OBVIOUS
<1>4. IsCircle(w, x, s) /\ Elsewhere(m, w, RingOf(b, s) \cup {x}) /\ ListReplace(m, b, x) \in Memory
  BY <1>1, <1>2, <1>3, ReplaceHeadCircle
<1>5. \A c \in Bucket : c # b => IsCircle(w, c, lists[c])
  BY <1>1, <1>2, <1>4, OtherCircles
<1>6. ListEmpty(w, b)
  BY <1>2, <1>3, <1>4, InitElsewhere DEF ListReplaceInit
<1>7. PICK t : t = [g \in (DOMAIN lists \ {b}) \cup {x} |-> IF g = x THEN lists[b] ELSE lists[g]]
  OBVIOUS
<1>8. DOMAIN lists = Bucket
  BY DEF Shape
<1>9. \A g \in DOMAIN t : IsCircle(w, g, t[g])
  BY <1>1, <1>2, <1>4, <1>5, <1>7, <1>8
<1> QED
  BY <1>3, <1>6, <1>7, <1>9 DEF Holds
-----------------------------------------------------------------------------
(* list_cut_position: the nodes up to e go to the spare pointer.           *)

CutsAfter(m, x, h, e, f, r) ==
  LET w == CutAfter(m, x, h, e) IN
  /\ w.next[x] = f /\ w.next[e] = x /\ w.next[h] = r /\ \A q \in Ptr \ {x, e, h} : w.next[q] = m.next[q]
  /\ w.prev[f] = x /\ w.prev[x] = e /\ w.prev[r] = h /\ \A q \in Ptr \ {x, f, r} : w.prev[q] = m.prev[q]

LEMMA CutLinks ==
  ASSUME NEW m \in Memory, NEW x \in Ptr, NEW h \in Ptr, NEW e \in Ptr, NEW f \in Ptr, NEW r \in Ptr,
         m.next[h] = f, m.next[e] = r, x # h, x # e, x # f, x # r, e # h, f # r
  PROVE  CutsAfter(m, x, h, e, f, r)
<1>1. PICK w : w = CutAfter(m, x, h, e)
  OBVIOUS
<1>2. m.next \in [Ptr -> Ptr \cup {Null}] /\ m.prev \in [Ptr -> Ptr \cup {Null}]
  BY DEF Memory
<1>3. /\ w.next = [m.next EXCEPT ![x] = f, ![e] = x, ![h] = r]
      /\ w.prev = [m.prev EXCEPT ![f] = x, ![x] = e, ![r] = h]
  BY <1>1 DEF CutAfter, Memory
<1>4. w.next[x] = f /\ w.next[e] = x /\ w.next[h] = r /\ \A q \in Ptr \ {x, e, h} : w.next[q] = m.next[q]
  BY <1>2, <1>3
<1>5. w.prev[f] = x /\ w.prev[x] = e /\ w.prev[r] = h /\ \A q \in Ptr \ {x, f, r} : w.prev[q] = m.prev[q]
  BY <1>2, <1>3
<1> QED
  BY <1>1, <1>4, <1>5 DEF CutsAfter

(* What cutting behind the kth node makes of the pointers.                 *)
CutApart(m, w, x, h, s, n, k) ==
  /\ w.next[x] = Place(h, s, 1) /\ w.next[Place(h, s, k)] = x /\ w.next[h] = Place(h, s, k + 1)
  /\ \A i \in 1 .. n : i # k => w.next[Place(h, s, i)] = Place(h, s, i + 1)
  /\ w.prev[Place(h, s, 1)] = x /\ w.prev[x] = Place(h, s, k) /\ w.prev[Place(h, s, k + 1)] = h
  /\ \A i \in 1 .. n : i # k => w.prev[Place(h, s, i + 1)] = Place(h, s, i)

LEMMA CutCircle ==
  ASSUME NEW m \in Memory, NEW h \in Ptr, NEW s \in Seq(Ptr), IsCircle(m, h, s), Distinct(s), ~Among(h, s),
         NEW n \in Nat, n = Len(s), NEW k \in 1 .. n, NEW x \in Ptr, x # h, ~Among(x, s)
  PROVE  /\ CutApart(m, CutAfter(m, x, h, s[k]), x, h, s, n, k)
         /\ Elsewhere(m, CutAfter(m, x, h, s[k]), RingOf(h, s) \cup {x})
<1>1. PICK f \in Ptr, e \in Ptr, r \in Ptr : f = Place(h, s, 1) /\ e = Place(h, s, k) /\ r = Place(h, s, k + 1)
  BY PlaceIn
<1>2. e = s[k]
  BY <1>1 DEF Place
<1>3. \A i \in Int : Place(h, s, i) # x /\ Place(h, s, i) \in Ptr
  BY PlaceIn DEF Place, Among
<1>4. /\ \A i, j \in 0 .. n : Place(h, s, i) = Place(h, s, j) => i = j
      /\ \A i, j \in 1 .. n + 1 : Place(h, s, i) = Place(h, s, j) => i = j
  BY PlacesDiffer
<1>5. m.next[h] = f /\ m.next[e] = r
  <2>1. 0 \in 0 .. Len(s) /\ 0 + 1 = 1 /\ Place(h, s, 0) = h /\ k \in 0 .. Len(s)
    BY DEF Place
  <2>2. Linked(m, h, s, 0) /\ Linked(m, h, s, k)
    BY <2>1, LinkIs, Zenon
  <2> QED
    BY ONLY <1>1, <2>1, <2>2 DEF Linked
<1>6. e # h /\ f # r /\ x # f /\ x # e /\ x # r
  <2>1. 0 \in 0 .. n /\ Place(h, s, 0) = h /\ k \in 0 .. n /\ k # 0 /\ 1 \in 1 .. n + 1 /\ k + 1 \in 1 .. n + 1 /\ k + 1 # 1
    BY DEF Place
  <2> QED
    BY <1>1, <1>3, <1>4, <2>1
<1>7. PICK w : w = CutAfter(m, x, h, e)
  OBVIOUS
<1>8. /\ w.next[x] = f /\ w.next[e] = x /\ w.next[h] = r
      /\ \A q \in Ptr \ {x, e, h} : w.next[q] = m.next[q]
      /\ w.prev[f] = x /\ w.prev[x] = e /\ w.prev[r] = h
      /\ \A q \in Ptr \ {x, f, r} : w.prev[q] = m.prev[q]
  <2>1. CutsAfter(m, x, h, e, f, r)
    BY <1>5, <1>6, CutLinks
  <2> QED
    BY ONLY <1>7, <2>1, Zenon DEF CutsAfter
<1>9. ASSUME NEW i \in 1 .. n, i # k
      PROVE  w.next[Place(h, s, i)] = Place(h, s, i + 1) /\ w.prev[Place(h, s, i + 1)] = Place(h, s, i)
  <2>1. /\ i \in 0 .. n /\ i # 0 /\ k \in 0 .. n /\ 0 \in 0 .. n /\ i \in Int /\ i + 1 \in Int /\ i \in Nat /\ i <= Len(s)
        /\ i + 1 \in 1 .. n + 1 /\ 1 \in 1 .. n + 1 /\ k + 1 \in 1 .. n + 1 /\ i + 1 # 1 /\ i + 1 # k + 1
    BY <1>9
  <2>2. Place(h, s, 0) = h
    BY DEF Place
  <2>3. Place(h, s, i) # e /\ Place(h, s, i) # h /\ Place(h, s, i) # x
    BY ONLY <1>1, <1>3, <1>4, <1>9, <2>1, <2>2
  <2>4. Place(h, s, i + 1) # f /\ Place(h, s, i + 1) # r /\ Place(h, s, i + 1) # x
    BY ONLY <1>1, <1>3, <1>4, <2>1
  <2>5. Place(h, s, i) \in Ptr \ {x, e, h} /\ Place(h, s, i + 1) \in Ptr \ {x, f, r}
    BY <1>3, <2>1, <2>3, <2>4
  <2>6. m.next[Place(h, s, i)] = Place(h, s, i + 1) /\ m.prev[Place(h, s, i + 1)] = Place(h, s, i)
    <3>1. i \in 0 .. Len(s)
      BY <2>1
    <3>2. Linked(m, h, s, i)
      BY <3>1, LinkIs, Zenon
    <3> QED
      BY ONLY <3>2, Zenon DEF Linked
  <2> QED
    BY <1>8, <2>5, <2>6
<1>10. CutApart(m, w, x, h, s, n, k)
  BY ONLY <1>1, <1>8, <1>9 DEF CutApart
<1>11. ASSUME NEW q \in Ptr, q \notin RingOf(h, s) \cup {x}
       PROVE  w.next[q] = m.next[q] /\ w.prev[q] = m.prev[q]
  <2>1. q # e /\ q # f /\ q # r /\ q # x /\ q # h
    BY <1>1, <1>11 DEF Place, RingOf, Nodes
  <2> QED
    BY <1>8, <2>1
<1> QED
  BY <1>2, <1>7, <1>10, <1>11 DEF Elsewhere

LEMMA CutPieces ==
  ASSUME NEW m, NEW w, NEW x \in Ptr, NEW h \in Ptr, NEW s \in Seq(Ptr), NEW n \in Nat, n = Len(s), NEW k \in 1 .. n,
         CutApart(m, w, x, h, s, n, k)
  PROVE  IsCircle(w, x, SubSeq(s, 1, k)) /\ IsCircle(w, h, SubSeq(s, k + 1, n))
<1>1. PICK t \in Seq(Ptr) : t = SubSeq(s, 1, k) /\ Len(t) = k /\ \A i \in 1 .. k : t[i] = s[i]
  <2>1. k \in 0 .. n
    OBVIOUS
  <2>2. Begins(Ptr, s, k)
    BY <2>1, FirstPart, Zenon
  <2> QED
    BY ONLY <2>2, Zenon DEF Begins
<1>2. PICK u \in Seq(Ptr) : u = SubSeq(s, k + 1, n) /\ Len(u) = n - k /\ \A i \in 1 .. n - k : u[i] = s[k + i]
  <2>1. k \in 0 .. n
    OBVIOUS
  <2>2. Finishes(Ptr, s, n, k)
    BY <2>1, LastPart, Zenon
  <2> QED
    BY ONLY <2>2, Zenon DEF Finishes
<1>3. \A i \in 0 .. k + 1 : Place(x, t, i) = IF i \in 1 .. k THEN Place(h, s, i) ELSE x
  BY <1>1 DEF Place
<1>4. \A i \in 0 .. n - k + 1 : Place(h, u, i) = IF i = 0 THEN h ELSE Place(h, s, k + i)
  BY <1>2 DEF Place
<1>5. ASSUME NEW i \in 0 .. k
      PROVE  w.next[Place(x, t, i)] = Place(x, t, i + 1) /\ w.prev[Place(x, t, i + 1)] = Place(x, t, i)
  <2>0. i \in 0 .. k + 1 /\ i + 1 \in 0 .. k + 1
    OBVIOUS
  <2>1. CASE i = 0
    <3>1. Place(x, t, i) = x /\ i + 1 = 1 /\ Place(x, t, i + 1) = Place(h, s, 1)
      BY <1>3, <2>0, <2>1
    <3> QED
      BY <3>1 DEF CutApart
  <2>2. CASE i = k
    <3>1. Place(x, t, i) = Place(h, s, k) /\ Place(x, t, i + 1) = x
      BY <1>3, <2>0, <2>2
    <3> QED
      BY <3>1 DEF CutApart
  <2>3. CASE i # 0 /\ i # k
    <3>1. i \in 1 .. n /\ i # k /\ Place(x, t, i) = Place(h, s, i) /\ Place(x, t, i + 1) = Place(h, s, i + 1)
      BY <1>3, <2>0, <2>3
    <3> QED
      BY <3>1 DEF CutApart
  <2> QED
    BY <2>1, <2>2, <2>3
<1>6. ASSUME NEW i \in 0 .. n - k
      PROVE  w.next[Place(h, u, i)] = Place(h, u, i + 1) /\ w.prev[Place(h, u, i + 1)] = Place(h, u, i)
  <2>0. i \in 0 .. n - k + 1 /\ i + 1 \in 0 .. n - k + 1 /\ i + 1 # 0
    OBVIOUS
  <2>1. CASE i = 0
    <3>1. Place(h, u, i) = h /\ k + (i + 1) = k + 1 /\ Place(h, u, i + 1) = Place(h, s, k + 1)
      BY <1>4, <2>0, <2>1
    <3> QED
      BY <3>1 DEF CutApart
  <2>2. CASE i # 0
    <3>1. PICK j \in 1 .. n : j = k + i /\ j # k
      BY <2>2
    <3>2. k + (i + 1) = j + 1
      BY <3>1
    <3>3. Place(h, u, i) = Place(h, s, j) /\ Place(h, u, i + 1) = Place(h, s, j + 1)
      BY <1>4, <2>0, <2>2, <3>1, <3>2
    <3> QED
      BY <3>1, <3>3 DEF CutApart
  <2> QED
    BY <2>1, <2>2
<1>7. IsCircle(w, x, t)
  BY <1>1, <1>5, CirclePlaces
<1>8. IsCircle(w, h, u)
  BY <1>2, <1>6, CirclePlaces
<1> QED
  BY <1>1, <1>2, <1>7, <1>8

LEMMA CutHolds ==
  ASSUME NEW m, NEW lists, Shape(m, lists), NEW b \in Bucket, NEW x, Spare(x, lists),
         NEW k \in 1 .. Len(lists[b]), NEW e, e = lists[b][k], NEW cut, cut = ListCutPosition(m, x, b, e)
  PROVE  /\ Holds(cut, [lists EXCEPT ![b] = SubSeq(@, UpTo(lists[b], e) + 1, Len(lists[b]))])
         /\ IsCircle(cut, x, SubSeq(lists[b], 1, UpTo(lists[b], e)))
<1>1. PICK s \in Seq(Ptr) : s = lists[b] /\ IsCircle(m, b, s) /\ Distinct(s) /\ ~Among(b, s) /\ m \in Memory
  BY ShapeFacts
<1>2. x \in Ptr /\ x # b /\ ~Among(x, s) /\ b \in Ptr /\ x \notin Bucket /\ ~OnList(x, lists)
  BY <1>1, HeadsAndNodes DEF Spare, OnList
<1>3. PICK n \in Nat : n = Len(s) /\ k \in 1 .. n
  BY <1>1, LenProperties
<1>4. UpTo(s, e) = k
  BY <1>1, UpToIs
<1>5. cut = CutAfter(m, x, b, e)
  <2>1. ~ListEmpty(m, b) /\ (ListIsSingular(m, b) <=> n = 1) /\ m.next[b] = s[1]
    <3>1. Ends(m, b, s, n)
      BY <1>1, <1>2, <1>3, EndsAre, Zenon
    <3>2. n # 0
      BY <1>3
    <3> QED
      BY ONLY <3>1, <3>2 DEF Ends
  <2>2. e # b /\ (n = 1 => e = m.next[b])
    BY <1>1, <1>3, <2>1 DEF Among
  <2> QED
    BY <2>1, <2>2 DEF ListCutPosition
<1>6. CutApart(m, cut, x, b, s, n, k) /\ Elsewhere(m, cut, RingOf(b, s) \cup {x})
  <2>1. /\ CutApart(m, CutAfter(m, x, b, s[k]), x, b, s, n, k)
        /\ Elsewhere(m, CutAfter(m, x, b, s[k]), RingOf(b, s) \cup {x})
    BY <1>1, <1>2, <1>3, CutCircle
  <2> QED
    BY ONLY <1>1, <1>5, <2>1, e = lists[b][k], Zenon
<1>7. IsCircle(cut, x, SubSeq(s, 1, k)) /\ IsCircle(cut, b, SubSeq(s, k + 1, n))
  BY <1>1, <1>2, <1>3, <1>6, CutPieces
<1>8. \A c \in Bucket : c # b => IsCircle(cut, c, lists[c])
  BY <1>1, <1>2, <1>6, OtherCircles
<1>9. DOMAIN lists = Bucket
  BY DEF Shape
<1>10. Holds(cut, [lists EXCEPT ![b] = SubSeq(s, k + 1, n)])
  BY <1>7, <1>8, <1>9, HoldsWith
<1> QED
  BY <1>1, <1>3, <1>4, <1>7, <1>10

LEMMA CutNothing ==
  ASSUME NEW m, NEW lists, Shape(m, lists), NEW b \in Bucket, lists[b] # << >>, NEW x \in Ptr
  PROVE  ListEmpty(ListCutPosition(m, x, b, b), x)
<1>1. ~ListEmpty(m, b) /\ m \in Memory
  BY HeadEnds, ShapeFacts
<1>2. ListCutPosition(m, x, b, b) = InitListHead(m, x)
  BY <1>1 DEF ListCutPosition
<1> QED
  BY <1>1, <1>2, InitElsewhere
-----------------------------------------------------------------------------
(* Deleting a whole list, the next node being read before a node is freed. *)

States == [m : Memory, pos : Ptr, n : Ptr \cup {Null}]
Turn(head, back) ==
  [s \in States |->
     IF s.pos = head THEN s
     ELSE LET del == ListDel(s.m, s.pos) IN [m |-> del, pos |-> s.n, n |-> Ahead(del, s.n, back)]]
Start(m, head, back) == [m |-> m, pos |-> Ahead(m, head, back), n |-> Ahead(m, Ahead(m, head, back), back)]

(* Where in r the loop stands: at its first node, or at its last one.      *)
At(head, r, i, back) == Place(head, r, IF back THEN Len(r) + 1 - i ELSE i)
Left(lists, b, r, s, back) ==
  /\ r \in Seq(Node) /\ Shape(s.m, [lists EXCEPT ![b] = r])
  /\ s.pos = At(b, r, 1, back) /\ s.n = At(b, r, 2, back)
  /\ DOMAIN s = {"m", "pos", "n"} /\ s = [m |-> s.m, pos |-> s.pos, n |-> s.n]

TakesOne(lists, b, r, s, back) ==
  \E t : Left(lists, b, t, s, back) /\ Len(t) = IF Len(r) = 0 THEN 0 ELSE Len(r) - 1

LEMMA AheadIs ==
  ASSUME NEW m, NEW h \in Ptr, NEW r \in Seq(Ptr), IsCircle(m, h, r), NEW back \in BOOLEAN
  PROVE  /\ Ahead(m, h, back) = At(h, r, 1, back)
         /\ Ahead(m, At(h, r, 1, back), back) = At(h, r, 2, back)
<1>1. PICK n \in Nat : n = Len(r)
  BY LenProperties
<1>2. m.next[h] = Place(h, r, 1) /\ m.prev[h] = Place(h, r, n)
  <2>1. 0 \in 0 .. Len(r) /\ 0 + 1 = 1 /\ Place(h, r, 0) = h /\ Place(h, r, n + 1) = h /\ n \in 0 .. Len(r)
    BY <1>1 DEF Place
  <2>2. Linked(m, h, r, 0) /\ Linked(m, h, r, n)
    BY <2>1, LinkIs, Zenon
  <2> QED
    BY ONLY <2>1, <2>2 DEF Linked
<1>3. m.next[Place(h, r, 1)] = Place(h, r, 2) /\ m.prev[Place(h, r, n)] = Place(h, r, n - 1)
  <2>1. CASE n = 0
    <3>1. Place(h, r, 1) = h /\ Place(h, r, 2) = h /\ Place(h, r, n) = h /\ Place(h, r, n - 1) = h
      BY <1>1, <2>1 DEF Place
    <3> QED
      BY <1>2, <3>1
  <2>2. CASE n # 0
    <3>1. 1 \in 0 .. Len(r) /\ 1 + 1 = 2 /\ n - 1 \in 0 .. Len(r) /\ (n - 1) + 1 = n
      BY <1>1, <2>2
    <3>2. Linked(m, h, r, 1) /\ Linked(m, h, r, n - 1)
      BY <3>1, LinkIs, Zenon
    <3> QED
      BY ONLY <3>1, <3>2 DEF Linked
  <2> QED
    BY <2>1, <2>2
<1>4. n + 1 - 1 = n /\ n + 1 - 2 = n - 1
  OBVIOUS
<1> QED
  BY <1>1, <1>2, <1>3, <1>4 DEF Ahead, At

(* One turn of the loop takes the node it stands at.                       *)
LEMMA TurnTakes ==
  ASSUME NEW lists, DOMAIN lists = Bucket, NEW b \in Bucket, NEW back \in BOOLEAN, NEW r, NEW s,
         Left(lists, b, r, s, back)
  PROVE  TakesOne(lists, b, r, Turn(b, back)[s], back)
<1>1. PICK n \in Nat : n = Len(r) /\ r \in Seq(Node) /\ r \in Seq(Ptr)
  BY LenProperties, HeadsAndNodes DEF Left
<1>2. PICK l : l = [lists EXCEPT ![b] = r] /\ l[b] = r /\ Shape(s.m, l)
  BY DEF Left
<1>3. b \in Ptr /\ Distinct(r) /\ ~Among(b, r) /\ s.m \in Memory
  BY ZenonT(60), <1>2, ShapeFacts, HeadsAndNodes
<1>4. s.pos \in Ptr /\ s.n \in Ptr
  BY <1>1, <1>3, PlaceIn DEF Left, At
<1>5. s \in States
  BY <1>3, <1>4 DEF Left, States
<1>6. PICK u : u = Turn(b, back)[s]
  OBVIOUS
<1>7. CASE n = 0
  <2>1. s.pos = b
    BY <1>1, <1>7 DEF Left, At, Place
  <2>2. u = s
    BY <1>5, <1>6, <2>1 DEF Turn
  <2> QED
    BY <1>1, <1>6, <1>7, <2>2 DEF TakesOne
<1>8. CASE n # 0
  <2>1. PICK k \in 1 .. n : k = IF back THEN n ELSE 1
    BY <1>8
  <2>2. s.pos = r[k] /\ s.pos # b
    <3>1. s.pos = Place(b, r, k)
      <4>1. n + 1 - 1 = n
        OBVIOUS
      <4> QED
        BY <1>1, <2>1, <4>1 DEF Left, At
    <3> QED
      BY <1>1, <1>3, <3>1 DEF Place, Among
  <2>3. PICK del : del = ListDel(s.m, s.pos)
    OBVIOUS
  <2>4. u = [m |-> del, pos |-> s.n, n |-> Ahead(del, s.n, back)]
    BY <1>5, <1>6, <2>2, <2>3 DEF Turn
  <2>5. PICK t \in Seq(Node) : /\ t = Cut(r, k) /\ Len(t) = n - 1
                               /\ \A i \in 1 .. n - 1 : t[i] = IF i < k THEN r[i] ELSE r[i + 1]
    BY ZenonT(60), <1>1, <2>1, CutProperties
  <2>6. Shape(del, Taken(l, b, k))
    BY <1>1, <1>2, <2>1, <2>2, <2>3, ShapeDel
  <2>7. Taken(l, b, k) = [lists EXCEPT ![b] = t]
    BY ZenonT(60), <1>2, <2>5 DEF Taken
  <2>8. IsCircle(del, b, t) /\ t \in Seq(Ptr)
    <3>1. PICK v : v = [lists EXCEPT ![b] = t]
      OBVIOUS
    <3>2. v[b] = t
      BY <3>1
    <3>3. Shape(del, v)
      BY ONLY <2>6, <2>7, <3>1
    <3>4. IsCircle(del, b, v[b]) /\ v[b] \in Seq(Ptr)
      BY <3>3, ShapeFacts
    <3> QED
      BY ONLY <3>2, <3>4
  <2>9. At(b, r, 2, back) = At(b, t, 1, back)
    <3>1. CASE back
      <4>1. n + 1 - 2 = n - 1 /\ (n - 1) + 1 - 1 = n - 1 /\ k = n
        BY <2>1, <3>1
      <4>2. Place(b, r, n - 1) = Place(b, t, n - 1)
        BY <1>1, <2>5, <4>1 DEF Place
      <4> QED
        BY <1>1, <2>5, <3>1, <4>1, <4>2 DEF At
    <3>2. CASE ~back
      <4>1. k = 1
        BY <2>1, <3>2
      <4>2. Place(b, r, 2) = Place(b, t, 1)
        BY <1>1, <1>8, <2>5, <4>1 DEF Place
      <4> QED
        BY <3>2, <4>2 DEF At
    <3> QED
      BY <3>1, <3>2
  <2>10. s.n = At(b, t, 1, back)
    BY <2>9 DEF Left
  <2>11. Ahead(del, s.n, back) = At(b, t, 2, back)
    BY <1>3, <2>8, <2>10, AheadIs
  <2>12. Left(lists, b, t, u, back)
    BY <2>4, <2>5, <2>6, <2>7, <2>10, <2>11 DEF Left
  <2> QED
    BY <1>1, <1>6, <1>8, <2>5, <2>12 DEF TakesOne
<1> QED
  BY <1>7, <1>8

LEMMA DeleteAlongIs ==
  ASSUME NEW m, NEW head, NEW back
  PROVE  \E at : /\ DeleteAlong(m, head, back) = at[Cardinality(Ptr)].m
                 /\ at[0] = Start(m, head, back)
                 /\ \A i \in Nat : at[i + 1] = Turn(head, back)[at[i]]
<1> DEFINE at == CHOOSE g : Way(Turn(head, back), Start(m, head, back), g)
<1>1. Way(Turn(head, back), Start(m, head, back), at)
  BY WayExists
<1>2. DeleteAlong(m, head, back) = at[Cardinality(Ptr)].m
  BY DEF DeleteAlong, Way, Turn, Start, States
<1> HIDE DEF at
<1>3. \A i \in Nat : at[i] = IF i = 0 THEN Start(m, head, back) ELSE Turn(head, back)[at[i - 1]]
  BY <1>1 DEF Way
<1>4. at[0] = Start(m, head, back)
  BY <1>3
<1>5. ASSUME NEW i \in Nat PROVE at[i + 1] = Turn(head, back)[at[i]]
  <2>1. i + 1 \in Nat /\ i + 1 # 0 /\ (i + 1) - 1 = i
    OBVIOUS
  <2> QED
    BY <1>3, <2>1
<1> QED
  BY <1>2, <1>4, <1>5

LEMMA DeleteHolds ==
  ASSUME NEW m, NEW lists, Shape(m, lists), NEW b \in Bucket, NEW back \in BOOLEAN
  PROVE  Holds(DeleteAlong(m, b, back), [lists EXCEPT ![b] = << >>])
<1>1. PICK at : /\ DeleteAlong(m, b, back) = at[Cardinality(Ptr)].m
                /\ at[0] = Start(m, b, back)
                /\ \A i \in Nat : at[i + 1] = Turn(b, back)[at[i]]
  BY DeleteAlongIs
<1>2. PICK s \in Seq(Node) : s = lists[b] /\ s \in Seq(Ptr) /\ IsCircle(m, b, s) /\ Distinct(s) /\ DOMAIN lists = Bucket
  BY ShapeFacts DEF Shape
<1>3. PICK n \in Nat, c \in Nat : n = Len(s) /\ c = Cardinality(Ptr) /\ n <= c
  BY <1>2, LenProperties, DistinctBound, PointerAssumption
<1> DEFINE Good == {i \in Nat : \E r : Left(lists, b, r, at[i], back) /\ Len(r) = IF i <= n THEN n - i ELSE 0}
<1>4. 0 \in Good
  <2>1. [lists EXCEPT ![b] = s] = lists
    BY <1>2 DEF Shape
  <2>2. PICK u : u = Start(m, b, back)
    OBVIOUS
  <2>3. u.m = m /\ u.pos = Ahead(m, b, back) /\ u.n = Ahead(m, u.pos, back)
        /\ DOMAIN u = {"m", "pos", "n"} /\ u = [m |-> u.m, pos |-> u.pos, n |-> u.n]
    BY <2>2 DEF Start
  <2>4. u.pos = At(b, s, 1, back) /\ u.n = At(b, s, 2, back)
    BY <1>2, <2>3, AheadIs, HeadsAndNodes
  <2>5. Left(lists, b, s, u, back)
    BY <1>2, <2>1, <2>3, <2>4 DEF Left
  <2>6. 0 <= n /\ n - 0 = n
    OBVIOUS
  <2> QED
    BY <1>1, <1>3, <2>2, <2>5, <2>6
<1>5. ASSUME NEW i \in Nat, i \in Good PROVE i + 1 \in Good
  <2>1. PICK r : Left(lists, b, r, at[i], back) /\ Len(r) = IF i <= n THEN n - i ELSE 0
    BY <1>5
  <2>2. PICK t : Left(lists, b, t, Turn(b, back)[at[i]], back) /\ Len(t) = IF Len(r) = 0 THEN 0 ELSE Len(r) - 1
    <3>1. TakesOne(lists, b, r, Turn(b, back)[at[i]], back)
      BY <1>2, <2>1, TurnTakes
    <3> QED
      BY ONLY <3>1 DEF TakesOne
  <2>3. Len(t) = IF i + 1 <= n THEN n - (i + 1) ELSE 0
    BY <2>1, <2>2
  <2>4. Left(lists, b, t, at[i + 1], back)
    BY <1>1, <2>2
  <2>5. i + 1 \in Nat
    OBVIOUS
  <2> QED
    BY <2>3, <2>4, <2>5
<1>6. Nat \subseteq Good
  <2> HIDE DEF Good
  <2> QED
    BY <1>4, <1>5, Inductive
<1>7. PICK r : Left(lists, b, r, at[c], back) /\ Len(r) = IF c <= n THEN n - c ELSE 0
  BY <1>6
<1>8. Len(r) = 0 /\ r \in Seq(Node)
  BY <1>3, <1>7 DEF Left
<1>9. r = << >>
  BY <1>8, EmptySeq
<1>10. Shape(at[c].m, [lists EXCEPT ![b] = << >>])
  BY <1>7, <1>9 DEF Left
<1> QED
  BY <1>1, <1>3, <1>10, ShapeHolds
-----------------------------------------------------------------------------
(* Splicing one list into another.                                         *)

Splices(m, h, p, y, f, l) ==
  LET w == SpliceBetween(m, h, p, y) IN
  /\ w \in Memory /\ w.next[p] = f /\ w.next[l] = y /\ \A q \in Ptr \ {p, l} : w.next[q] = m.next[q]
  /\ w.prev[f] = p /\ w.prev[y] = l /\ \A q \in Ptr \ {f, y} : w.prev[q] = m.prev[q]

LEMMA SpliceLinks ==
  ASSUME NEW m \in Memory, NEW h \in Ptr, NEW f \in Ptr, NEW l \in Ptr, NEW p \in Ptr, NEW y \in Ptr,
         m.next[h] = f, m.prev[h] = l, p # l, f # y
  PROVE  Splices(m, h, p, y, f, l)
<1>1. PICK w : w = SpliceBetween(m, h, p, y)
  OBVIOUS
<1>2. m.next \in [Ptr -> Ptr \cup {Null}] /\ m.prev \in [Ptr -> Ptr \cup {Null}]
  BY DEF Memory
<1>3. /\ w.next = [m.next EXCEPT ![p] = f, ![l] = y]
      /\ w.prev = [m.prev EXCEPT ![f] = p, ![y] = l] /\ w \in Memory
  BY <1>1 DEF SpliceBetween, Memory
<1>4. w.next[p] = f /\ w.next[l] = y /\ \A q \in Ptr \ {p, l} : w.next[q] = m.next[q]
  BY <1>2, <1>3
<1>5. w.prev[f] = p /\ w.prev[y] = l /\ \A q \in Ptr \ {f, y} : w.prev[q] = m.prev[q]
  BY <1>2, <1>3
<1> QED
  BY <1>1, <1>3, <1>4, <1>5 DEF Splices

(* What putting the nodes of h behind the head g makes of the pointers.    *)
SplicedIn(w, h, s, n, g, t, p) ==
  /\ w.next[g] = Place(h, s, 1) /\ w.prev[Place(h, s, 1)] = g
  /\ \A i \in 1 .. n - 1 : w.next[Place(h, s, i)] = Place(h, s, i + 1) /\ w.prev[Place(h, s, i + 1)] = Place(h, s, i)
  /\ w.next[Place(h, s, n)] = Place(g, t, 1) /\ w.prev[Place(g, t, 1)] = Place(h, s, n)
  /\ \A i \in 1 .. p : w.next[Place(g, t, i)] = Place(g, t, i + 1) /\ w.prev[Place(g, t, i + 1)] = Place(g, t, i)

(* Two circles with no pointer in common.                                  *)
TwoCircles(m, h, s, n, g, t, p) ==
  /\ m \in Memory /\ h \in Ptr /\ g \in Ptr /\ s \in Seq(Ptr) /\ t \in Seq(Ptr)
  /\ n \in Nat /\ p \in Nat /\ n = Len(s) /\ p = Len(t)
  /\ IsCircle(m, h, s) /\ Distinct(s) /\ ~Among(h, s)
  /\ IsCircle(m, g, t) /\ Distinct(t) /\ ~Among(g, t)
  /\ \A i, j \in Int : Place(h, s, i) # Place(g, t, j)

LEMMA SpliceIn ==
  ASSUME NEW m, NEW h, NEW s, NEW n, NEW g, NEW t, NEW p, TwoCircles(m, h, s, n, g, t, p), n # 0
  PROVE  /\ SpliceBetween(m, h, g, m.next[g]) \in Memory
         /\ SplicedIn(SpliceBetween(m, h, g, m.next[g]), h, s, n, g, t, p)
         /\ Elsewhere(m, SpliceBetween(m, h, g, m.next[g]), RingOf(h, s) \cup RingOf(g, t))
<1>1. /\ m \in Memory /\ h \in Ptr /\ g \in Ptr /\ s \in Seq(Ptr) /\ t \in Seq(Ptr)
      /\ n \in Nat /\ p \in Nat /\ n = Len(s) /\ p = Len(t)
      /\ IsCircle(m, h, s) /\ Distinct(s) /\ ~Among(h, s)
      /\ IsCircle(m, g, t) /\ Distinct(t) /\ ~Among(g, t)
      /\ \A i, j \in Int : Place(h, s, i) # Place(g, t, j)
  BY DEF TwoCircles
<1>2. PICK f \in Ptr, l \in Ptr, y \in Ptr : f = Place(h, s, 1) /\ l = Place(h, s, n) /\ y = Place(g, t, 1)
  BY <1>1, PlaceIn
<1>3. Place(g, t, 0) = g /\ Place(h, s, 0) = h /\ Place(h, s, n + 1) = h /\ Place(g, t, p + 1) = g
  BY <1>1 DEF Place
<1>4. m.next[h] = f /\ m.prev[h] = l /\ m.next[g] = y
  <2>1. 0 \in 0 .. Len(s) /\ 0 + 1 = 1 /\ n \in 0 .. Len(s) /\ 0 \in 0 .. Len(t)
    BY <1>1
  <2>2. Linked(m, h, s, 0) /\ Linked(m, h, s, n) /\ Linked(m, g, t, 0)
    BY <1>1, <2>1, LinkIs, Zenon
  <2> QED
    BY ONLY <1>2, <1>3, <2>1, <2>2 DEF Linked
<1>5. g # l /\ f # y
  <2>1. 0 \in Int /\ 1 \in Int /\ n \in Int
    BY <1>1
  <2> QED
    BY <1>1, <1>2, <1>3, <2>1
<1>6. PICK w : w = SpliceBetween(m, h, g, y)
  OBVIOUS
<1>7. /\ w \in Memory /\ w.next[g] = f /\ w.next[l] = y /\ \A q \in Ptr \ {g, l} : w.next[q] = m.next[q]
      /\ w.prev[f] = g /\ w.prev[y] = l /\ \A q \in Ptr \ {f, y} : w.prev[q] = m.prev[q]
  <2>1. Splices(m, h, g, y, f, l)
    BY <1>1, <1>4, <1>5, SpliceLinks
  <2> QED
    BY ONLY <1>6, <2>1, Zenon DEF Splices
<1>8. /\ \A i, j \in 0 .. n : Place(h, s, i) = Place(h, s, j) => i = j
      /\ \A i, j \in 1 .. n + 1 : Place(h, s, i) = Place(h, s, j) => i = j
  BY <1>1, PlacesDiffer
<1>9. /\ \A i, j \in 0 .. p : Place(g, t, i) = Place(g, t, j) => i = j
      /\ \A i, j \in 1 .. p + 1 : Place(g, t, i) = Place(g, t, j) => i = j
  BY <1>1, PlacesDiffer
<1>10. \A i \in Int : Place(h, s, i) \in Ptr /\ Place(g, t, i) \in Ptr
  BY <1>1, PlaceIn
<1>11. ASSUME NEW i \in 1 .. n - 1
       PROVE  w.next[Place(h, s, i)] = Place(h, s, i + 1) /\ w.prev[Place(h, s, i + 1)] = Place(h, s, i)
  <2>1. /\ i \in Nat /\ i <= n /\ i \in Int /\ i + 1 \in Int /\ 0 \in Int /\ 1 \in Int /\ i \in 0 .. n /\ n \in 0 .. n /\ i # n
        /\ i + 1 \in 1 .. n + 1 /\ 1 \in 1 .. n + 1 /\ i + 1 # 1
    BY <1>1
  <2>2. Place(h, s, i) # l /\ Place(h, s, i + 1) # f
    BY <1>2, <1>8, <2>1
  <2>3. Place(h, s, i) # g /\ Place(h, s, i + 1) # y
    BY <1>1, <1>2, <1>3, <2>1
  <2>4. Place(h, s, i) \in Ptr \ {g, l} /\ Place(h, s, i + 1) \in Ptr \ {f, y}
    BY <1>10, <2>1, <2>2, <2>3
  <2>5. m.next[Place(h, s, i)] = Place(h, s, i + 1) /\ m.prev[Place(h, s, i + 1)] = Place(h, s, i)
    <3>1. i \in 0 .. Len(s)
      BY <1>1, <2>1
    <3>2. Linked(m, h, s, i)
      BY <1>1, <3>1, LinkIs, Zenon
    <3> QED
      BY ONLY <3>2, Zenon DEF Linked
  <2> QED
    BY <1>7, <2>4, <2>5
<1>12. ASSUME NEW i \in 1 .. p
       PROVE  w.next[Place(g, t, i)] = Place(g, t, i + 1) /\ w.prev[Place(g, t, i + 1)] = Place(g, t, i)
  <2>1. /\ i \in Nat /\ i <= p /\ i \in Int /\ i + 1 \in Int /\ n \in Int /\ 1 \in Int /\ i \in 0 .. p /\ 0 \in 0 .. p /\ i # 0
        /\ i + 1 \in 1 .. p + 1 /\ 1 \in 1 .. p + 1 /\ i + 1 # 1
    BY <1>1
  <2>2. Place(g, t, i) # g /\ Place(g, t, i + 1) # y
    BY <1>2, <1>3, <1>9, <2>1
  <2>3. Place(g, t, i) # l /\ Place(g, t, i + 1) # f
    BY <1>1, <1>2, <2>1
  <2>4. Place(g, t, i) \in Ptr \ {g, l} /\ Place(g, t, i + 1) \in Ptr \ {f, y}
    BY <1>10, <2>1, <2>2, <2>3
  <2>5. m.next[Place(g, t, i)] = Place(g, t, i + 1) /\ m.prev[Place(g, t, i + 1)] = Place(g, t, i)
    <3>1. i \in 0 .. Len(t)
      BY <1>1, <2>1
    <3>2. Linked(m, g, t, i)
      BY <1>1, <3>1, LinkIs, Zenon
    <3> QED
      BY ONLY <3>2, Zenon DEF Linked
  <2> QED
    BY <1>7, <2>4, <2>5
<1>13. SplicedIn(w, h, s, n, g, t, p)
  BY ONLY <1>2, <1>7, <1>11, <1>12 DEF SplicedIn
<1>14. ASSUME NEW q \in Ptr, q \notin RingOf(h, s) \cup RingOf(g, t)
       PROVE  w.next[q] = m.next[q] /\ w.prev[q] = m.prev[q]
  <2>1. q # f /\ q # l /\ q # y /\ q # g
    BY <1>1, <1>2, <1>14 DEF Place, RingOf, Nodes
  <2> QED
    BY <1>7, <2>1
<1> QED
  BY <1>4, <1>6, <1>7, <1>13, <1>14 DEF Elsewhere

LEMMA SplicedCircle ==
  ASSUME NEW w, NEW h \in Ptr, NEW s \in Seq(Ptr), NEW n \in Nat, n = Len(s), n # 0,
         NEW g \in Ptr, NEW t \in Seq(Ptr), NEW p \in Nat, p = Len(t), SplicedIn(w, h, s, n, g, t, p)
  PROVE  IsCircle(w, g, s \o t)
<1>0. PICK v : v = s \o t
  OBVIOUS
<1>5. v \in Seq(Ptr) /\ Len(v) = n + p /\ \A i \in 1 .. n + p : v[i] = IF i <= n THEN s[i] ELSE t[i - n]
  BY <1>0, ConcatProperties
<1>1. PICK u \in Seq(Ptr) : /\ u = s \o t /\ Len(u) = n + p
                            /\ \A i \in 1 .. n + p : u[i] = IF i <= n THEN s[i] ELSE t[i - n]
  BY ONLY <1>0, <1>5, Zenon
<1>2. \A i \in 0 .. n + p + 1 :
        Place(g, u, i) = IF i = 0 THEN g ELSE IF i <= n THEN Place(h, s, i) ELSE Place(g, t, i - n)
  <2> SUFFICES ASSUME NEW i \in 0 .. n + p + 1
               PROVE  Place(g, u, i) = IF i = 0 THEN g ELSE IF i <= n THEN Place(h, s, i) ELSE Place(g, t, i - n)
    OBVIOUS
  <2>1. CASE i = 0
    BY <1>1, <2>1 DEF Place
  <2>2. CASE i # 0 /\ i <= n
    BY <1>1, <2>2 DEF Place
  <2>3. CASE ~ (i <= n) /\ i <= n + p
    <3>1. i \in 1 .. n + p /\ i - n \in 1 .. p /\ i # 0
      BY <2>3
    <3> QED
      BY <1>1, <2>3, <3>1 DEF Place
  <2>4. CASE i = n + p + 1
    <3>1. i \notin 1 .. n + p /\ i - n \notin 1 .. p /\ i # 0 /\ ~ (i <= n)
      BY <2>4
    <3> QED
      BY <1>1, <3>1 DEF Place
  <2> QED
    BY SMTT(30), <2>1, <2>2, <2>3, <2>4
<1>3. ASSUME NEW i \in 0 .. n + p
      PROVE  w.next[Place(g, u, i)] = Place(g, u, i + 1) /\ w.prev[Place(g, u, i + 1)] = Place(g, u, i)
  <2>0. i \in 0 .. n + p + 1 /\ i + 1 \in 0 .. n + p + 1 /\ i + 1 # 0
    OBVIOUS
  <2>1. CASE i = 0
    <3>1. Place(g, u, i) = g /\ i + 1 = 1 /\ i + 1 <= n /\ Place(g, u, i + 1) = Place(h, s, 1)
      BY <1>2, <2>0, <2>1
    <3> QED
      BY <3>1 DEF SplicedIn
  <2>2. CASE i \in 1 .. n - 1
    <3>1. i # 0 /\ i <= n /\ i + 1 <= n
      BY <2>2
    <3>2. Place(g, u, i) = Place(h, s, i) /\ Place(g, u, i + 1) = Place(h, s, i + 1)
      BY <1>2, <2>0, <3>1
    <3> QED
      BY <2>2, <3>2 DEF SplicedIn
  <2>3. CASE i = n
    <3>1. ~ (i + 1 <= n) /\ (i + 1) - n = 1 /\ i # 0 /\ i <= n
      BY <2>3
    <3>2. Place(g, u, i) = Place(h, s, n) /\ Place(g, u, i + 1) = Place(g, t, 1)
      BY <1>2, <2>0, <2>3, <3>1
    <3> QED
      BY <3>2 DEF SplicedIn
  <2>4. CASE ~ (i <= n)
    <3>0. i - n \in 1 .. p
      BY <2>4
    <3>1. PICK j \in 1 .. p : j = i - n
      BY <3>0
    <3>2. (i + 1) - n = j + 1 /\ ~ (i + 1 <= n) /\ i # 0
      BY <2>4, <3>1
    <3>3. Place(g, u, i) = Place(g, t, j) /\ Place(g, u, i + 1) = Place(g, t, j + 1)
      BY <1>2, <2>0, <2>4, <3>1, <3>2
    <3> QED
      BY <3>1, <3>3 DEF SplicedIn
  <2> QED
    BY <2>1, <2>2, <2>3, <2>4
<1>4. IsCircle(w, g, u)
  BY <1>1, <1>3, CirclePlaces
<1> QED
  BY <1>1, <1>4

LEMMA BucketsApart ==
  ASSUME NEW m, NEW lists, Shape(m, lists), NEW b \in Bucket, NEW c \in Bucket, b # c,
         NEW n, n = Len(lists[b]), NEW p, p = Len(lists[c])
  PROVE  TwoCircles(m, b, lists[b], n, c, lists[c], p)
<1>1. /\ m \in Memory /\ b \in Ptr /\ c \in Ptr
      /\ lists[b] \in Seq(Ptr) /\ Distinct(lists[b]) /\ ~Among(b, lists[b]) /\ IsCircle(m, b, lists[b]) /\ Len(lists[b]) \in Nat
      /\ lists[c] \in Seq(Ptr) /\ Distinct(lists[c]) /\ ~Among(c, lists[c]) /\ IsCircle(m, c, lists[c]) /\ Len(lists[c]) \in Nat
  BY ShapeFacts, HeadsAndNodes
<1>2. c \notin RingOf(b, lists[b]) /\ \A i \in 1 .. Len(lists[c]) : lists[c][i] \notin RingOf(b, lists[b])
  BY RingsApart
<1>3. \A i \in Int : Place(b, lists[b], i) \in RingOf(b, lists[b]) /\ Place(c, lists[c], i) \notin RingOf(b, lists[b])
  BY <1>2 DEF Place, RingOf, Nodes
<1> QED
  BY <1>1, <1>3 DEF TwoCircles

(* The nodes of b in front of those of c.                                  *)
Merged(w, lists, b, c, s) ==
  /\ w \in Memory /\ IsCircle(w, c, s)
  /\ \A d \in Bucket : d # b /\ d # c => IsCircle(w, d, lists[d])

LEMMA SpliceMerges ==
  ASSUME NEW m, NEW lists, Shape(m, lists), NEW b \in Bucket, NEW c \in Bucket, b # c
  PROVE  Merged(ListSplice(m, b, c), lists, b, c, lists[b] \o lists[c])
<1>1. PICK s \in Seq(Ptr), t \in Seq(Ptr) : s = lists[b] /\ t = lists[c]
  BY ShapeFacts
<1>2. PICK n \in Nat, p \in Nat : n = Len(s) /\ p = Len(t)
  BY LenProperties
<1>3. /\ m \in Memory /\ b \in Ptr /\ c \in Ptr /\ IsCircle(m, c, t)
      /\ \A d \in Bucket : IsCircle(m, d, lists[d])
  BY <1>1, ShapeFacts, HeadsAndNodes
<1>4. ListEmpty(m, b) <=> s = << >>
  BY <1>1, HeadEnds
<1>5. n = 0 <=> s = << >>
  BY <1>2, EmptySeq
<1>6. CASE n = 0
  <2>1. << >> \o t = t
    BY ConcatEmptySeq
  <2>2. ListSplice(m, b, c) = m
    BY <1>4, <1>5, <1>6 DEF ListSplice
  <2> QED
    BY <1>1, <1>3, <1>5, <1>6, <2>1, <2>2 DEF Merged
<1>7. CASE n # 0
  <2>1. PICK w : w = SpliceBetween(m, b, c, m.next[c])
    OBVIOUS
  <2>2. w \in Memory /\ SplicedIn(w, b, s, n, c, t, p) /\ Elsewhere(m, w, RingOf(b, s) \cup RingOf(c, t))
    <3>1. TwoCircles(m, b, s, n, c, t, p)
      BY <1>1, <1>2, BucketsApart
    <3> QED
      BY ONLY <1>7, <2>1, <3>1, SpliceIn
  <2>3. IsCircle(w, c, s \o t)
    BY <1>2, <1>3, <1>7, <2>2, SplicedCircle
  <2>4. ASSUME NEW d \in Bucket, d # b, d # c PROVE IsCircle(w, d, lists[d])
    <3>1. d \notin RingOf(b, s) /\ \A i \in 1 .. Len(lists[d]) : lists[d][i] \notin RingOf(b, s)
      BY <1>1, <2>4, RingsApart
    <3>2. d \notin RingOf(c, t) /\ \A i \in 1 .. Len(lists[d]) : lists[d][i] \notin RingOf(c, t)
      BY <1>1, <2>4, RingsApart
    <3> QED
      BY <2>2, <3>1, <3>2, CircleElsewhere
  <2>5. ListSplice(m, b, c) = w
    BY <1>4, <1>5, <1>7, <2>1 DEF ListSplice
  <2> QED
    BY <1>1, <2>2, <2>3, <2>4, <2>5 DEF Merged
<1> QED
  BY <1>6, <1>7
-----------------------------------------------------------------------------
(* Splicing at the tail is splicing backwards.                             *)

LEMMA ReverseJoin ==
  ASSUME NEW S, NEW s \in Seq(S), NEW t \in Seq(S)
  PROVE  Reverse(Reverse(s) \o Reverse(t)) = t \o s
<1>1. PICK n \in Nat, p \in Nat : n = Len(s) /\ p = Len(t)
  BY LenProperties
<1>2. PICK u \in Seq(S) : u = Reverse(s) /\ Len(u) = n /\ \A i \in 1 .. n : u[i] = s[n + 1 - i]
  <2>1. Backwards(S, s, n)
    BY <1>1, ReverseAs, Zenon
  <2> QED
    BY ONLY <2>1, Zenon DEF Backwards
<1>3. PICK v \in Seq(S) : v = Reverse(t) /\ Len(v) = p /\ \A i \in 1 .. p : v[i] = t[p + 1 - i]
  <2>1. Backwards(S, t, p)
    BY <1>1, ReverseAs, Zenon
  <2> QED
    BY ONLY <2>1, Zenon DEF Backwards
<1>4. PICK x \in Seq(S) : x = u \o v /\ Len(x) = n + p /\ (\A i \in 1 .. n : x[i] = u[i]) /\ \A i \in 1 .. p : x[n + i] = v[i]
  <2>1. ConcatOf(S, u, v, n, p)
    BY <1>1, <1>2, <1>3, ConcatAs, Zenon
  <2> QED
    BY ONLY <2>1, Zenon DEF ConcatOf
<1>5. PICK q \in Nat : q = n + p /\ q = p + n
  OBVIOUS
<1>6. PICK y \in Seq(S) : y = Reverse(x) /\ Len(y) = q /\ \A i \in 1 .. q : y[i] = x[q + 1 - i]
  <2>1. Backwards(S, x, q)
    BY <1>4, <1>5, ReverseAs, Zenon
  <2> QED
    BY ONLY <2>1, Zenon DEF Backwards
<1>7. PICK z \in Seq(S) : z = t \o s /\ Len(z) = p + n /\ (\A i \in 1 .. p : z[i] = t[i]) /\ \A i \in 1 .. n : z[p + i] = s[i]
  <2>1. ConcatOf(S, t, s, p, n)
    BY <1>1, ConcatAs, Zenon
  <2> QED
    BY ONLY <2>1, Zenon DEF ConcatOf
<1>8. ASSUME NEW i \in 1 .. q PROVE y[i] = z[i]
  <2>1. CASE i \in 1 .. p
    <3>1. p + 1 - i \in 1 .. p /\ q + 1 - i = n + (p + 1 - i) /\ p + 1 - (p + 1 - i) = i
      BY <1>5, <2>1
    <3>2. PICK j \in 1 .. p : q + 1 - i = n + j /\ p + 1 - j = i
      BY <3>1
    <3>3. y[i] = x[n + j] /\ x[n + j] = v[j] /\ v[j] = t[i] /\ z[i] = t[i]
      <4>1. y[i] = x[q + 1 - i]
        BY <1>6
      <4>2. v[j] = t[p + 1 - j] /\ x[n + j] = v[j] /\ z[i] = t[i]
        BY <1>3, <1>4, <1>7, <2>1
      <4> QED
        BY ONLY <3>2, <4>1, <4>2
    <3> QED
      BY ONLY <3>3
  <2>2. CASE i \notin 1 .. p
    <3>1. i - p \in 1 .. n /\ i = p + (i - p) /\ q + 1 - i = n + 1 - (i - p) /\ n + 1 - (i - p) \in 1 .. n
      BY <1>5, <2>2
    <3>2. PICK k \in 1 .. n : i = p + k /\ q + 1 - i = n + 1 - k /\ n + 1 - k \in 1 .. n /\ n + 1 - (n + 1 - k) = k
      BY <3>1
    <3>3. y[i] = x[n + 1 - k] /\ x[n + 1 - k] = u[n + 1 - k] /\ u[n + 1 - k] = s[k] /\ z[i] = s[k]
      <4>1. y[i] = x[q + 1 - i]
        BY <1>6
      <4>2. PICK j \in 1 .. n : j = n + 1 - k
        BY <3>2
      <4>3. x[j] = u[j] /\ u[j] = s[n + 1 - j] /\ z[p + k] = s[k]
        BY <1>2, <1>4, <1>7
      <4> QED
        BY ONLY <3>2, <4>1, <4>2, <4>3
    <3> QED
      BY ONLY <3>3
  <2> QED
    BY <2>1, <2>2
<1>9. y = z
  BY ZenonT(60), <1>5, <1>6, <1>7, <1>8, SeqEqual
<1> QED
  BY <1>2, <1>3, <1>4, <1>6, <1>7, <1>9

LEMMA SpliceTurned ==
  ASSUME NEW m, NEW lists, Shape(m, lists), NEW b \in Bucket, NEW c \in Bucket, b # c, ~ListEmpty(m, b)
  PROVE  ListSpliceTail(m, b, c) = Turned(ListSplice(Turned(m), b, c)) /\ ListSplice(Turned(m), b, c) \in Memory
<1>1. PICK s \in Seq(Ptr), t \in Seq(Ptr) : s = lists[b] /\ t = lists[c]
  BY ShapeFacts
<1>2. PICK n \in Nat, p \in Nat : n = Len(s) /\ p = Len(t)
  BY LenProperties
<1>3. TwoCircles(m, b, s, n, c, t, p)
  BY <1>1, <1>2, BucketsApart
<1>4. /\ m \in Memory /\ b \in Ptr /\ c \in Ptr /\ IsCircle(m, b, s) /\ IsCircle(m, c, t)
      /\ \A i, j \in Int : Place(b, s, i) # Place(c, t, j)
  BY <1>3 DEF TwoCircles
<1>5. PICK f \in Ptr, l \in Ptr, e \in Ptr : f = Place(b, s, 1) /\ l = Place(b, s, n) /\ e = Place(c, t, p)
  BY <1>4, PlaceIn
<1>6. Place(b, s, 0) = b /\ Place(b, s, n + 1) = b /\ Place(c, t, p + 1) = c /\ Place(c, t, 0) = c
  BY <1>2 DEF Place
<1>7. m.next[b] = f /\ m.prev[b] = l /\ m.prev[c] = e
  <2>1. 0 \in 0 .. Len(s) /\ 0 + 1 = 1 /\ n \in 0 .. Len(s) /\ p \in 0 .. Len(t)
    BY <1>2
  <2>2. Linked(m, b, s, 0) /\ Linked(m, b, s, n) /\ Linked(m, c, t, p)
    BY <1>4, <2>1, LinkIs, Zenon
  <2> QED
    BY ONLY <1>5, <1>6, <2>1, <2>2 DEF Linked
<1>8. e # l /\ f # c
  <2>1. 0 \in Int /\ 1 \in Int /\ n \in Int /\ p \in Int
    OBVIOUS
  <2> QED
    BY ONLY <1>4, <1>5, <1>6, <2>1
<1>9. PICK v \in Memory : v = Turned(m) /\ v.next = m.prev /\ v.prev = m.next
  <2>1. Turned(m) \in Memory
    BY <1>4, TurnedTwice
  <2> QED
    BY <2>1 DEF Turned
<1>10. PICK w : w = SpliceBetween(v, b, c, e)
  OBVIOUS
<1>11. Splices(v, b, c, e, l, f)
  BY <1>4, <1>7, <1>8, <1>9, SpliceLinks
<1>12. /\ w \in Memory /\ w.next[c] = l /\ w.next[f] = e /\ \A q \in Ptr \ {c, f} : w.next[q] = m.prev[q]
       /\ w.prev[l] = c /\ w.prev[e] = f /\ \A q \in Ptr \ {l, e} : w.prev[q] = m.next[q]
  BY ONLY <1>9, <1>10, <1>11 DEF Splices
<1>13. PICK u : u = SpliceBetween(m, b, e, c)
  OBVIOUS
<1>14. Splices(m, b, e, c, f, l)
  BY <1>4, <1>7, <1>8, SpliceLinks
<1>15. /\ u \in Memory /\ u.next[e] = f /\ u.next[l] = c /\ \A q \in Ptr \ {e, l} : u.next[q] = m.next[q]
       /\ u.prev[f] = e /\ u.prev[c] = l /\ \A q \in Ptr \ {f, c} : u.prev[q] = m.prev[q]
  BY ONLY <1>13, <1>14 DEF Splices
<1>16. PICK x \in Memory : x = Turned(w) /\ x.next = w.prev /\ x.prev = w.next
  <2>1. Turned(w) \in Memory
    BY <1>12, TurnedTwice
  <2> QED
    BY <2>1 DEF Turned
<1>17. \A q \in Ptr : u.next[q] = x.next[q] /\ u.prev[q] = x.prev[q]
  BY ONLY <1>12, <1>15, <1>16
<1>18. u = x
  BY <1>15, <1>17, MemoryEqual
<1>19. ListSpliceTail(m, b, c) = u
  BY <1>7, <1>13 DEF ListSpliceTail
<1>20. ~ListEmpty(v, b)
  <2>1. m.prev[b] # b
    <3>1. n # 0
      BY <1>2, <1>5, <1>7 DEF ListEmpty, Place
    <3>2. ~Among(b, s)
      BY <1>3 DEF TwoCircles
    <3> QED
      BY <1>2, <1>5, <1>7, <3>1, <3>2 DEF Place, Among
  <2> QED
    BY <1>9, <2>1 DEF ListEmpty
<1>21. ListSplice(v, b, c) = w
  BY <1>7, <1>9, <1>10, <1>20 DEF ListSplice
<1> QED
  BY <1>9, <1>12, <1>16, <1>18, <1>19, <1>21

LEMMA SpliceTailMerges ==
  ASSUME NEW m, NEW lists, Shape(m, lists), NEW b \in Bucket, NEW c \in Bucket, b # c
  PROVE  Merged(ListSpliceTail(m, b, c), lists, b, c, lists[c] \o lists[b])
<1>1. PICK s \in Seq(Ptr), t \in Seq(Ptr) : s = lists[b] /\ t = lists[c]
  BY ShapeFacts
<1>2. /\ m \in Memory /\ \A d \in Bucket : d \in Ptr /\ lists[d] \in Seq(Ptr) /\ IsCircle(m, d, lists[d])
  BY ShapeFacts, HeadsAndNodes
<1>3. CASE ListEmpty(m, b)
  <2>1. s = << >>
    BY <1>1, <1>3, HeadEnds
  <2>2. t \o << >> = t
    BY ConcatEmptySeq
  <2>3. ListSpliceTail(m, b, c) = m
    BY <1>3 DEF ListSpliceTail
  <2> QED
    BY <1>1, <1>2, <2>1, <2>2, <2>3 DEF Merged
<1>4. CASE ~ListEmpty(m, b)
  <2>1. PICK v, r : v = Turned(m) /\ r = TurnedLists(lists)
    OBVIOUS
  <2>2. PICK w : w = ListSplice(v, b, c)
    OBVIOUS
  <2>3. ListSpliceTail(m, b, c) = Turned(w) /\ w \in Memory
    BY <1>4, <2>1, <2>2, SpliceTurned
  <2>4. Merged(w, r, b, c, r[b] \o r[c])
    <3>1. Shape(v, r)
      BY <2>1, ShapeTurned
    <3> QED
      BY <2>2, <3>1, SpliceMerges
  <2>5. \A d \in Bucket : r[d] = Reverse(lists[d])
    BY <2>1 DEF TurnedLists
  <2>6. Turned(w) \in Memory
    BY <2>3, TurnedTwice
  <2>7. IsCircle(Turned(w), c, t \o s)
    <3>1. IsCircle(w, c, Reverse(s) \o Reverse(t))
      BY <1>1, <2>4, <2>5 DEF Merged
    <3>2. PICK x \in Seq(Ptr) : x = Reverse(s) \o Reverse(t)
      <4>1. Reverse(s) \in Seq(Ptr) /\ Reverse(t) \in Seq(Ptr)
        BY ReverseFacts
      <4> QED
        BY <4>1, ConcatProperties
    <3>3. IsCircle(Turned(w), c, Reverse(x))
      BY <1>2, <3>1, <3>2, CircleTurned
    <3> QED
      BY <3>2, <3>3, ReverseJoin
  <2>8. ASSUME NEW d \in Bucket, d # b, d # c PROVE IsCircle(Turned(w), d, lists[d])
    <3>1. IsCircle(w, d, r[d])
      BY <2>4, <2>8 DEF Merged
    <3>2. r[d] \in Seq(Ptr) /\ d \in Ptr
      BY <1>2, <2>5, ReverseFacts
    <3>3. IsCircle(Turned(w), d, Reverse(r[d]))
      BY <3>1, <3>2, CircleTurned
    <3>4. Reverse(r[d]) = lists[d]
      BY <1>2, <2>5, ReverseTwice
    <3> QED
      BY <3>3, <3>4
  <2> QED
    BY <1>1, <2>3, <2>6, <2>7, <2>8 DEF Merged
<1> QED
  BY <1>3, <1>4

(* The emptied head is an empty list.                                      *)
LEMMA CircleAlone ==
  ASSUME NEW w, NEW h \in Ptr, w.next[h] = h, w.prev[h] = h
  PROVE  IsCircle(w, h, << >>)
<1>1. << >> \in Seq(Ptr)
  BY EmptySeq
<1>2. PICK s \in Seq(Ptr) : s = << >> /\ Len(s) = 0
  BY <1>1, EmptySeq
<1>3. \A i : Place(h, s, i) = h
  BY <1>2 DEF Place
<1>4. \A i \in 0 .. Len(s) : w.next[Place(h, s, i)] = Place(h, s, i + 1) /\ w.prev[Place(h, s, i + 1)] = Place(h, s, i)
  BY <1>3
<1>5. IsCircle(w, h, s)
  BY <1>4, CirclePlaces
<1> QED
  BY ONLY <1>2, <1>5

LEMMA MergedInit ==
  ASSUME NEW w, NEW lists \in [Bucket -> Seq(Node)], NEW b \in Bucket, NEW c \in Bucket, b # c,
         NEW s \in Seq(Node), Merged(w, lists, b, c, s)
  PROVE  Merged(InitListHead(w, b), lists, b, c, s) /\ IsCircle(InitListHead(w, b), b, << >>)
<1>1. b \in Ptr /\ c \in Ptr /\ w \in Memory
  BY HeadsAndNodes DEF Merged
<1>2. PICK x : x = InitListHead(w, b) /\ x \in Memory /\ Elsewhere(w, x, {b}) /\ x.next[b] = b /\ x.prev[b] = b
  BY <1>1, InitElsewhere
<1>3. ASSUME NEW d \in Bucket, d # b, NEW t \in Seq(Node), IsCircle(w, d, t) PROVE IsCircle(x, d, t)
  <2>1. t \in Seq(Ptr) /\ ~Among(b, t) /\ d \in Ptr
    BY HeadsAndNodes
  <2>2. \A q \in Ptr : q = d \/ Among(q, t) => x.next[q] = w.next[q] /\ x.prev[q] = w.prev[q]
    BY <1>2, <1>3, <2>1 DEF Elsewhere
  <2> QED
    BY <1>3, <2>1, <2>2, SameCircle
<1>4. IsCircle(x, c, s)
  BY <1>3 DEF Merged
<1>5. \A d \in Bucket : d # b /\ d # c => IsCircle(x, d, lists[d])
  <2>1. \A d \in Bucket : lists[d] \in Seq(Node)
    OBVIOUS
  <2> QED
    BY <1>3, <2>1 DEF Merged
<1>6. IsCircle(x, b, << >>)
  BY <1>1, <1>2, CircleAlone
<1> QED
  BY <1>2, <1>4, <1>5, <1>6 DEF Merged

MergedLists(v, lists, b, c, s) ==
  /\ DOMAIN v = Bucket /\ v[b] = << >> /\ v[c] = s
  /\ \A d \in Bucket : d # b /\ d # c => v[d] = lists[d]

HoldsBut(w, lists, b, v) == Holds(w, [f \in DOMAIN lists \ {b} |-> v[f]])

LEMMA MergedHolds ==
  ASSUME NEW w, NEW lists, DOMAIN lists = Bucket, NEW b \in Bucket, NEW c \in Bucket, NEW s, Merged(w, lists, b, c, s),
         NEW v, MergedLists(v, lists, b, c, s)
  PROVE  /\ HoldsBut(w, lists, b, v)
         /\ IsCircle(w, b, << >>) => Holds(w, v)
<1>1. \A d \in Bucket : d # b => IsCircle(w, d, v[d])
  BY DEF Merged, MergedLists
<1>2. HoldsBut(w, lists, b, v)
  <2>1. PICK r : r = [f \in DOMAIN lists \ {b} |-> v[f]]
    OBVIOUS
  <2>2. DOMAIN r = Bucket \ {b} /\ \A d \in Bucket \ {b} : r[d] = v[d]
    BY <2>1
  <2>3. \A d \in DOMAIN r : IsCircle(w, d, r[d])
    BY <1>1, <2>2
  <2> QED
    BY <2>1, <2>3 DEF Holds, HoldsBut
<1>3. ASSUME IsCircle(w, b, << >>) PROVE Holds(w, v)
  <2>1. DOMAIN v = Bucket /\ v[b] = << >>
    BY DEF MergedLists
  <2>2. \A d \in Bucket : IsCircle(w, d, v[d])
    BY <1>1, <1>3, <2>1
  <2> QED
    BY <2>1, <2>2 DEF Holds
<1> QED
  BY <1>2, <1>3

LEMMA SpliceOps ==
  ASSUME NEW m, NEW lists, Shape(m, lists), NEW b \in Bucket, NEW c \in Bucket, b # c
  PROVE  SpliceSound(m, lists, b, c)
<1>1. lists \in [Bucket -> Seq(Node)] /\ DOMAIN lists = Bucket /\ lists[b] \in Seq(Node) /\ lists[c] \in Seq(Node)
  BY DEF Shape
<1>2. PICK s, t : s = lists[b] \o lists[c] /\ t = lists[c] \o lists[b]
  OBVIOUS
<1>3. s \in Seq(Node) /\ t \in Seq(Node)
  BY <1>1, <1>2, ConcatProperties
<1>4. PICK front : front = [lists EXCEPT ![b] = << >>, ![c] = lists[b] \o @]
  OBVIOUS
<1>5. PICK back : back = [lists EXCEPT ![b] = << >>, ![c] = @ \o lists[b]]
  OBVIOUS
<1>6. MergedLists(front, lists, b, c, s) /\ MergedLists(back, lists, b, c, t)
  <2>1. DOMAIN front = Bucket /\ DOMAIN back = Bucket
    BY <1>1, <1>4, <1>5
  <2>2. front[b] = << >> /\ back[b] = << >> /\ \A d \in Bucket : d # b /\ d # c => front[d] = lists[d] /\ back[d] = lists[d]
    BY <1>1, <1>4, <1>5
  <2>3. front[c] = s /\ back[c] = t
    BY <1>1, <1>2, <1>4, <1>5
  <2> QED
    BY <2>1, <2>2, <2>3 DEF MergedLists
<1>7. PICK w, x : w = ListSplice(m, b, c) /\ x = ListSpliceTail(m, b, c)
  OBVIOUS
<1>8. Merged(w, lists, b, c, s) /\ Merged(x, lists, b, c, t)
  BY <1>2, <1>7, SpliceMerges, SpliceTailMerges
<1>9. Holds(w, [f \in DOMAIN lists \ {b} |-> front[f]]) /\ Holds(x, [f \in DOMAIN lists \ {b} |-> back[f]])
  <2>1. HoldsBut(w, lists, b, front) /\ HoldsBut(x, lists, b, back)
    BY <1>1, <1>6, <1>8, MergedHolds
  <2> QED
    BY ONLY <2>1, Zenon DEF HoldsBut
<1>10. Holds(ListSpliceInit(m, b, c), front) /\ Holds(ListSpliceTailInit(m, b, c), back)
  <2>1. CASE ListEmpty(m, b)
    <3>1. w = m /\ x = m /\ ListSpliceInit(m, b, c) = m /\ ListSpliceTailInit(m, b, c) = m
      BY <1>7, <2>1 DEF ListSplice, ListSpliceTail, ListSpliceInit, ListSpliceTailInit
    <3>2. lists[b] = << >>
      BY <2>1, HeadEnds
    <3>3. IsCircle(m, b, << >>)
      BY <3>2, ShapeFacts
    <3> QED
      BY <1>1, <1>6, <1>8, <3>1, <3>3, MergedHolds
  <2>2. CASE ~ListEmpty(m, b)
    <3>1. ListSpliceInit(m, b, c) = InitListHead(w, b) /\ ListSpliceTailInit(m, b, c) = InitListHead(x, b)
      BY <1>7, <2>2 DEF ListSpliceInit, ListSpliceTailInit
    <3>2. /\ Merged(InitListHead(w, b), lists, b, c, s) /\ IsCircle(InitListHead(w, b), b, << >>)
          /\ Merged(InitListHead(x, b), lists, b, c, t) /\ IsCircle(InitListHead(x, b), b, << >>)
      BY <1>1, <1>3, <1>8, MergedInit
    <3> QED
      BY <1>1, <1>6, <3>1, <3>2, MergedHolds
  <2> QED
    BY <2>1, <2>2
<1> QED
  BY <1>4, <1>5, <1>7, <1>9, <1>10 DEF SpliceSound
-----------------------------------------------------------------------------
(* Every operation of the list, whatever is listed.                        *)

LEMMA HeadOps ==
  ASSUME NEW m, NEW lists, Shape(m, lists), NEW b \in Bucket, NEW x, Spare(x, lists)
  PROVE  HeadOpsSound(m, lists, b, x)
<1>1. PICK s \in Seq(Node) : s = lists[b]
  BY ShapeFacts
<1>2. (ListEmpty(m, b) <=> s = << >>) /\ (ListEmptyCareful(m, b) <=> s = << >>) /\ (ListIsSingular(m, b) <=> Len(s) = 1)
  BY <1>1, HeadEnds
<1>3. Holds(ListRotateLeft(m, b), [lists EXCEPT ![b] = IF @ = << >> THEN @ ELSE Append(Tail(@), Head(@))])
  BY RotateHolds
<1>4. /\ Holds(ListReplaceInit(m, b, x),
               [g \in (DOMAIN lists \ {b}) \cup {x} |-> IF g = x THEN lists[b] ELSE lists[g]])
      /\ ListEmpty(ListReplaceInit(m, b, x), b)
  BY ReplaceHeadHolds
<1>5. ASSUME NEW e \in ToSet(s), NEW cut, cut = ListCutPosition(m, x, b, e)
      PROVE  /\ Holds(cut, [lists EXCEPT ![b] = SubSeq(@, UpTo(lists[b], e) + 1, Len(lists[b]))])
             /\ IsCircle(cut, x, SubSeq(lists[b], 1, UpTo(lists[b], e)))
  <2>1. DOMAIN s = 1 .. Len(s)
    BY LenProperties
  <2>2. PICK k \in 1 .. Len(lists[b]) : e = lists[b][k]
    BY <1>1, <2>1 DEF ToSet
  <2> QED
    BY <1>5, <2>2, CutHolds
<1>6. lists[b] # << >> => ListEmpty(ListCutPosition(m, x, b, b), x)
  BY CutNothing DEF Spare
<1>7. Holds(DeleteEach(m, b), [lists EXCEPT ![b] = << >>]) /\ Holds(DeleteEachPrev(m, b), [lists EXCEPT ![b] = << >>])
  BY DeleteHolds DEF DeleteEach, DeleteEachPrev
<1> QED
  BY <1>1, <1>2, <1>3, <1>4, <1>5, <1>6, <1>7 DEF HeadOpsSound

(* Whatever requests are listed, every operation of net_common_list.h      *)
(* would leave well-formed lists with the nodes it should.                 *)
THEOREM ForwardListOpsSound == Spec => []ListOpsSound
<1>1. ForwardInv => ListOpsSound
  <2> SUFFICES ASSUME ForwardInv PROVE ListOpsSound
    OBVIOUS
  <2>1. PICK m, lists : m = mem /\ lists = Listed
    OBVIOUS
  <2>2. Shape(m, lists)
    BY <2>1, ListedIs DEF ForwardInv, ListInv
  <2>3. PICK spare : spare = Ptr \ (Bucket \cup Node)
    OBVIOUS
  <2>4. \A x \in spare : Spare(x, lists)
    <3>1. \A b \in Bucket : \A i \in 1 .. Len(lists[b]) : lists[b][i] \in Node
      BY <2>2, ShapeFacts
    <3> QED
      BY <2>3, <3>1 DEF Spare, OnList, Among
  <2>5. Holds(m, lists)
    BY <2>2, ShapeHolds
  <2>6. ASSUME NEW b \in Bucket
        PROVE  /\ ForEachPrev(m, b) = Reverse(lists[b])
               /\ \A n \in ToSet(lists[b]) : NodeOpsSound(m, lists, b, n, spare)
               /\ \A x \in spare : HeadOpsSound(m, lists, b, x)
               /\ \A c \in Bucket \ {b} : SpliceSound(m, lists, b, c)
    <3>1. ForEachPrev(m, b) = Reverse(lists[b])
      BY <2>2, ShapeListedPrev
    <3>2. ASSUME NEW n \in ToSet(lists[b]) PROVE NodeOpsSound(m, lists, b, n, spare)
      <4>1. PICK s \in Seq(Node) : s = lists[b]
        BY <2>2, ShapeFacts
      <4>2. DOMAIN s = 1 .. Len(s)
        BY LenProperties
      <4>3. PICK k \in 1 .. Len(lists[b]) : n = lists[b][k]
        BY <3>2, <4>1, <4>2 DEF ToSet
      <4> QED
        BY <2>2, <2>4, <4>3, NodeOps
    <3>3. \A x \in spare : HeadOpsSound(m, lists, b, x)
      BY <2>2, <2>4, HeadOps
    <3>4. \A c \in Bucket \ {b} : SpliceSound(m, lists, b, c)
      BY <2>2, SpliceOps
    <3> QED
      BY <3>1, <3>2, <3>3, <3>4
  <2> QED
    BY <2>1, <2>3, <2>5, <2>6 DEF ListOpsSound
<1> QED
  BY <1>1, ForwardInvariant, PTL
=============================================================================
