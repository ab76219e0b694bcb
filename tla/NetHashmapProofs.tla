-------------------------- MODULE NetHashmapProofs --------------------------
(***************************************************************************)
(* Proofs about the hash map, for any threads, buckets and names: while a  *)
(* thread inserts into a bucket no other thread is in its tree; strcmp is  *)
(* a total order; the trees are red-black trees whenever no insert is at   *)
(* work on them; the whole is the dictionary of AddressBook; and the walks *)
(* of such a tree meet its names in order, also after one is replaced.     *)
(***************************************************************************)
EXTENDS NetHashmap, RbTreeProofs, DataLemmas

(* What the proof needs of the types: the trees themselves play no part.   *)
LockTypes ==
  /\ readers \in [Bucket -> SUBSET Searchers]
  /\ writer \in [Bucket -> SUBSET Inserters]
  /\ pc \in [Threads -> {"idle", "lock", "descend", "fix", "unlock"}]
  /\ DOMAIN arg = Threads
  /\ \A t \in Threads : pc[t] # "idle" => NameOf(t) \in Key

(* A lock is held by exactly the threads that are inside its tree, and a   *)
(* writer holds it alone.                                                  *)
HeldInside ==
  \A b \in Bucket, t \in Threads :
    (t \in writer[b] \cup readers[b]) <=> (Inside(t) /\ HomeOf(t) = b)

WriterHoldsAlone ==
  \A b \in Bucket : \A t \in writer[b], u \in writer[b] \cup readers[b] : t = u

LockInv == LockTypes /\ HeldInside /\ WriterHoldsAlone

LEMMA InitLockInv == Init => LockInv
  BY DEF Init, LockInv, LockTypes, HeldInside, WriterHoldsAlone, Inside, Threads

(* A thread outside the locks: its call begins.                            *)
LEMMA CallLockInv ==
  ASSUME NEW t \in Threads, NEW entry, entry[1] \in Key, LockInv, Call(t, entry)
  PROVE  LockInv'
  <1>1. LockTypes'
    BY DEF LockInv, LockTypes, Call, locks, NameOf
  <1>2. HeldInside'
    BY DEF LockInv, LockTypes, HeldInside, Call, locks, Inside, HomeOf, NameOf
  <1>3. WriterHoldsAlone'
    BY DEF LockInv, WriterHoldsAlone, Call, locks
  <1> QED BY <1>1, <1>2, <1>3 DEF LockInv

(* A step inside a tree that keeps the locks and the call.                 *)
LEMMA InsideLockInv ==
  ASSUME NEW t \in Threads, LockInv, UNCHANGED <<locks, arg>>,
         Inside(t), pc' \in {pc, [pc EXCEPT ![t] = "fix"], [pc EXCEPT ![t] = "unlock"]}
  PROVE  LockInv'
  <1>1. LockTypes'
    BY DEF LockInv, LockTypes, locks, NameOf, Inside
  <1>2. \A u \in Threads : Inside(u)' <=> Inside(u)
    BY DEF LockInv, LockTypes, Inside
  <1>3. HeldInside'
    BY <1>2 DEF LockInv, HeldInside, locks, HomeOf, NameOf
  <1>4. WriterHoldsAlone'
    BY DEF LockInv, WriterHoldsAlone, locks
  <1> QED BY <1>1, <1>3, <1>4 DEF LockInv

LEMMA HomeIsBucket ==
  ASSUME NEW t \in Threads, LockTypes, pc[t] # "idle"
  PROVE  HomeOf(t) \in Bucket
  BY HashmapAssumption DEF LockTypes, HomeOf

LEMMA InsertLockInv ==
  ASSUME NEW t \in Inserters, LockInv, InsertLock(t)
  PROVE  LockInv'
  <1> DEFINE b == HomeOf(t)
  <1>1. t \in Threads /\ b \in Bucket
    BY HomeIsBucket DEF LockInv, InsertLock, AtRoot, Threads
  <1>2. LockTypes'
    BY <1>1 DEF LockInv, LockTypes, InsertLock, AtRoot, NameOf
  <1>3. HeldInside'
    <2> SUFFICES ASSUME NEW c \in Bucket, NEW u \in Threads
                 PROVE  (u \in writer'[c] \cup readers'[c]) <=> (Inside(u)' /\ HomeOf(u)' = c)
      BY DEF HeldInside
    <2>1. HomeOf(u)' = HomeOf(u)
      BY DEF InsertLock, AtRoot, HomeOf, NameOf
    <2>2. CASE u = t
      <3>1. Inside(u)'
        BY <1>1, <2>2 DEF LockInv, LockTypes, InsertLock, AtRoot, Inside
      <3>2. ~Inside(u)
        BY <2>2 DEF InsertLock, AtRoot, Inside
      <3>3. u \notin writer[c] \cup readers[c]
        BY <3>2 DEF LockInv, HeldInside
      <3> QED BY <1>1, <2>1, <2>2, <3>1, <3>3 DEF LockInv, LockTypes, InsertLock
    <2>3. CASE u # t
      <3>1. Inside(u)' <=> Inside(u)
        BY <2>3 DEF LockInv, LockTypes, InsertLock, AtRoot, Inside
      <3>2. (u \in writer'[c] \cup readers'[c]) <=> (u \in writer[c] \cup readers[c])
        BY <1>1, <2>3 DEF LockInv, LockTypes, InsertLock
      <3> QED BY <2>1, <3>1, <3>2 DEF LockInv, HeldInside
    <2> QED BY <2>2, <2>3
  <1>4. WriterHoldsAlone'
    BY <1>1 DEF LockInv, LockTypes, WriterHoldsAlone, InsertLock
  <1> QED BY <1>2, <1>3, <1>4 DEF LockInv

LEMMA SearchLockInv ==
  ASSUME NEW t \in Searchers, LockInv, SearchLock(t)
  PROVE  LockInv'
  <1> DEFINE b == HomeOf(t)
  <1>1. t \in Threads /\ b \in Bucket
    BY HomeIsBucket DEF LockInv, SearchLock, AtRoot, Threads
  <1>2. LockTypes'
    BY <1>1 DEF LockInv, LockTypes, SearchLock, AtRoot, NameOf
  <1>3. HeldInside'
    <2> SUFFICES ASSUME NEW c \in Bucket, NEW u \in Threads
                 PROVE  (u \in writer'[c] \cup readers'[c]) <=> (Inside(u)' /\ HomeOf(u)' = c)
      BY DEF HeldInside
    <2>1. HomeOf(u)' = HomeOf(u)
      BY DEF SearchLock, AtRoot, HomeOf, NameOf
    <2>2. CASE u = t
      <3>1. Inside(u)'
        BY <1>1, <2>2 DEF LockInv, LockTypes, SearchLock, AtRoot, Inside
      <3>2. ~Inside(u)
        BY <2>2 DEF SearchLock, AtRoot, Inside
      <3>3. u \notin writer[c] \cup readers[c]
        BY <3>2 DEF LockInv, HeldInside
      <3> QED BY <1>1, <2>1, <2>2, <3>1, <3>3 DEF LockInv, LockTypes, SearchLock
    <2>3. CASE u # t
      <3>1. Inside(u)' <=> Inside(u)
        BY <2>3 DEF LockInv, LockTypes, SearchLock, AtRoot, Inside
      <3>2. (u \in writer'[c] \cup readers'[c]) <=> (u \in writer[c] \cup readers[c])
        BY <1>1, <2>3 DEF LockInv, LockTypes, SearchLock
      <3> QED BY <2>1, <3>1, <3>2 DEF LockInv, HeldInside
    <2> QED BY <2>2, <2>3
  <1>4. WriterHoldsAlone'
    BY <1>1 DEF LockInv, LockTypes, WriterHoldsAlone, SearchLock
  <1> QED BY <1>2, <1>3, <1>4 DEF LockInv

(* A call ends: its thread leaves the tree and the lock together.          *)
LEMMA ReturnLockInv ==
  ASSUME NEW t \in Threads, LockInv,
         (t \in Inserters /\ InsertReturn(t)) \/ (t \in Searchers /\ SearchReturn(t))
  PROVE  LockInv'
  <1> DEFINE b == HomeOf(t)
  <1>1. b \in Bucket /\ Inside(t) /\ pc[t] = "unlock" /\ Return(t)
    BY HomeIsBucket DEF LockInv, InsertReturn, SearchReturn, Return, Inside
  <1>2. t \in writer[b] \cup readers[b]
    BY <1>1 DEF LockInv, HeldInside
  <1>3. /\ t \in Inserters => writer[b] = {t}
        /\ t \in Searchers => t \in readers[b]
    BY <1>1, <1>2, HashmapAssumption
    DEF LockInv, LockTypes, WriterHoldsAlone
  <1>4. LockTypes'
    BY <1>1 DEF LockInv, LockTypes, Return, InsertReturn, SearchReturn, NameOf
  <1>5. HeldInside'
    <2> SUFFICES ASSUME NEW c \in Bucket, NEW u \in Threads
                 PROVE  (u \in writer'[c] \cup readers'[c]) <=> (Inside(u)' /\ HomeOf(u)' = c)
      BY DEF HeldInside
    <2>1. CASE u = t
      <3>1. ~Inside(u)'
        BY <1>1, <2>1 DEF LockInv, LockTypes, Return, Inside
      <3>2. c # b => u \notin writer[c] \cup readers[c]
        BY <2>1 DEF LockInv, HeldInside
      <3>3. u \notin writer'[c] \cup readers'[c]
        BY <1>1, <1>3, <2>1, <3>2, HashmapAssumption
        DEF LockInv, LockTypes, InsertReturn, SearchReturn
      <3> QED BY <3>1, <3>3
    <2>2. CASE u # t
      <3>1. Inside(u)' <=> Inside(u)
        BY <2>2 DEF LockInv, LockTypes, Inside, InsertReturn, SearchReturn, Return
      <3>2. HomeOf(u)' = HomeOf(u)
        BY <2>2 DEF LockInv, LockTypes, InsertReturn, SearchReturn, Return, HomeOf, NameOf
      <3>3. (u \in writer'[c] \cup readers'[c]) <=> (u \in writer[c] \cup readers[c])
        BY <1>1, <1>3, <2>2 DEF LockInv, LockTypes, InsertReturn, SearchReturn
      <3> QED BY <3>1, <3>2, <3>3 DEF LockInv, HeldInside
    <2> QED BY <2>1, <2>2
  <1>6. WriterHoldsAlone'
    BY <1>1 DEF LockInv, LockTypes, WriterHoldsAlone, InsertReturn, SearchReturn
  <1> QED BY <1>4, <1>5, <1>6 DEF LockInv

(* Every step keeps the lock invariant. *)
LEMMA NextLockInv == LockInv /\ [Next]_vars => LockInv'
  <1> SUFFICES ASSUME LockInv, [Next]_vars PROVE LockInv'
    OBVIOUS
  <1>1. CASE \E t \in Inserters : Insert(t)
    <2>1. PICK t \in Inserters : Insert(t)
      BY <1>1
    <2>2. t \in Threads
      BY DEF Threads
    <2>3. ASSUME NEW entry \in Entries, Call(t, entry) PROVE LockInv'
      <3>1. entry[1] \in Key
        BY HashmapAssumption
      <3> QED BY <2>2, <2>3, <3>1, CallLockInv
    <2>4. CASE InsertLock(t)
      BY <2>4, InsertLockInv
    <2>5. CASE InsertDescend(t) \/ InsertPresent(t) \/ InsertLink(t)
               \/ InsertFix(t) \/ InsertFixed(t)
      <3>1. /\ UNCHANGED <<locks, arg>> /\ Inside(t)
            /\ pc' \in {pc, [pc EXCEPT ![t] = "fix"], [pc EXCEPT ![t] = "unlock"]}
        <4>1. CASE InsertDescend(t)
          BY <4>1 DEF InsertDescend, Inside
        <4>2. CASE InsertPresent(t)
          BY <4>2 DEF InsertPresent, Inside
        <4>3. CASE InsertLink(t)
          BY <4>3 DEF InsertLink, Inside
        <4>4. CASE InsertFix(t)
          BY <4>4 DEF InsertFix, Inside
        <4>5. CASE InsertFixed(t)
          BY <4>5 DEF InsertFixed, Inside
        <4> QED BY <2>5, <4>1, <4>2, <4>3, <4>4, <4>5
      <3> QED BY <2>2, <3>1, InsideLockInv
    <2>6. CASE InsertReturn(t)
      BY <2>2, <2>6, ReturnLockInv
    <2> QED BY <2>1, <2>3, <2>4, <2>5, <2>6 DEF Insert
  <1>2. CASE \E t \in Searchers : Search(t)
    <2>1. PICK t \in Searchers : Search(t)
      BY <1>2
    <2>2. t \in Threads
      BY DEF Threads
    <2>3. ASSUME NEW k \in Queries, Call(t, <<k, NoAddr>>) PROVE LockInv'
      <3>1. <<k, NoAddr>>[1] \in Key
        BY HashmapAssumption
      <3> QED BY <2>2, <2>3, <3>1, CallLockInv
    <2>4. CASE SearchLock(t)
      BY <2>4, SearchLockInv
    <2>5. CASE SearchDescend(t) \/ SearchEnd(t)
      <3>1. /\ UNCHANGED <<locks, arg>> /\ Inside(t)
            /\ pc' \in {pc, [pc EXCEPT ![t] = "fix"], [pc EXCEPT ![t] = "unlock"]}
        <4>1. CASE SearchDescend(t)
          BY <4>1 DEF SearchDescend, Inside
        <4>2. CASE SearchEnd(t)
          BY <4>2 DEF SearchEnd, Inside
        <4> QED BY <2>5, <4>1, <4>2
      <3> QED BY <2>2, <3>1, InsideLockInv
    <2>6. CASE SearchReturn(t)
      BY <2>2, <2>6, ReturnLockInv
    <2> QED BY <2>1, <2>3, <2>4, <2>5, <2>6 DEF Search
  <1>3. CASE UNCHANGED vars
    BY <1>3 DEF vars, locks, locals, LockInv, LockTypes, HeldInside, WriterHoldsAlone,
                Inside, HomeOf, NameOf
  <1> QED BY <1>1, <1>2, <1>3 DEF Next

(* While a thread inserts into a tree no other thread is in that tree, be  *)
(* it to insert or to search: the locks of net_hashmap_core.c:113 and :150.*)
THEOREM HashmapWriterAlone == Spec => []WriterAlone
  <1>1. LockInv => WriterAlone
    <2> SUFFICES ASSUME LockInv, NEW t \in Inserters, NEW u \in Threads,
                        Inside(t), Inside(u), HomeOf(t) = HomeOf(u)
                 PROVE  t = u
      BY DEF WriterAlone
    <2> DEFINE b == HomeOf(t)
    <2>1. t \in Threads /\ b \in Bucket
      BY HomeIsBucket DEF LockInv, Inside, Threads
    <2>2. t \in writer[b] \cup readers[b] /\ u \in writer[b] \cup readers[b]
      BY <2>1 DEF LockInv, HeldInside
    <2>3. t \in writer[b]
      BY <2>1, <2>2, HashmapAssumption DEF LockInv, LockTypes
    <2> QED BY <2>1, <2>2, <2>3 DEF LockInv, WriterHoldsAlone
  <1> QED BY <1>1, InitLockInv, NextLockInv, PTL DEF Spec
-----------------------------------------------------------------------------
(* The comparison of names.                                                *)

(* What can be a host name: octets, and no more than a node has room for.  *)
HostNames == {p \in Seq(1 .. 255) : Len(p) < DomainLen}

(* The place i decides between two names, which agree on all before it.    *)
Decided(p, q, i) == i > Len(p) \/ i > Len(q) \/ p[i] # q[i]
Agree(p, q, i) == \A j \in 1 .. i - 1 : j <= Len(p) /\ j <= Len(q) /\ p[j] = q[j]

Verdict(p, q, i) ==
  IF i > Len(p) \/ i > Len(q)
  THEN IF Len(p) = Len(q) THEN 0 ELSE IF i > Len(p) THEN -1 ELSE 1
  ELSE IF Signed(p[i]) > Signed(q[i]) THEN 1 ELSE -1

(* Octets differ as their signed values do.                                *)
LEMMA SignedDiffers ==
  ASSUME NEW a \in 1 .. 255, NEW b \in 1 .. 255
  PROVE  /\ Signed(a) \in Int /\ Signed(b) \in Int
         /\ a # b => Signed(a) > Signed(b) \/ Signed(a) < Signed(b)
BY DEF Signed

LEMMA NameFacts ==
  ASSUME NEW p \in HostNames
  PROVE  Len(p) \in Nat /\ Len(p) <= DomainLen /\ \A i \in 1 .. Len(p) : p[i] \in 1 .. 255
<1>1. p \in Seq(1 .. 255) /\ Len(p) < DomainLen
  BY DEF HostNames
<1>2. Len(p) \in Nat /\ \A i \in 1 .. Len(p) : p[i] \in 1 .. 255
  BY <1>1, ElementOfSeq
<1> QED
  BY <1>1, <1>2 DEF DomainLen

LEMMA FirstDecided ==
  ASSUME NEW p \in HostNames, NEW q \in HostNames
  PROVE  \E i \in Nat \ {0} : Decided(p, q, i) /\ Agree(p, q, i) /\ i <= DomainLen + 1
<1>1. /\ Len(p) \in Nat /\ Len(q) \in Nat /\ DomainLen = 512 /\ Len(p) <= DomainLen
  BY NameFacts DEF DomainLen
<1> DEFINE S == {i \in Nat \ {0} : Decided(p, q, i)}
<1>2. Len(p) + 1 \in S
  BY <1>1 DEF Decided
<1>3. PICK i \in S : \A n \in S : i <= n
  <2>1. S \in SUBSET Nat /\ S # {}
    BY <1>2
  <2> HIDE DEF S
  <2> QED
    BY <2>1, LeastNat
<1>4. i <= Len(p) + 1
  BY <1>2, <1>3
<1>5. ASSUME NEW j \in 1 .. i - 1 PROVE j <= Len(p) /\ j <= Len(q) /\ p[j] = q[j]
  <2>1. j \notin S /\ j \in Nat \ {0}
    BY <1>3, <1>5
  <2> QED
    BY <1>1, <2>1 DEF Decided
<1> QED
  BY <1>1, <1>3, <1>4, <1>5 DEF Agree

(* The loop as an equation on the results from each place on.              *)
Loop(p, q, f) ==
  f = [i \in Nat \ {0} |->
        IF i > Len(p) \/ i > Len(q)
        THEN IF Len(p) = Len(q) THEN 0 ELSE IF i > Len(p) THEN -1 ELSE 1
        ELSE CASE Signed(p[i]) > Signed(q[i]) -> 1
               [] Signed(p[i]) < Signed(q[i]) -> -1
               [] p[i] = q[i] /\ i > DomainLen -> -1
               [] OTHER -> f[i + 1]]

(* It has a solution: each place has the verdict of the next that decides. *)
NextDecided(p, q, i, j) ==
  j \in Nat /\ j >= i /\ Decided(p, q, j) /\ \A k \in Nat : k >= i /\ k < j => ~Decided(p, q, k)

LEMMA LoopHasResult ==
  ASSUME NEW p \in HostNames, NEW q \in HostNames
  PROVE  \E f : Loop(p, q, f)
<1>1. /\ Len(p) \in Nat /\ Len(q) \in Nat /\ DomainLen = 512
      /\ Len(p) <= DomainLen /\ Len(q) <= DomainLen
  BY NameFacts DEF DomainLen
<1>2. ASSUME NEW i \in Nat \ {0} PROVE \E j : NextDecided(p, q, i, j)
  <2> DEFINE S == {j \in Nat : j >= i /\ Decided(p, q, j)}
  <2>1. Len(p) + i \in S
    BY <1>1 DEF Decided
  <2>2. PICK j \in S : \A n \in S : j <= n
    <3>1. S \in SUBSET Nat /\ S # {}
      BY <2>1
    <3> HIDE DEF S
    <3> QED
      BY <3>1, LeastNat
  <2>3. NextDecided(p, q, i, j)
    BY <2>2 DEF NextDecided
  <2> QED
    BY <2>3
<1> DEFINE at(i) == CHOOSE j : NextDecided(p, q, i, j)
<1> DEFINE f == [i \in Nat \ {0} |-> Verdict(p, q, at(i))]
<1>3. ASSUME NEW i \in Nat \ {0} PROVE NextDecided(p, q, i, at(i))
  BY <1>2
<1>4. ASSUME NEW i \in Nat \ {0}, NEW j, NEW k, NextDecided(p, q, i, j), NextDecided(p, q, i, k)
      PROVE  j = k
  BY <1>4 DEF NextDecided
<1>5. ASSUME NEW i \in Nat \ {0}, Decided(p, q, i) PROVE at(i) = i
  <2>1. NextDecided(p, q, i, i)
    BY <1>5 DEF NextDecided
  <2> HIDE DEF at
  <2> QED
    BY <1>3, <1>4, <2>1
<1>6. ASSUME NEW i \in Nat \ {0}, ~Decided(p, q, i) PROVE at(i) = at(i + 1)
  <2>1. NextDecided(p, q, i + 1, at(i + 1)) /\ i + 1 \in Nat \ {0}
    <3> HIDE DEF at
    <3> QED
      BY <1>3
  <2>2. NextDecided(p, q, i, at(i + 1))
    <3> HIDE DEF at
    <3> QED
      BY <1>6, <2>1 DEF NextDecided
  <2> HIDE DEF at
  <2> QED
    BY <1>3, <1>4, <2>2
<1> DEFINE body(i) ==
        IF i > Len(p) \/ i > Len(q)
        THEN IF Len(p) = Len(q) THEN 0 ELSE IF i > Len(p) THEN -1 ELSE 1
        ELSE CASE Signed(p[i]) > Signed(q[i]) -> 1
               [] Signed(p[i]) < Signed(q[i]) -> -1
               [] p[i] = q[i] /\ i > DomainLen -> -1
               [] OTHER -> f[i + 1]
<1>7. ASSUME NEW i \in Nat \ {0} PROVE f[i] = body(i)
  <2> HIDE DEF at
  <2>1. f[i] = Verdict(p, q, at(i)) /\ f[i + 1] = Verdict(p, q, at(i + 1))
    BY i + 1 \in Nat \ {0}
  <2> HIDE DEF f
  <2>2. CASE i > Len(p) \/ i > Len(q)
    BY <1>5, <2>1, <2>2 DEF Decided, Verdict
  <2>3. CASE ~ (i > Len(p) \/ i > Len(q))
    <3>1. /\ p[i] \in 1 .. 255 /\ q[i] \in 1 .. 255 /\ i <= DomainLen
      BY <1>1, <2>3, NameFacts
    <3>2. /\ Signed(p[i]) \in Int /\ Signed(q[i]) \in Int
          /\ p[i] # q[i] => Signed(p[i]) > Signed(q[i]) \/ Signed(p[i]) < Signed(q[i])
      BY <3>1, SignedDiffers
    <3>3. CASE p[i] = q[i]
      <4>1. at(i) = at(i + 1)
        BY <1>6, <2>3, <3>3 DEF Decided
      <4>2. ~(Signed(p[i]) > Signed(q[i])) /\ ~(Signed(p[i]) < Signed(q[i])) /\ ~(i > DomainLen)
        BY <1>1, <3>1, <3>2, <3>3
      <4> QED
        BY <2>1, <2>3, <4>1, <4>2
    <3>4. CASE p[i] # q[i]
      <4>1. at(i) = i
        BY <1>5, <3>4 DEF Decided
      <4> QED
        BY <2>1, <2>3, <3>2, <3>4, <4>1 DEF Verdict
    <3> QED
      BY <3>3, <3>4
  <2> QED
    BY <2>2, <2>3
<1>8. f = [i \in Nat \ {0} |-> body(i)]
  <2> HIDE DEF at
  <2>1. f = [i \in Nat \ {0} |-> f[i]]
    OBVIOUS
  <2> HIDE DEF f, body
  <2> QED
    BY <1>7, <2>1
<1>9. Loop(p, q, f)
  <2> HIDE DEF f
  <2> QED
  BY <1>8 DEF Loop
<1> QED
  BY <1>9

(* The loop stops at the first place that decides.                         *)
LEMMA LoopStops ==
  ASSUME NEW p \in HostNames, NEW q \in HostNames, NEW f, Loop(p, q, f),
         NEW i \in Nat \ {0}, Decided(p, q, i), Agree(p, q, i), i <= DomainLen + 1
  PROVE  f[1] = Verdict(p, q, i)
<1>1. /\ Len(p) \in Nat /\ Len(q) \in Nat /\ DomainLen = 512
      /\ Len(p) <= DomainLen /\ Len(q) <= DomainLen
  BY NameFacts DEF DomainLen
<1>2. ASSUME NEW j \in Nat \ {0}
      PROVE  f[j] = IF j > Len(p) \/ j > Len(q)
        THEN IF Len(p) = Len(q) THEN 0 ELSE IF j > Len(p) THEN -1 ELSE 1
        ELSE CASE Signed(p[j]) > Signed(q[j]) -> 1
               [] Signed(p[j]) < Signed(q[j]) -> -1
               [] p[j] = q[j] /\ j > DomainLen -> -1
               [] OTHER -> f[j + 1]
  BY DEF Loop
<1>3. f[i] = Verdict(p, q, i)
  <2>1. CASE i > Len(p) \/ i > Len(q)
    BY <1>2, <2>1 DEF Verdict
  <2>2. CASE ~ (i > Len(p) \/ i > Len(q))
    <3>1. p[i] \in 1 .. 255 /\ q[i] \in 1 .. 255 /\ p[i] # q[i]
      BY <1>1, <2>2, NameFacts DEF Decided
    <3>2. /\ Signed(p[i]) \in Int /\ Signed(q[i]) \in Int
          /\ Signed(p[i]) > Signed(q[i]) \/ Signed(p[i]) < Signed(q[i])
      BY <3>1, SignedDiffers
    <3> QED
      BY <1>2, <2>2, <3>1, <3>2 DEF Verdict
  <2> QED
    BY <2>1, <2>2
<1>4. ASSUME NEW j \in 1 .. i - 1 PROVE f[j] = f[j + 1]
  <2>1. j <= Len(p) /\ j <= Len(q) /\ p[j] = q[j]
    BY <1>4 DEF Agree
  <2>2. p[j] \in 1 .. 255 /\ j \in Nat \ {0} /\ ~(j > DomainLen)
    BY <1>1, <2>1, NameFacts
  <2>3. Signed(p[j]) \in Int
    BY <2>2, SignedDiffers
  <2>4. ~(Signed(p[j]) > Signed(q[j])) /\ ~(Signed(p[j]) < Signed(q[j]))
    BY <2>1, <2>3
  <2>5. ~ (j > Len(p) \/ j > Len(q))
    BY <1>1, <2>1
  <2> QED
    BY <1>2, <2>2, <2>4, <2>5
<1> DEFINE Off == {d \in 0 .. i - 1 : f[i - d] # f[i]}
<1>5. Off = {}
  <2> SUFFICES ASSUME Off # {} PROVE FALSE
    OBVIOUS
  <2>1. PICK d \in Off : \A e \in Off : d <= e
    <3>1. Off \in SUBSET Nat
      OBVIOUS
    <3> HIDE DEF Off
    <3> QED
      BY <3>1, LeastNat
  <2>2. d # 0
    BY <2>1
  <2>3. d - 1 \notin Off /\ d - 1 \in 0 .. i - 1
    BY <2>1, <2>2
  <2>4. f[i - (d - 1)] = f[i]
    BY <2>3
  <2>5. f[i - d] = f[i - d + 1]
    BY <1>4, <2>1, <2>2
  <2>6. i - d + 1 = i - (d - 1)
    BY <2>1
  <2> QED
    BY <2>1, <2>4, <2>5, <2>6
<1>6. i - 1 \in 0 .. i - 1 /\ i - (i - 1) = 1
  OBVIOUS
<1> QED
  BY <1>3, <1>5, <1>6

(* What the hand-written comparison computes. *)
LEMMA StrcmpDecides ==
  ASSUME NEW p \in HostNames, NEW q \in HostNames,
         NEW i \in Nat \ {0}, Decided(p, q, i), Agree(p, q, i), i <= DomainLen + 1
  PROVE  Strcmp(p, q) = Verdict(p, q, i)
<1> DEFINE f == CHOOSE g : Loop(p, q, g)
<1>1. Loop(p, q, f)
  BY LoopHasResult
<1>2. f[1] = Verdict(p, q, i)
  <2> HIDE DEF f
  <2> QED
    BY <1>1, LoopStops
<1>3. Strcmp(p, q) = f[1]
  BY DEF Strcmp, Loop
<1> QED
  BY <1>2, <1>3

(* p comes after q: at the first octet that differs p's is greater, or q   *)
(* ends there and p does not.                                              *)
After(p, q) ==
  \E i \in 1 .. Len(p) :
    /\ Agree(p, q, i)
    /\ i <= Len(q) => Signed(p[i]) > Signed(q[i])

LEMMA StrcmpAfter ==
  ASSUME NEW p \in HostNames, NEW q \in HostNames
  PROVE  /\ Strcmp(p, q) \in {-1, 0, 1}
         /\ Strcmp(p, q) > 0 <=> After(p, q)
         /\ Strcmp(p, q) < 0 <=> After(q, p)
         /\ Strcmp(p, q) = 0 <=> p = q
<1>1. /\ Len(p) \in Nat /\ Len(q) \in Nat /\ p \in Seq(1 .. 255) /\ q \in Seq(1 .. 255)
      /\ \A i \in 1 .. Len(p) : p[i] \in 1 .. 255
      /\ \A i \in 1 .. Len(q) : q[i] \in 1 .. 255
  BY NameFacts DEF HostNames
<1>2. PICK i \in Nat \ {0} : Decided(p, q, i) /\ Agree(p, q, i) /\ i <= DomainLen + 1
  BY FirstDecided
<1>3. Strcmp(p, q) = Verdict(p, q, i)
  BY <1>2, StrcmpDecides
<1>4. /\ i - 1 <= Len(p) /\ i - 1 <= Len(q)
      /\ \A j \in 1 .. i - 1 : p[j] = q[j]
  <2>1. CASE i = 1
    BY <1>1, <2>1, <1>2 DEF Agree
  <2>2. CASE i # 1
    <3>1. i - 1 \in 1 .. i - 1
      BY <2>2
    <3> QED
      BY <1>2, <3>1 DEF Agree
  <2> QED
    BY <2>1, <2>2
<1>5. Agree(q, p, i)
  BY <1>2 DEF Agree
<1>6. ASSUME NEW k \in Nat \ {0}, Agree(p, q, k) \/ Agree(q, p, k) PROVE k <= i
  <2> SUFFICES ASSUME i < k PROVE FALSE
    OBVIOUS
  <2>1. i \in 1 .. k - 1
    OBVIOUS
  <2>2. i <= Len(p) /\ i <= Len(q) /\ p[i] = q[i]
    BY <1>6, <2>1 DEF Agree
  <2> QED
    BY <1>1, <1>2, <2>2 DEF Decided
<1>7. ASSUME NEW k \in Nat \ {0}, k <= Len(p), k <= Len(q), Signed(p[k]) # Signed(q[k]) PROVE ~ (k < i)
  <2>1. p[k] # q[k]
    BY <1>7
  <2> QED
    BY <1>4, <2>1
<1>8. CASE i > Len(p) /\ i > Len(q)
  <2>1. Len(p) = i - 1 /\ Len(q) = i - 1
    BY <1>1, <1>4, <1>8
  <2>2. p = q
    <3>1. \A j \in 1 .. Len(p) : p[j] = q[j]
      BY <1>4, <2>1
    <3> QED
      BY <1>1, <2>1, <3>1, SeqEqual
  <2>3. Strcmp(p, q) = 0
    BY <1>3, <1>8, <2>1 DEF Verdict
  <2>4. ~ After(p, p)
    <3>1. \A k \in 1 .. Len(p) : Signed(p[k]) \in Int
      BY <1>1, SignedDiffers
    <3> QED
      BY <1>1, <3>1 DEF After
  <2> QED
    BY <2>2, <2>3, <2>4
<1>9. CASE i > Len(p) /\ i <= Len(q)
  <2>1. Len(p) = i - 1 /\ Strcmp(p, q) = -1 /\ p # q
    BY <1>1, <1>3, <1>4, <1>9 DEF Verdict
  <2>2. After(q, p)
    BY <1>1, <1>5, <1>9 DEF After
  <2>3. ~ After(p, q)
    <3> SUFFICES ASSUME NEW k \in 1 .. Len(p), Agree(p, q, k), k <= Len(q) => Signed(p[k]) > Signed(q[k])
                 PROVE  FALSE
      BY DEF After
    <3>1. k < i /\ k <= Len(q) /\ p[k] = q[k]
      BY <1>1, <1>4, <1>9, <2>1
    <3>2. Signed(p[k]) \in Int
      BY <1>1, SignedDiffers
    <3> QED
      BY <3>1, <3>2
  <2> QED
    BY <2>1, <2>2, <2>3
<1>10. CASE i <= Len(p) /\ i > Len(q)
  <2>1. Len(q) = i - 1 /\ Strcmp(p, q) = 1 /\ p # q
    BY <1>1, <1>3, <1>4, <1>10 DEF Verdict
  <2>2. After(p, q)
    BY <1>1, <1>2, <1>10 DEF After
  <2>3. ~ After(q, p)
    <3> SUFFICES ASSUME NEW k \in 1 .. Len(q), Agree(q, p, k), k <= Len(p) => Signed(q[k]) > Signed(p[k])
                 PROVE  FALSE
      BY DEF After
    <3>1. k < i /\ k <= Len(p) /\ p[k] = q[k]
      BY <1>1, <1>4, <1>10, <2>1
    <3>2. Signed(q[k]) \in Int
      BY ZenonT(60), <1>1, SignedDiffers
    <3> QED
      BY <3>1, <3>2
  <2> QED
    BY <2>1, <2>2, <2>3
<1>11. CASE i <= Len(p) /\ i <= Len(q)
  <2>1. p[i] # q[i] /\ p[i] \in 1 .. 255 /\ q[i] \in 1 .. 255
    BY <1>1, <1>2, <1>11 DEF Decided
  <2>2. /\ Signed(p[i]) \in Int /\ Signed(q[i]) \in Int
        /\ Signed(p[i]) > Signed(q[i]) \/ Signed(p[i]) < Signed(q[i])
    BY <2>1, SignedDiffers
  <2>3. Strcmp(p, q) = IF Signed(p[i]) > Signed(q[i]) THEN 1 ELSE -1
    BY <1>1, <1>3, <1>11 DEF Verdict
  <2>4. ASSUME NEW k \in 1 .. Len(p), Agree(p, q, k), k <= Len(q) => Signed(p[k]) > Signed(q[k])
        PROVE  Signed(p[i]) > Signed(q[i])
    <3>1. k <= i /\ k <= Len(q)
      BY <1>1, <1>6, <1>11, <2>4
    <3>2. Signed(p[k]) \in Int /\ Signed(q[k]) \in Int
      <4>1. p[k] \in 1 .. 255 /\ q[k] \in 1 .. 255
        BY <1>1, <3>1
      <4> QED
        BY <4>1, SignedDiffers
    <3>3. k = i
      BY <1>7, <2>4, <3>1, <3>2
    <3> QED
      BY <2>4, <3>1, <3>3
  <2>5. ASSUME NEW k \in 1 .. Len(q), Agree(q, p, k), k <= Len(p) => Signed(q[k]) > Signed(p[k])
        PROVE  Signed(q[i]) > Signed(p[i])
    <3>1. k <= i /\ k <= Len(p)
      BY <1>1, <1>6, <1>11, <2>5
    <3>2. Signed(p[k]) \in Int /\ Signed(q[k]) \in Int
      <4>1. p[k] \in 1 .. 255 /\ q[k] \in 1 .. 255
        BY <1>1, <3>1
      <4> QED
        BY ZenonT(60), <4>1, SignedDiffers
    <3>3. k = i
      BY <1>7, <2>5, <3>1, <3>2
    <3> QED
      BY <2>5, <3>1, <3>3
  <2>6. After(p, q) => Signed(p[i]) > Signed(q[i])
    BY <2>4 DEF After
  <2>7. After(q, p) => Signed(q[i]) > Signed(p[i])
    BY <2>5 DEF After
  <2>8. Signed(p[i]) > Signed(q[i]) => After(p, q)
    BY <1>1, <1>2, <1>11 DEF After
  <2>9. Signed(q[i]) > Signed(p[i]) => After(q, p)
    BY <1>1, <1>5, <1>11 DEF After
  <2> QED
    BY <2>1, <2>2, <2>3, <2>6, <2>7, <2>8, <2>9
<1> QED
  BY <1>1, <1>8, <1>9, <1>10, <1>11

LEMMA AfterTransitive ==
  ASSUME NEW p \in HostNames, NEW q \in HostNames, NEW r \in HostNames, After(p, q), After(q, r)
  PROVE  After(p, r)
<1>1. /\ Len(p) \in Nat /\ Len(q) \in Nat /\ Len(r) \in Nat
      /\ \A i \in 1 .. Len(p) : p[i] \in 1 .. 255
      /\ \A i \in 1 .. Len(q) : q[i] \in 1 .. 255
      /\ \A i \in 1 .. Len(r) : r[i] \in 1 .. 255
  BY NameFacts
<1>2. PICK i \in 1 .. Len(p) : Agree(p, q, i) /\ (i <= Len(q) => Signed(p[i]) > Signed(q[i]))
  BY DEF After
<1>3. PICK j \in 1 .. Len(q) : Agree(q, r, j) /\ (j <= Len(r) => Signed(q[j]) > Signed(r[j]))
  BY DEF After
<1>4. CASE i < j
  <2>1. i \in 1 .. j - 1
    BY <1>1, <1>4
  <2>2. i <= Len(q) /\ i <= Len(r) /\ q[i] = r[i]
    BY <1>3, <2>1 DEF Agree
  <2>3. Agree(p, r, i)
    BY <1>1, <1>2, <1>3, <1>4 DEF Agree
  <2> QED
    BY <1>2, <2>2, <2>3 DEF After
<1>5. CASE i = j
  <2>1. Agree(p, r, i)
    BY <1>1, <1>2, <1>3, <1>5 DEF Agree
  <2>2. i <= Len(r) => Signed(p[i]) > Signed(r[i])
    <3>1. /\ i <= Len(p) /\ i <= Len(q)
          /\ p[i] \in 1 .. 255 /\ q[i] \in 1 .. 255 /\ (i <= Len(r) => r[i] \in 1 .. 255)
      BY <1>1, <1>2, <1>3, <1>5
    <3>2. Signed(p[i]) \in Int /\ Signed(q[i]) \in Int /\ (i <= Len(r) => Signed(r[i]) \in Int)
      BY ZenonT(60), <3>1, SignedDiffers
    <3> QED
      BY <1>2, <1>3, <1>5, <3>1, <3>2
  <2> QED
    BY <2>1, <2>2 DEF After
<1>6. CASE i > j
  <2>1. j \in 1 .. i - 1
    BY <1>1, <1>6
  <2>2. j <= Len(p) /\ p[j] = q[j]
    BY <1>2, <2>1 DEF Agree
  <2>3. Agree(p, r, j)
    BY <1>1, <1>2, <1>3, <1>6 DEF Agree
  <2>4. j \in 1 .. Len(p)
    BY <1>1, <2>2
  <2> QED
    BY <1>3, <2>2, <2>3, <2>4 DEF After
<1> QED
  BY <1>1, <1>4, <1>5, <1>6

(* The hand-written comparison is a total order on the names there can be: *)
(* signed chars, prefixes and the limit of 512 octets included, it tells   *)
(* any two names apart, swapping them turns its result, and it goes on     *)
(* from name to name (net_hashmap_core_module_inside_strcmp).              *)
THEOREM StrcmpOrders ==
  ASSUME NEW p \in HostNames, NEW q \in HostNames, NEW r \in HostNames
  PROVE  /\ Strcmp(p, q) \in {-1, 0, 1}
         /\ Strcmp(p, q) = 0 <=> p = q
         /\ Strcmp(p, q) > 0 <=> Strcmp(q, p) < 0
         /\ Strcmp(p, q) > 0 /\ Strcmp(q, r) > 0 => Strcmp(p, r) > 0
<1>1. /\ Strcmp(p, q) \in {-1, 0, 1} /\ (Strcmp(p, q) = 0 <=> p = q)
      /\ (Strcmp(p, q) > 0 <=> After(p, q)) /\ (Strcmp(q, p) < 0 <=> After(p, q))
      /\ (Strcmp(q, r) > 0 <=> After(q, r)) /\ (Strcmp(p, r) > 0 <=> After(p, r))
  BY StrcmpAfter
<1> QED
  BY <1>1, AfterTransitive

-----------------------------------------------------------------------------
(* The trees.  NetHashmap numbers the keys by their names: of two names the*)
(* one that strcmp finds greater has the greater number.                   *)
NamesInOrder ==
  /\ \A k \in Key : Host[k] \in HostNames
  /\ \A j, k \in Key : j > k => Strcmp(Host[j], Host[k]) > 0

(* Hence comparing two names is comparing their numbers. *)
LEMMA OrderOfKeys ==
  ASSUME NamesInOrder, NEW j \in Key, NEW k \in Key
  PROVE  (Order[j][k] > 0 <=> j > k) /\ (Order[j][k] = 0 <=> j = k)
<1>1. j \in Int /\ k \in Int /\ Host[j] \in HostNames /\ Host[k] \in HostNames
  BY KeyAssumption DEF NamesInOrder
<1>2. Order[j][k] = Strcmp(Host[j], Host[k]) /\ Order[k][j] = Strcmp(Host[k], Host[j])
  BY DEF Order
<1>3. /\ Order[j][k] \in {-1, 0, 1} /\ Order[k][j] \in {-1, 0, 1}
      /\ Order[j][k] = 0 <=> Host[j] = Host[k]
      /\ Order[k][j] > 0 <=> Order[j][k] < 0
  BY <1>1, <1>2, StrcmpOrders
<1>4. /\ j > k => Order[j][k] > 0
      /\ k > j => Order[k][j] > 0
      /\ j = k => Order[j][k] = 0
  BY <1>2, <1>3 DEF NamesInOrder
<1> QED
  BY <1>1, <1>3, <1>4

FixingAt(b) == \E t \in Inserters : pc[t] = "fix" /\ HomeOf(t) = b

TreeArray == tree = [b \in Bucket |-> tree[b]]

(* A tree under repair is red-black but for the node its inserter is at;   *)
(* every other tree is red-black, and a tree holds names of its bucket.    *)
TreesKept ==
  /\ TreeArray
  /\ \A t \in Inserters : pc[t] = "fix" => Fixing(tree[HomeOf(t)], cur[t])
  /\ \A b \in Bucket : ~ FixingAt(b) => Whole(tree[b])
  /\ \A b \in Bucket : \A k \in Stored(tree[b]) : HashOf[k] = b

(* On its way down a thread is at a node of its tree, above the name it    *)
(* looks for if the tree has it; an inserter has taken the right side of   *)
(* every node it has passed.                                               *)
WayOf(t, T) ==
  /\ cur[t] \in Stored(T) \cup {Nil}
  /\ NameOf(t) \in Stored(T) => NameOf(t) \in Below(T, cur[t])
  /\ t \in Inserters => OnTheWay(T, NameOf(t), up[t], cur[t])

WaysDown ==
  /\ \A t \in Threads : pc[t] = "descend" => WayOf(t, tree[HomeOf(t)])
  /\ \A t \in Threads : pc[t] \in {"idle", "lock"} => up[t] = Nil

RestTypes ==
  /\ addr \in [Key -> Addr \cup {NoAddr}]
  /\ arg \in [Threads -> (Key \X (Addr \cup {NoAddr})) \cup {NoEntry}]
  /\ cur \in [Threads -> Key \cup {Nil}] /\ up \in [Threads -> Key \cup {Nil}]
  /\ result \in [Threads -> Addr \cup {NoAddr}]
  /\ \A t \in Searchers : pc[t] # "fix"

MapInv == LockInv /\ TreesKept /\ WaysDown /\ RestTypes

LEMMA InitMapInv == Init => MapInv
<1> SUFFICES ASSUME Init PROVE MapInv
  OBVIOUS
<1>1. LockInv
  BY InitLockInv
<1>2. TreesKept
  <2>1. Whole(EmptyTree) /\ Stored(EmptyTree) = {}
    BY EmptyWhole
  <2>2. TreeArray /\ \A b \in Bucket : tree[b] = EmptyTree
    BY DEF Init, TreeArray
  <2>3. \A t \in Inserters : pc[t] # "fix"
    BY DEF Init, Threads
  <2> QED
    BY <2>1, <2>2, <2>3 DEF TreesKept
<1>3. WaysDown
  BY DEF Init, WaysDown
<1>4. RestTypes
  BY DEF Init, RestTypes, Threads, NoEntry
<1> QED
  BY <1>1, <1>2, <1>3, <1>4 DEF MapInv

(* Nobody else is in the tree of an inserter, and nobody mends the tree    *)
(* that a thread goes down in.                                             *)
LEMMA AloneInside ==
  ASSUME LockInv, NEW t \in Inserters, NEW u \in Threads, Inside(t), Inside(u), t # u
  PROVE  HomeOf(u) # HomeOf(t)
<1>1. SUFFICES ASSUME HomeOf(u) = HomeOf(t) PROVE FALSE
  OBVIOUS
<1>2. t \in Threads /\ HomeOf(t) \in Bucket
  BY HomeIsBucket DEF LockInv, Inside, Threads
<1>3. t \in writer[HomeOf(t)] \cup readers[HomeOf(t)] /\ u \in writer[HomeOf(t)] \cup readers[HomeOf(t)]
  BY <1>1, <1>2 DEF LockInv, HeldInside
<1>4. t \in writer[HomeOf(t)]
  BY <1>2, <1>3, HashmapAssumption DEF LockInv, LockTypes
<1> QED
  BY <1>2, <1>3, <1>4 DEF LockInv, WriterHoldsAlone

LEMMA DescendingWhole ==
  ASSUME MapInv, NEW t \in Threads, pc[t] = "descend"
  PROVE  /\ HomeOf(t) \in Bucket /\ NameOf(t) \in Key /\ ~ FixingAt(HomeOf(t))
         /\ Whole(tree[HomeOf(t)]) /\ WayOf(t, tree[HomeOf(t)])
<1>1. LockInv /\ Inside(t)
  BY DEF MapInv, Inside
<1>2. HomeOf(t) \in Bucket /\ NameOf(t) \in Key
  BY <1>1, HomeIsBucket DEF LockInv, LockTypes
<1>3. ~ FixingAt(HomeOf(t))
  <2> SUFFICES ASSUME NEW u \in Inserters, pc[u] = "fix", HomeOf(u) = HomeOf(t) PROVE FALSE
    BY DEF FixingAt
  <2>1. Inside(u) /\ u # t
    BY DEF Inside
  <2> QED
    BY <1>1, <2>1, AloneInside
<1> QED
  BY <1>2, <1>3 DEF MapInv, TreesKept, WaysDown

(* The comparison at a node on the way. *)
LEMMA TowardIsTowardKey ==
  ASSUME NamesInOrder, NEW t \in Threads, NameOf(t) \in Key, NEW n \in Key
  PROVE  Toward(t, n) = TowardKey(NameOf(t), n) /\ (Compare(t, n) = 0 <=> NameOf(t) = n)
BY OrderOfKeys DEF Toward, TowardKey, Compare

(* A step of t that touches no tree but that of its bucket b, and that one *)
(* only from inside as an inserter: it is enough to look at t and b.       *)
LEMMA OneBucketStep ==
  ASSUME LockInv, TreesKept, WaysDown, NEW t \in Threads, NEW b \in Bucket,
         TreeArray', \A c \in Bucket : c # b => tree'[c] = tree[c],
         tree'[b] = tree[b] \/ (t \in Inserters /\ Inside(t) /\ HomeOf(t) = b),
         \A u \in Threads : u # t => /\ pc'[u] = pc[u] /\ arg'[u] = arg[u]
                                     /\ cur'[u] = cur[u] /\ up'[u] = up[u],
         pc[t] = "fix" /\ t \in Inserters => HomeOf(t) = b,
         pc'[t] \in {"fix", "descend"} => HomeOf(t)' = b,
         pc'[t] = "fix" /\ t \in Inserters => Fixing(tree'[b], cur'[t]),
         pc'[t] = "descend" => WayOf(t, tree[b])',
         pc'[t] \in {"idle", "lock"} => up'[t] = Nil,
         (pc'[t] = "fix" /\ t \in Inserters) \/ FixingAt(b)' \/ Whole(tree'[b]),
         \A k \in Stored(tree'[b]) : HashOf[k] = b
  PROVE  TreesKept' /\ WaysDown'
<1>1. ASSUME NEW u \in Threads, u # t
      PROVE  /\ NameOf(u)' = NameOf(u) /\ HomeOf(u)' = HomeOf(u) /\ pc'[u] = pc[u]
             /\ cur'[u] = cur[u] /\ up'[u] = up[u]
  BY <1>1 DEF NameOf, HomeOf
<1>2. ASSUME NEW u \in Threads, u # t, Inside(u) PROVE HomeOf(u) \in Bucket /\ tree'[HomeOf(u)] = tree[HomeOf(u)]
  <2>1. HomeOf(u) \in Bucket
    BY <1>2, HomeIsBucket DEF LockInv, Inside
  <2>2. CASE HomeOf(u) # b
    BY <2>1, <2>2
  <2>3. CASE HomeOf(u) = b
    <3>1. ~ (t \in Inserters /\ Inside(t) /\ HomeOf(t) = b)
      BY <1>2, <2>3, AloneInside
    <3> QED
      BY <2>1, <2>3, <3>1
  <2> QED
    BY <2>2, <2>3
<1>3. ASSUME NEW u \in Inserters, pc'[u] = "fix" PROVE Fixing(tree'[HomeOf(u)'], cur'[u])
  <2>1. CASE u = t
    BY <1>3, <2>1
  <2>2. CASE u # t
    <3>1. u \in Threads /\ pc[u] = "fix" /\ Inside(u)
      BY <1>1, <1>3, <2>2 DEF Threads, Inside
    <3>2. Fixing(tree[HomeOf(u)], cur[u])
      BY <3>1 DEF TreesKept
    <3> QED
      BY <1>1, <1>2, <2>2, <3>1, <3>2
  <2> QED
    BY <2>1, <2>2
<1>4. ASSUME NEW c \in Bucket, ~ FixingAt(c)' PROVE Whole(tree'[c])
  <2>1. CASE c = b
    <3>1. ~ (pc'[t] = "fix" /\ t \in Inserters)
      BY <1>4, <2>1 DEF FixingAt
    <3> QED
      BY <1>4, <2>1, <3>1
  <2>2. CASE c # b
    <3>1. ~ FixingAt(c)
      <4> SUFFICES ASSUME NEW u \in Inserters, pc[u] = "fix", HomeOf(u) = c PROVE FALSE
        BY DEF FixingAt
      <4>1. u # t
        BY <2>2
      <4>2. pc'[u] = "fix" /\ HomeOf(u)' = c
        BY <1>1, <4>1 DEF Threads
      <4> QED
        BY <1>4, <4>2 DEF FixingAt
    <3> QED
      BY <2>2, <3>1 DEF TreesKept
  <2> QED
    BY <2>1, <2>2
<1>5. \A c \in Bucket : \A k \in Stored(tree'[c]) : HashOf[k] = c
  BY DEF TreesKept
<1>6. TreesKept'
  BY <1>3, <1>4, <1>5 DEF TreesKept
<1>7. ASSUME NEW u \in Threads, pc'[u] = "descend" PROVE WayOf(u, tree[HomeOf(u)])'
  <2>1. CASE u = t
    <3>1. HomeOf(t)' = b
      BY <1>7, <2>1
    <3> QED
      BY <1>7, <2>1, <3>1 DEF WayOf
  <2>2. CASE u # t
    <3>1. pc[u] = "descend" /\ Inside(u)
      BY <1>1, <1>7, <2>2 DEF Inside
    <3>2. WayOf(u, tree[HomeOf(u)])
      BY <3>1 DEF WaysDown
    <3>3. tree'[HomeOf(u)'] = tree[HomeOf(u)]
      BY <1>1, <1>2, <2>2, <3>1
    <3> QED
      BY <1>1, <2>2, <3>2, <3>3 DEF WayOf
  <2> QED
    BY <2>1, <2>2
<1>8. \A u \in Threads : pc'[u] \in {"idle", "lock"} => up'[u] = Nil
  BY DEF WaysDown
<1> QED
  BY <1>6, <1>7, <1>8 DEF WaysDown

(* The steps that leave the trees alone and go to a point where the trees  *)
(* are not looked at.                                                      *)
LEMMA QuietStep ==
  ASSUME LockInv, TreesKept, WaysDown, NEW t \in Threads, NEW b \in Bucket, UNCHANGED tree,
         \A u \in Threads : u # t => /\ pc'[u] = pc[u] /\ arg'[u] = arg[u]
                                     /\ cur'[u] = cur[u] /\ up'[u] = up[u],
         t \in Inserters => pc[t] # "fix",
         pc'[t] \notin {"fix", "descend"},
         pc'[t] \in {"idle", "lock"} => up'[t] = Nil
  PROVE  TreesKept' /\ WaysDown'
<1>1. TreeArray' /\ \A c \in Bucket : tree'[c] = tree[c]
  BY DEF TreesKept, TreeArray
<1>2. FixingAt(b)' \/ Whole(tree'[b])
  <2>1. CASE FixingAt(b)
    <3>1. PICK u \in Inserters : pc[u] = "fix" /\ HomeOf(u) = b
      BY <2>1 DEF FixingAt
    <3>2. u # t
      BY <3>1
    <3>3. pc'[u] = "fix" /\ HomeOf(u)' = b
      BY <3>1, <3>2 DEF HomeOf, NameOf, Threads
    <3> QED
      BY <3>3 DEF FixingAt
  <2>2. CASE ~ FixingAt(b)
    BY <1>1, <2>2 DEF TreesKept
  <2> QED
    BY <2>1, <2>2
<1>3. \A k \in Stored(tree'[b]) : HashOf[k] = b
  BY <1>1 DEF TreesKept
<1> QED
  BY <1>1, <1>2, <1>3, OneBucketStep

LEMMA CallMapInv ==
  ASSUME MapInv, NEW t \in Threads, NEW entry \in Key \X (Addr \cup {NoAddr}), Call(t, entry)
  PROVE  TreesKept' /\ WaysDown' /\ RestTypes'
<1>1. LockInv /\ TreesKept /\ WaysDown /\ RestTypes
  BY DEF MapInv
<1>2. DOMAIN pc = Threads /\ DOMAIN arg = Threads
  BY <1>1 DEF LockInv, LockTypes
<1>3. pc'[t] = "lock" /\ pc[t] = "idle" /\ up'[t] = Nil /\ UNCHANGED tree
  BY <1>1, <1>2 DEF Call, WaysDown
<1>4. \A u \in Threads : u # t => /\ pc'[u] = pc[u] /\ arg'[u] = arg[u]
                                  /\ cur'[u] = cur[u] /\ up'[u] = up[u]
  BY DEF Call
<1>5. HashOf[entry[1]] \in Bucket
  BY HashmapAssumption
<1>6. TreesKept' /\ WaysDown'
  BY <1>1, <1>3, <1>4, <1>5, QuietStep
<1>7. RestTypes'
  BY <1>1, <1>2 DEF RestTypes, Call, LockInv, LockTypes
<1> QED
  BY <1>6, <1>7

LEMMA LockMapInv ==
  ASSUME MapInv, NEW t \in Threads,
         (t \in Inserters /\ InsertLock(t)) \/ (t \in Searchers /\ SearchLock(t))
  PROVE  TreesKept' /\ WaysDown' /\ RestTypes'
<1>1. LockInv /\ TreesKept /\ WaysDown /\ RestTypes
  BY DEF MapInv
<1>2. DOMAIN pc = Threads /\ DOMAIN cur = Threads
  BY <1>1 DEF LockInv, LockTypes, RestTypes
<1>3. AtRoot(t) /\ writer[HomeOf(t)] = {}
  BY DEF InsertLock, SearchLock
<1>4. PICK b : b = HomeOf(t)
  OBVIOUS
<1>5. /\ pc[t] = "lock" /\ b \in Bucket /\ NameOf(t) \in Key /\ up[t] = Nil
      /\ UNCHANGED <<tree, addr, arg, up, result>>
      /\ pc' = [pc EXCEPT ![t] = "descend"] /\ cur' = [cur EXCEPT ![t] = tree[b].root]
  BY <1>1, <1>3, <1>4, HomeIsBucket DEF AtRoot, LockInv, LockTypes, WaysDown
<1>6. ~ FixingAt(b)
  <2> SUFFICES ASSUME NEW u \in Inserters, pc[u] = "fix", HomeOf(u) = b PROVE FALSE
    BY DEF FixingAt
  <2>1. u \in Threads /\ Inside(u)
    BY DEF Threads, Inside
  <2>2. u \in writer[b] \cup readers[b]
    BY <1>1, <1>5, <2>1 DEF LockInv, HeldInside
  <2>3. readers[b] \subseteq Searchers
    BY <1>1, <1>5 DEF LockInv, LockTypes
  <2> QED
    BY <1>3, <1>4, <2>2, <2>3, HashmapAssumption
<1>7. Whole(tree[b])
  BY <1>1, <1>5, <1>6 DEF TreesKept
<1>8. WayOf(t, tree[b])'
  <2>1. cur'[t] = tree[b].root /\ up'[t] = Nil /\ NameOf(t)' = NameOf(t) /\ tree'[b] = tree[b]
    BY <1>2, <1>5 DEF NameOf
  <2>2. /\ tree[b].root \in Stored(tree[b]) \cup {Nil}
        /\ Below(tree[b], tree[b].root) = Stored(tree[b])
    BY <1>7, WholeChildren
  <2> QED
    BY <2>1, <2>2 DEF WayOf, OnTheWay
<1>9. \A u \in Threads : u # t => /\ pc'[u] = pc[u] /\ arg'[u] = arg[u]
                                  /\ cur'[u] = cur[u] /\ up'[u] = up[u]
  BY <1>5
<1>10. pc'[t] = "descend" /\ HomeOf(t)' = b /\ pc[t] # "fix"
  BY <1>2, <1>4, <1>5 DEF HomeOf, NameOf
<1>11. TreeArray' /\ (\A c \in Bucket : tree'[c] = tree[c]) /\ Whole(tree'[b])
       /\ \A k \in Stored(tree'[b]) : HashOf[k] = b
  BY <1>1, <1>5, <1>7 DEF TreesKept, TreeArray
<1>12. TreesKept' /\ WaysDown'
  BY <1>1, <1>5, <1>8, <1>9, <1>10, <1>11, OneBucketStep
<1>13. RestTypes'
  <2>1. tree[b].root \in Key \cup {Nil}
    BY <1>7, WholeSearchTree, TreeFields DEF Nodes
  <2>2. cur' \in [Threads -> Key \cup {Nil}]
    BY <1>1, <1>5, <2>1 DEF RestTypes
  <2>3. \A u \in Searchers : pc'[u] # "fix"
    BY <1>1, <1>2, <1>5 DEF RestTypes
  <2> QED
    BY <1>1, <1>5, <2>2, <2>3 DEF RestTypes
<1> QED
  BY <1>12, <1>13
LEMMA DescendMapInv ==
  ASSUME NamesInOrder, MapInv, NEW t \in Threads,
         (t \in Inserters /\ InsertDescend(t)) \/ (t \in Searchers /\ SearchDescend(t))
  PROVE  TreesKept' /\ WaysDown' /\ RestTypes'
<1>1. LockInv /\ TreesKept /\ WaysDown /\ RestTypes
  BY DEF MapInv
<1>2. /\ pc[t] = "descend" /\ cur[t] # Nil /\ ~ AtName(t)
      /\ cur' = [cur EXCEPT ![t] = tree[HomeOf(t)].child[Toward(t, cur[t])][cur[t]]]
      /\ UNCHANGED <<tree, addr, locks, pc, arg, result>>
      /\ t \in Inserters => up' = [up EXCEPT ![t] = cur[t]]
      /\ t \notin Inserters => UNCHANGED up
  BY HashmapAssumption DEF InsertDescend, SearchDescend
<1>3. PICK b : b = HomeOf(t)
  OBVIOUS
<1>4. PICK T : T = tree[b]
  OBVIOUS
<1>5. PICK k : k = NameOf(t)
  OBVIOUS
<1>6. PICK c : c = cur[t]
  OBVIOUS
<1>7. b \in Bucket /\ k \in Key /\ ~ FixingAt(b) /\ Whole(T) /\ WayOf(t, T)
  BY <1>2, <1>3, <1>4, <1>5, DescendingWhole
<1>8. /\ c \in Stored(T) /\ c \in Key
      /\ k \in Stored(T) => k \in Below(T, c)
      /\ t \in Inserters => OnTheWay(T, k, up[t], c)
  <2>1. c \in Stored(T)
    BY <1>2, <1>6, <1>7 DEF WayOf
  <2>2. Stored(T) \in SUBSET Key
    BY <1>7, WholeSearchTree
  <2> QED
    BY <1>5, <1>6, <1>7, <2>1, <2>2 DEF WayOf
<1>9. k # c /\ Toward(t, c) = TowardKey(k, c)
  <2>1. Compare(t, c) # 0
    BY <1>2, <1>6 DEF AtName
  <2> QED
    BY <1>5, <1>7, <1>8, <2>1, TowardIsTowardKey
<1>10. PICK n : n = T.child[TowardKey(k, c)][c]
  OBVIOUS
<1>11. DOMAIN pc = Threads /\ DOMAIN cur = Threads /\ DOMAIN up = Threads
  BY <1>1 DEF LockInv, LockTypes, RestTypes
<1>12. /\ cur' = [cur EXCEPT ![t] = n] /\ cur'[t] = n /\ pc' = pc /\ arg' = arg /\ tree' = tree
       /\ t \in Inserters => up'[t] = c
       /\ \A u \in Threads : u # t => cur'[u] = cur[u] /\ up'[u] = up[u]
  <2>1. cur' = [cur EXCEPT ![t] = n]
    BY <1>2, <1>3, <1>4, <1>6, <1>9, <1>10
  <2> QED
    BY <1>2, <1>6, <1>11, <2>1
<1>13. n \in Stored(T) \cup {Nil} /\ TowardKey(k, c) \in Side
  BY <1>7, <1>8, <1>9, <1>10, WholeChildren, TowardKeySide
<1>14. k \in Stored(T) => k \in Below(T, n)
  BY <1>7, <1>8, <1>9, <1>10, BelowToward
<1>15. t \in Inserters => OnTheWay(T, k, c, n)
  BY <1>7, <1>8, <1>9, <1>10, WayDown
<1>16. HomeOf(t)' = b /\ NameOf(t)' = k /\ tree'[b] = T
  BY <1>3, <1>4, <1>5, <1>12 DEF HomeOf, NameOf
<1>17. WayOf(t, tree[b])'
  BY <1>12, <1>13, <1>14, <1>15, <1>16 DEF WayOf
<1>18. TreeArray' /\ (\A a \in Bucket : tree'[a] = tree[a]) /\ Whole(tree'[b])
       /\ \A j \in Stored(tree'[b]) : HashOf[j] = b
  BY <1>1, <1>4, <1>7, <1>12 DEF TreesKept, TreeArray
<1>19. pc'[t] = "descend" /\ pc[t] = "descend"
  BY <1>2, <1>12
<1>20. \A u \in Threads : u # t => /\ pc'[u] = pc[u] /\ arg'[u] = arg[u]
                                   /\ cur'[u] = cur[u] /\ up'[u] = up[u]
  BY <1>12
<1>21. TreesKept' /\ WaysDown'
  BY <1>1, <1>7, <1>16, <1>17, <1>18, <1>19, <1>20, OneBucketStep
<1>22. RestTypes'
  <2>1. n \in Key \cup {Nil} /\ c \in Key
    BY <1>7, <1>8, <1>13, WholeSearchTree
  <2>2. cur' \in [Threads -> Key \cup {Nil}]
    BY <1>1, <1>12, <2>1 DEF RestTypes
  <2>3. up' \in [Threads -> Key \cup {Nil}]
    BY <1>1, <1>2, <1>6, <2>1 DEF RestTypes
  <2> QED
    BY <1>1, <1>2, <2>2, <2>3 DEF RestTypes
<1> QED
  BY <1>21, <1>22

LEMMA FoundMapInv ==
  ASSUME MapInv, NEW t \in Threads,
         (t \in Inserters /\ InsertPresent(t)) \/ (t \in Searchers /\ SearchEnd(t))
  PROVE  TreesKept' /\ WaysDown' /\ RestTypes'
<1>1. LockInv /\ TreesKept /\ WaysDown /\ RestTypes
  BY DEF MapInv
<1>2. /\ pc[t] = "descend" /\ pc' = [pc EXCEPT ![t] = "unlock"]
      /\ UNCHANGED <<tree, addr, locks, arg, cur, up>>
  BY DEF InsertPresent, SearchEnd
<1>3. DOMAIN pc = Threads /\ HomeOf(t) \in Bucket
  BY <1>1, <1>2, HomeIsBucket DEF LockInv, LockTypes
<1>4. pc'[t] = "unlock" /\ \A u \in Threads : u # t => pc'[u] = pc[u]
  BY <1>2, <1>3
<1>5. TreesKept' /\ WaysDown'
  BY <1>1, <1>2, <1>3, <1>4, QuietStep
<1>6. result' \in [Threads -> Addr \cup {NoAddr}]
  <2>1. CASE InsertPresent(t)
    BY <1>1, <2>1 DEF InsertPresent, RestTypes
  <2>2. CASE SearchEnd(t)
    BY <1>1, <2>2 DEF SearchEnd, RestTypes
  <2> QED
    BY <2>1, <2>2
<1>7. \A u \in Searchers : pc'[u] # "fix"
  BY <1>1, <1>4 DEF RestTypes, Threads
<1> QED
  BY <1>1, <1>2, <1>5, <1>6, <1>7 DEF RestTypes

LEMMA ReturnMapInv ==
  ASSUME MapInv, NEW t \in Threads, Return(t)
  PROVE  TreesKept' /\ WaysDown' /\ RestTypes'
<1>1. LockInv /\ TreesKept /\ WaysDown /\ RestTypes
  BY DEF MapInv
<1>2. pc[t] = "unlock"
  BY DEF Return
<1>3. HomeOf(t) \in Bucket /\ DOMAIN pc = Threads /\ DOMAIN up = Threads
  BY <1>1, <1>2, HomeIsBucket DEF LockInv, LockTypes, RestTypes
<1>4. pc'[t] = "idle" /\ up'[t] = Nil /\ UNCHANGED <<tree, addr>>
  BY <1>3 DEF Return
<1>5. \A u \in Threads : u # t => /\ pc'[u] = pc[u] /\ arg'[u] = arg[u]
                                  /\ cur'[u] = cur[u] /\ up'[u] = up[u]
  BY DEF Return
<1>6. TreesKept' /\ WaysDown'
  BY <1>1, <1>2, <1>3, <1>4, <1>5, QuietStep
<1>7. RestTypes'
  <2>1. /\ arg' = [arg EXCEPT ![t] = NoEntry] /\ cur' = [cur EXCEPT ![t] = Nil]
        /\ up' = [up EXCEPT ![t] = Nil] /\ result' = [result EXCEPT ![t] = NoAddr]
    BY DEF Return
  <2>2. \A u \in Searchers : pc'[u] # "fix"
    BY <1>1, <1>4, <1>5 DEF RestTypes, Threads
  <2> QED
    BY <1>1, <1>4, <2>1, <2>2 DEF RestTypes
<1> QED
  BY <1>6, <1>7

(* The name is not in the tree, and the way has come to its place.         *)
LEMMA LinkPlace ==
  ASSUME NamesInOrder, MapInv, NEW t \in Inserters, pc[t] = "descend", cur[t] = Nil,
         NEW b, b = HomeOf(t), NEW k, k = NameOf(t),
         NEW r, r = Link(tree[b], k, up[t], IF up[t] = Nil THEN "right" ELSE Toward(t, up[t]))
  PROVE  /\ b \in Bucket /\ k \in Key /\ HashOf[k] = b /\ ~ FixingAt(b) /\ Whole(tree[b])
         /\ k \notin Stored(tree[b])
         /\ Fixing(r, k) /\ Stored(r) = Stored(tree[b]) \cup {k}
<1>1. PICK T : T = tree[b]
  OBVIOUS
<1>0. t \in Threads
  BY DEF Threads
<1>2. b \in Bucket /\ k \in Key /\ ~ FixingAt(b) /\ Whole(T) /\ WayOf(t, T)
  BY <1>0, <1>1, DescendingWhole
<1>3. k \notin Stored(T) /\ OnTheWay(T, k, up[t], Nil)
  <2>1. Below(T, Nil) = {}
    BY <1>2, WholeChildren
  <2> QED
    BY <1>2, <2>1 DEF WayOf
<1>4. PICK s : s = IF up[t] = Nil THEN "right" ELSE TowardKey(k, up[t])
  OBVIOUS
<1>5. r = Link(T, k, up[t], s)
  <2>1. CASE up[t] = Nil
    BY <1>1, <1>4, <2>1
  <2>2. CASE up[t] # Nil
    <3>1. up[t] \in Key
      BY <1>2, <1>3, <2>2, WholeSearchTree DEF OnTheWay
    <3>2. Toward(t, up[t]) = TowardKey(k, up[t])
      BY <1>0, <1>2, <3>1, TowardIsTowardKey
    <3> QED
      BY <1>1, <1>4, <2>2, <3>2
  <2> QED
    BY <2>1, <2>2
<1>6. Fixing(r, k) /\ Stored(r) = Stored(T) \cup {k}
  <2>1. PICK p : p = up[t]
    OBVIOUS
  <2>2. s = IF p = Nil THEN "right" ELSE TowardKey(k, p)
    BY <1>4, <2>1
  <2>3. /\ Fixing(Link(T, k, p, s), k)
        /\ Stored(Link(T, k, p, s)) = Stored(T) \cup {k}
    BY ONLY <1>2, <1>3, <2>1, <2>2, LinkWhole
  <2> QED
    BY <1>5, <2>1, <2>3
<1>7. HashOf[k] = b
  BY DEF HomeOf
<1> QED
  BY <1>1, <1>2, <1>3, <1>6, <1>7
LEMMA LinkMapInv ==
  ASSUME NamesInOrder, MapInv, NEW t \in Inserters, InsertLink(t)
  PROVE  /\ TreesKept' /\ WaysDown' /\ RestTypes'
<1>1. LockInv /\ TreesKept /\ WaysDown /\ RestTypes /\ t \in Threads
  BY DEF MapInv, Threads
<1>2. PICK b : b = HomeOf(t)
  OBVIOUS
<1>3. PICK k : k = NameOf(t)
  OBVIOUS
<1>4. PICK r : r = Link(tree[b], k, up[t], IF up[t] = Nil THEN "right" ELSE Toward(t, up[t]))
  OBVIOUS
<1>5. /\ pc[t] = "descend" /\ cur[t] = Nil
      /\ tree' = [tree EXCEPT ![b] = r]
      /\ addr' = [addr EXCEPT ![k] = arg[t][2]]
      /\ cur' = [cur EXCEPT ![t] = k]
      /\ pc' = [pc EXCEPT ![t] = "fix"]
      /\ UNCHANGED <<locks, arg, up, result>>
  BY <1>2, <1>3, <1>4 DEF InsertLink
<1>6. /\ b \in Bucket /\ k \in Key /\ HashOf[k] = b /\ ~ FixingAt(b) /\ Whole(tree[b])
      /\ k \notin Stored(tree[b])
      /\ Fixing(r, k) /\ Stored(r) = Stored(tree[b]) \cup {k}
  BY <1>2, <1>3, <1>4, <1>5, LinkPlace
<1>7. DOMAIN pc = Threads /\ DOMAIN cur = Threads /\ DOMAIN tree = Bucket /\ TreeArray
  BY <1>1 DEF LockInv, LockTypes, RestTypes, TreesKept, TreeArray
<1>8. /\ TreeArray' /\ (\A c \in Bucket : c # b => tree'[c] = tree[c]) /\ tree'[b] = r
      /\ Inside(t) /\ pc'[t] = "fix" /\ cur'[t] = k /\ HomeOf(t)' = b
  <2>1. TreeArray' /\ (\A c \in Bucket : c # b => tree'[c] = tree[c]) /\ tree'[b] = r
    BY <1>5, <1>6, <1>7 DEF TreeArray
  <2>2. HomeOf(t)' = HomeOf(t)
    BY <1>5 DEF HomeOf, NameOf
  <2> QED
    BY <1>1, <1>2, <1>5, <1>7, <2>1, <2>2 DEF Inside
<1>9. \A u \in Threads : u # t => /\ pc'[u] = pc[u] /\ arg'[u] = arg[u]
                                  /\ cur'[u] = cur[u] /\ up'[u] = up[u]
  BY <1>5
<1>10. \A j \in Stored(tree'[b]) : HashOf[j] = b
  BY <1>1, <1>6, <1>8 DEF TreesKept
<1>11. TreesKept' /\ WaysDown'
  BY <1>1, <1>2, <1>5, <1>6, <1>8, <1>9, <1>10, OneBucketStep
<1>12. RestTypes'
  <2>1. arg[t][2] \in Addr \cup {NoAddr}
    BY <1>1, <1>3, <1>6, KeyAssumption DEF RestTypes, NoEntry, NameOf
  <2>2. addr' \in [Key -> Addr \cup {NoAddr}]
    BY <1>1, <1>5, <2>1 DEF RestTypes
  <2>3. cur' \in [Threads -> Key \cup {Nil}]
    BY <1>1, <1>5, <1>6 DEF RestTypes
  <2>4. \A u \in Searchers : pc'[u] # "fix"
    BY <1>1, <1>5, HashmapAssumption DEF RestTypes
  <2> QED
    BY <1>1, <1>5, <2>2, <2>3, <2>4 DEF RestTypes
<1> QED
  BY <1>11, <1>12

(* The tree that an inserter mends. *)
LEMMA FixingHere ==
  ASSUME MapInv, NEW t \in Inserters, pc[t] = "fix"
  PROVE  /\ t \in Threads /\ HomeOf(t) \in Bucket /\ Inside(t)
         /\ Fixing(tree[HomeOf(t)], cur[t])
         /\ \A u \in Inserters : pc[u] = "fix" /\ u # t => HomeOf(u) # HomeOf(t)
<1>1. t \in Threads /\ Inside(t) /\ LockInv /\ TreesKept
  BY DEF Threads, Inside, MapInv
<1>2. HomeOf(t) \in Bucket
  BY <1>1, HomeIsBucket DEF LockInv
<1>3. ASSUME NEW u \in Inserters, pc[u] = "fix", u # t PROVE HomeOf(u) # HomeOf(t)
  <2>1. u \in Threads /\ Inside(u)
    BY <1>3 DEF Threads, Inside
  <2> QED
    BY <1>1, <1>3, <2>1, AloneInside
<1> QED
  BY <1>1, <1>2, <1>3 DEF TreesKept

LEMMA FixMapInv ==
  ASSUME MapInv, NEW t \in Inserters, InsertFix(t)
  PROVE  /\ TreesKept' /\ WaysDown' /\ RestTypes'
         /\ \A b \in Bucket : Stored(tree'[b]) = Stored(tree[b])
<1>1. LockInv /\ TreesKept /\ WaysDown /\ RestTypes
  BY DEF MapInv
<1>2. PICK b : b = HomeOf(t)
  OBVIOUS
<1>3. PICK r : r = FixTurn(tree[b], cur[t])
  OBVIOUS
<1>4. /\ pc[t] = "fix" /\ RedUnderRed(tree[b], cur[t])
      /\ tree' = [tree EXCEPT ![b] = r.tree] /\ cur' = [cur EXCEPT ![t] = r.node]
      /\ UNCHANGED <<addr, locks, pc, arg, up, result>>
  BY <1>2, <1>3 DEF InsertFix
<1>5. t \in Threads /\ b \in Bucket /\ Inside(t) /\ Fixing(tree[b], cur[t])
  BY <1>2, <1>4, FixingHere
<1>6. Fixing(r.tree, r.node) /\ Stored(r.tree) = Stored(tree[b])
  BY <1>3, <1>4, <1>5, FixTurnWhole
<1>7. DOMAIN pc = Threads /\ DOMAIN cur = Threads /\ DOMAIN tree = Bucket /\ TreeArray
  BY <1>1 DEF LockInv, LockTypes, RestTypes, TreesKept, TreeArray
<1>8. /\ TreeArray' /\ (\A c \in Bucket : c # b => tree'[c] = tree[c]) /\ tree'[b] = r.tree
      /\ pc'[t] = "fix" /\ cur'[t] = r.node /\ HomeOf(t)' = b
  BY <1>2, <1>4, <1>5, <1>7 DEF HomeOf, NameOf, TreeArray
<1>9. \A u \in Threads : u # t => /\ pc'[u] = pc[u] /\ arg'[u] = arg[u]
                                  /\ cur'[u] = cur[u] /\ up'[u] = up[u]
  BY <1>4
<1>10. \A j \in Stored(tree'[b]) : HashOf[j] = b
  BY <1>1, <1>5, <1>6, <1>8 DEF TreesKept
<1>11. TreesKept' /\ WaysDown'
  BY <1>1, <1>2, <1>4, <1>5, <1>6, <1>8, <1>9, <1>10, OneBucketStep
<1>12. RestTypes'
  <2>1. r.node \in Key
    <3>1. Stored(r.tree) \in SUBSET Key /\ Stored(r.tree) = Subtrees(r.tree)[r.tree.root]
      BY <1>6, WholeSearchTree
    <3> QED
      BY <1>6, <3>1 DEF Fixing, AlmostRedBlack
  <2>2. cur' \in [Threads -> Key \cup {Nil}]
    BY <1>1, <1>4, <2>1 DEF RestTypes
  <2> QED
    BY <1>1, <1>4, <2>2 DEF RestTypes
<1>13. \A c \in Bucket : Stored(tree'[c]) = Stored(tree[c])
  BY <1>6, <1>8
<1> QED
  BY <1>11, <1>12, <1>13

LEMMA FixedMapInv ==
  ASSUME MapInv, NEW t \in Inserters, InsertFixed(t)
  PROVE  /\ TreesKept' /\ WaysDown' /\ RestTypes'
         /\ \A b \in Bucket : Stored(tree'[b]) = Stored(tree[b])
<1>1. LockInv /\ TreesKept /\ WaysDown /\ RestTypes
  BY DEF MapInv
<1>2. PICK b : b = HomeOf(t)
  OBVIOUS
<1>3. PICK r : r = BlackRoot(tree[b])
  OBVIOUS
<1>4. /\ pc[t] = "fix" /\ ~ RedUnderRed(tree[b], cur[t])
      /\ tree' = [tree EXCEPT ![b] = r] /\ pc' = [pc EXCEPT ![t] = "unlock"]
      /\ UNCHANGED <<addr, locks, arg, cur, up, result>>
  BY <1>2, <1>3 DEF InsertFixed
<1>5. t \in Threads /\ b \in Bucket /\ Inside(t) /\ Fixing(tree[b], cur[t])
  BY <1>2, <1>4, FixingHere
<1>6. Whole(r) /\ Stored(r) = Stored(tree[b])
  BY <1>3, <1>4, <1>5, BlackRootWhole
<1>7. DOMAIN pc = Threads /\ DOMAIN tree = Bucket /\ TreeArray
  BY <1>1 DEF LockInv, LockTypes, TreesKept, TreeArray
<1>8. /\ TreeArray' /\ (\A c \in Bucket : c # b => tree'[c] = tree[c]) /\ tree'[b] = r
      /\ pc'[t] = "unlock"
  BY <1>4, <1>5, <1>7 DEF TreeArray
<1>9. \A u \in Threads : u # t => /\ pc'[u] = pc[u] /\ arg'[u] = arg[u]
                                  /\ cur'[u] = cur[u] /\ up'[u] = up[u]
  BY <1>4
<1>10. \A j \in Stored(tree'[b]) : HashOf[j] = b
  BY <1>1, <1>5, <1>6, <1>8 DEF TreesKept
<1>11. TreesKept' /\ WaysDown'
  BY <1>1, <1>2, <1>4, <1>5, <1>6, <1>8, <1>9, <1>10, OneBucketStep
<1>12. RestTypes'
  <2>1. \A u \in Searchers : pc'[u] # "fix"
    BY <1>1, <1>4 DEF RestTypes
  <2> QED
    BY <1>1, <1>4, <2>1 DEF RestTypes
<1>13. \A c \in Bucket : Stored(tree'[c]) = Stored(tree[c])
  BY <1>6, <1>8
<1> QED
  BY <1>11, <1>12, <1>13

LEMMA NextMapInv ==
  ASSUME NamesInOrder, MapInv, [Next]_vars
  PROVE  MapInv'
<1>1. LockInv'
  BY NextLockInv DEF MapInv
<1>2. CASE \E t \in Inserters : Insert(t)
  <2>1. PICK t \in Inserters : Insert(t)
    BY <1>2
  <2>2. t \in Threads
    BY DEF Threads
  <2>3. ASSUME NEW entry \in Entries, Call(t, entry) PROVE TreesKept' /\ WaysDown' /\ RestTypes'
    <3>1. entry \in Key \X (Addr \cup {NoAddr})
      BY HashmapAssumption
    <3> QED
      BY <2>2, <2>3, <3>1, CallMapInv
  <2>4. CASE InsertLock(t)
    BY <1>1, <2>2, <2>4, LockMapInv DEF MapInv
  <2>5. CASE InsertDescend(t)
    BY <1>1, <2>2, <2>5, DescendMapInv DEF MapInv
  <2>6. CASE InsertPresent(t)
    BY <1>1, <2>2, <2>6, FoundMapInv DEF MapInv
  <2>7. CASE InsertLink(t)
    BY <1>1, <2>7, LinkMapInv DEF MapInv
  <2>8. CASE InsertFix(t)
    BY <1>1, <2>8, FixMapInv DEF MapInv
  <2>9. CASE InsertFixed(t)
    BY <1>1, <2>9, FixedMapInv DEF MapInv
  <2>10. CASE InsertReturn(t)
    BY <1>1, <2>2, <2>10, ReturnMapInv DEF MapInv, InsertReturn
  <2> QED
    BY <1>1, <2>1, <2>3, <2>4, <2>5, <2>6, <2>7, <2>8, <2>9, <2>10 DEF Insert, MapInv
<1>3. CASE \E t \in Searchers : Search(t)
  <2>1. PICK t \in Searchers : Search(t)
    BY <1>3
  <2>2. t \in Threads
    BY DEF Threads
  <2>3. ASSUME NEW k \in Queries, Call(t, <<k, NoAddr>>) PROVE TreesKept' /\ WaysDown' /\ RestTypes'
    <3>1. <<k, NoAddr>> \in Key \X (Addr \cup {NoAddr})
      BY HashmapAssumption
    <3> QED
      BY <2>2, <2>3, <3>1, CallMapInv
  <2>4. CASE SearchLock(t)
    BY <1>1, <2>2, <2>4, LockMapInv DEF MapInv
  <2>5. CASE SearchDescend(t)
    BY <1>1, <2>2, <2>5, DescendMapInv DEF MapInv
  <2>6. CASE SearchEnd(t)
    BY <1>1, <2>2, <2>6, FoundMapInv DEF MapInv
  <2>7. CASE SearchReturn(t)
    BY <1>1, <2>2, <2>7, ReturnMapInv DEF MapInv, SearchReturn
  <2> QED
    BY <1>1, <2>1, <2>3, <2>4, <2>5, <2>6, <2>7 DEF Search, MapInv
<1>4. CASE UNCHANGED vars
  <2>1. TreesKept' /\ WaysDown'
    BY <1>4 DEF vars, locks, locals, MapInv, TreesKept, TreeArray, FixingAt, WaysDown, WayOf, HomeOf, NameOf
  <2>2. RestTypes'
    BY <1>4 DEF vars, locals, MapInv, RestTypes
  <2> QED
    BY <1>1, <2>1, <2>2 DEF MapInv
<1> QED
  BY <1>2, <1>3, <1>4 DEF Next

LEMMA MapInvTypes ==
  ASSUME MapInv
  PROVE  TypeOK
<1>1. LockTypes /\ TreesKept /\ RestTypes /\ LockInv
  BY DEF MapInv, LockInv
<1>2. tree \in [Bucket -> Tree]
  <2>1. ASSUME NEW b \in Bucket PROVE tree[b] \in Tree
    <3>1. CASE FixingAt(b)
      <4>1. PICK t \in Inserters : pc[t] = "fix" /\ HomeOf(t) = b
        BY <3>1 DEF FixingAt
      <4>2. Fixing(tree[b], cur[t])
        BY <1>1, <4>1 DEF TreesKept
      <4> QED
        BY <4>2, WholeSearchTree
    <3>2. CASE ~ FixingAt(b)
      BY <1>1, <3>2, WholeSearchTree DEF TreesKept
    <3> QED
      BY <3>1, <3>2
  <2> QED
    BY <1>1, <2>1 DEF TreesKept, TreeArray
<1> QED
  BY <1>1, <1>2 DEF TypeOK, LockTypes, RestTypes, Threads

(* All variables keep values of their types, and above all every tree stays*)
(* a tree: no pointer of a rotation is taken from a missing node, for any  *)
(* threads, buckets, names and addresses.                                  *)
THEOREM HashmapTypeOK ==
  ASSUME NamesInOrder
  PROVE  Spec => []TypeOK
<1>1. Init => MapInv
  BY InitMapInv
<1>2. MapInv /\ [Next]_vars => MapInv'
  BY NextMapInv
<1>3. MapInv => TypeOK
  BY MapInvTypes
<1> QED
  BY <1>1, <1>2, <1>3, PTL DEF Spec

(* Whenever no insert is at work on it, a bucket's tree is a red-black     *)
(* tree, whatever the names and the order in which they came: insertion and*)
(* rb_insert_color, net_hashmap_rbtree.c:62.                               *)
THEOREM HashmapTreesSound ==
  ASSUME NamesInOrder
  PROVE  Spec => []TreesSound
<1>1. Init => MapInv
  BY InitMapInv
<1>2. MapInv /\ [Next]_vars => MapInv'
  BY NextMapInv
<1>3. MapInv => TreesSound
  <2> SUFFICES ASSUME MapInv, NEW b \in Bucket, writer[b] = {} PROVE RedBlack(tree[b])
    BY DEF TreesSound
  <2>1. ~ FixingAt(b)
    <3> SUFFICES ASSUME NEW t \in Inserters, pc[t] = "fix", HomeOf(t) = b PROVE FALSE
      BY DEF FixingAt
    <3>1. t \in Threads /\ Inside(t)
      BY DEF Threads, Inside
    <3>2. t \in writer[b] \cup readers[b]
      BY <3>1 DEF MapInv, LockInv, HeldInside
    <3>3. readers[b] \subseteq Searchers
      BY DEF MapInv, LockInv, LockTypes
    <3> QED
      BY <3>2, <3>3, HashmapAssumption
  <2> QED
    BY <2>1, WholeSound DEF MapInv, TreesKept
<1> QED
  BY <1>1, <1>2, <1>3, PTL DEF Spec

-----------------------------------------------------------------------------
(* The hash map is an address book *)

MapBook == [k \in Names |-> addr[k]]
MapCall == [t \in Threads |-> CallOf(t)]

LEMMA MapVars == Book!vars = <<MapBook, MapCall>>
BY DEF Book!vars, MapBook, MapCall

(* The call that a thread has made, in terms of where it is. *)
LEMMA CallOfIs ==
  ASSUME NEW t \in Threads
  PROVE  /\ pc[t] = "idle" => CallOf(t) = [op |-> "none"]
         /\ t \in Inserters /\ pc[t] \in {"lock", "descend"} =>
              CallOf(t) = [op |-> "insert", key |-> NameOf(t), addr |-> arg[t][2]]
         /\ t \in Searchers /\ pc[t] \in {"lock", "descend"} =>
              CallOf(t) = [op |-> "search", key |-> NameOf(t)]
         /\ t \in Inserters /\ pc[t] \in {"fix", "unlock"} => CallOf(t) = [op |-> "inserted"]
         /\ t \in Searchers /\ pc[t] \in {"fix", "unlock"} =>
              CallOf(t) = [op |-> "found", addr |-> result[t]]
<1>1. t \in Inserters => t \notin Searchers
  BY HashmapAssumption
<1>2. CASE pc[t] = "idle"
  <2>1. CallOf(t) = [op |-> "none"]
    BY ONLY <1>2 DEF CallOf, Done, Called
  <2> QED
    BY <1>2, <2>1
<1>3. CASE pc[t] \in {"lock", "descend"} /\ t \in Inserters
  BY <1>1, <1>3 DEF CallOf, Done, Called
<1>4. CASE pc[t] \in {"lock", "descend"} /\ t \in Searchers
  <2>1. pc[t] # "idle" /\ ~ Done(t) /\ t \notin Inserters
    BY <1>1, <1>4 DEF Done, Called
  <2>2. CallOf(t) = [op |-> "search", key |-> NameOf(t)]
    BY ONLY <2>1 DEF CallOf
  <2> QED
    BY <1>1, <1>4, <2>2
<1>5. CASE pc[t] \in {"fix", "unlock"} /\ t \in Inserters
  BY <1>1, <1>5 DEF CallOf, Done, Called
<1>6. CASE pc[t] \in {"fix", "unlock"} /\ t \in Searchers
  BY <1>1, <1>6 DEF CallOf, Done, Called
<1> QED
  BY <1>1, <1>2, <1>3, <1>4, <1>5, <1>6

LEMMA CallOfIsAll ==
  \A t \in Threads :
    /\ pc[t] = "idle" => CallOf(t) = [op |-> "none"]
    /\ t \in Inserters /\ pc[t] \in {"lock", "descend"} =>
         CallOf(t) = [op |-> "insert", key |-> NameOf(t), addr |-> arg[t][2]]
    /\ t \in Searchers /\ pc[t] \in {"lock", "descend"} =>
         CallOf(t) = [op |-> "search", key |-> NameOf(t)]
    /\ t \in Inserters /\ pc[t] \in {"fix", "unlock"} => CallOf(t) = [op |-> "inserted"]
    /\ t \in Searchers /\ pc[t] \in {"fix", "unlock"} =>
         CallOf(t) = [op |-> "found", addr |-> result[t]]
BY CallOfIs

LEMMA CallOfIsNext ==
  (\A t \in Threads :
    /\ pc[t] = "idle" => CallOf(t) = [op |-> "none"]
    /\ t \in Inserters /\ pc[t] \in {"lock", "descend"} =>
         CallOf(t) = [op |-> "insert", key |-> NameOf(t), addr |-> arg[t][2]]
    /\ t \in Searchers /\ pc[t] \in {"lock", "descend"} =>
         CallOf(t) = [op |-> "search", key |-> NameOf(t)]
    /\ t \in Inserters /\ pc[t] \in {"fix", "unlock"} => CallOf(t) = [op |-> "inserted"]
    /\ t \in Searchers /\ pc[t] \in {"fix", "unlock"} =>
         CallOf(t) = [op |-> "found", addr |-> result[t]])'
BY CallOfIsAll, PTL

LEMMA SameCall ==
  ASSUME NEW u, pc'[u] = pc[u], arg'[u] = arg[u], result'[u] = result[u]
  PROVE  CallOf(u)' = CallOf(u)
BY DEF CallOf, Done, Called, NameOf

(* Only t's call moves on. *)
LEMMA OneCall ==
  ASSUME NEW t \in Threads, NEW v, CallOf(t)' = v,
         \A u \in Threads : u # t => CallOf(u)' = CallOf(u)
  PROVE  MapCall' = [MapCall EXCEPT ![t] = v]
BY DEF MapCall

LEMMA SameBook ==
  ASSUME \A b \in Bucket : Stored(tree'[b]) = Stored(tree[b]), UNCHANGED addr
  PROVE  MapBook' = MapBook
<1>1. Names' = Names
  BY DEF Names
<1> QED
  BY <1>1 DEF MapBook
LEMMA BookInit == Init => Book!Init
<1> SUFFICES ASSUME Init PROVE Book!Init
  OBVIOUS
<1>1. Names = {}
  BY EmptyWhole DEF Init, Names
<1>2. MapBook = << >>
  BY <1>1 DEF MapBook
<1>3. ASSUME NEW t \in Threads PROVE CallOf(t) = [op |-> "none"]
  <2>1. pc[t] = "idle"
    BY DEF Init
  <2> QED
    BY <2>1, CallOfIs
<1> QED
  BY <1>2, <1>3 DEF Book!Init, Book!Idle, MapBook

LEMMA MapCallAt == \A t \in Threads : MapCall[t] = CallOf(t)
BY DEF MapCall

(* The steps that the book does not see. *)
LEMMA HiddenStep ==
  ASSUME NEW t \in Threads, CallOf(t)' = CallOf(t),
         \A u \in Threads : u # t => pc'[u] = pc[u] /\ arg'[u] = arg[u] /\ result'[u] = result[u],
         \A b \in Bucket : Stored(tree'[b]) = Stored(tree[b]), UNCHANGED addr
  PROVE  UNCHANGED <<MapBook, MapCall>>
<1>1. ASSUME NEW u \in Threads PROVE CallOf(u)' = CallOf(u)
  BY SameCall
<1> QED
  BY <1>1, SameBook DEF MapCall

LEMMA CallInvokes ==
  ASSUME MapInv, NEW t \in Threads, NEW entry \in Key \X (Addr \cup {NoAddr}), Call(t, entry),
         t \in Searchers => entry[2] = NoAddr
  PROVE  \E request \in Book!Request : Book!Invoke(t, request)
<1>1. PICK request : request = IF t \in Inserters
                               THEN [op |-> "insert", key |-> entry[1], addr |-> entry[2]]
                               ELSE [op |-> "search", key |-> entry[1]]
  OBVIOUS
<1>2. request \in Book!Request
  BY <1>1 DEF Book!Request
<1>3. DOMAIN pc = Threads /\ DOMAIN arg = Threads
  BY DEF MapInv, LockInv, LockTypes
<1>4. pc[t] = "idle" /\ pc'[t] = "lock" /\ arg'[t] = entry
  BY <1>3 DEF Call
<1>5. CallOf(t) = Book!Idle
  BY <1>4, CallOfIs DEF Book!Idle
<1>6. CallOf(t)' = request
  <2>1. CASE t \in Inserters
    <3>1. CallOf(t)' = [op |-> "insert", key |-> NameOf(t)', addr |-> arg'[t][2]]
      BY <1>4, <2>1, CallOfIsNext
    <3> QED
      BY <1>1, <1>4, <2>1, <3>1 DEF NameOf
  <2>2. CASE t \notin Inserters
    <3>1. t \in Searchers
      BY <2>2 DEF Threads
    <3>2. CallOf(t)' = [op |-> "search", key |-> NameOf(t)']
      BY <1>4, <3>1, CallOfIsNext
    <3> QED
      BY <1>1, <1>4, <2>2, <3>2 DEF NameOf
  <2> QED
    BY <2>1, <2>2
<1>7. \A u \in Threads : u # t => CallOf(u)' = CallOf(u)
  BY SameCall DEF Call
<1>8. MapCall' = [MapCall EXCEPT ![t] = request]
  BY <1>6, <1>7, OneCall
<1>9. MapBook' = MapBook
  BY SameBook DEF Call
<1>10. MapCall[t] = Book!Idle
  BY <1>5, MapCallAt
<1>11. Book!Invoke(t, request)
  BY <1>8, <1>9, <1>10 DEF Book!Invoke, MapCall, MapBook
<1> QED
  BY <1>2, <1>11

LEMMA ReturnReturns ==
  ASSUME MapInv, NEW t \in Threads, Return(t)
  PROVE  Book!Return(t)
<1>1. DOMAIN pc = Threads /\ pc[t] = "unlock" /\ pc'[t] = "idle"
  BY DEF MapInv, LockInv, LockTypes, Return
<1>2. CallOf(t)' = Book!Idle
  BY <1>1, CallOfIsNext DEF Book!Idle
<1>3. CallOf(t).op \in {"inserted", "found"}
  <2>1. CASE t \in Inserters
    BY <1>1, <2>1, CallOfIs
  <2>2. CASE t \in Searchers
    <3>1. CallOf(t) = [op |-> "found", addr |-> result[t]]
      BY <1>1, <2>2, CallOfIs
    <3> QED
      BY <3>1
  <2> QED
    BY <2>1, <2>2 DEF Threads
<1>4. \A u \in Threads : u # t => CallOf(u)' = CallOf(u)
  BY SameCall DEF Return
<1>5. MapCall' = [MapCall EXCEPT ![t] = Book!Idle]
  BY <1>2, <1>4, OneCall
<1>6. MapBook' = MapBook
  BY SameBook DEF Return
<1>7. MapCall[t].op \in {"inserted", "found"}
  BY <1>3, MapCallAt
<1> QED
  BY <1>5, <1>6, <1>7 DEF Book!Return, MapCall, MapBook

(* A name is in the book if it is in the tree of its bucket.               *)
LEMMA NameHome ==
  ASSUME MapInv, NEW b \in Bucket, NEW k, HashOf[k] = b
  PROVE  k \in Names <=> k \in Stored(tree[b])
BY DEF MapInv, TreesKept, Names

LEMMA FoundIsInBook ==
  ASSUME NamesInOrder, MapInv, NEW t \in Threads, pc[t] = "descend",
         cur[t] = Nil \/ AtName(t)
  PROVE  /\ NameOf(t) \in Names <=> cur[t] # Nil
         /\ cur[t] # Nil => cur[t] = NameOf(t)
<1>1. PICK T : T = tree[HomeOf(t)]
  OBVIOUS
<1>2. HomeOf(t) \in Bucket /\ NameOf(t) \in Key /\ Whole(T) /\ WayOf(t, T)
  BY <1>1, DescendingWhole
<1>3. Stored(T) \in SUBSET Key /\ Below(T, Nil) = {}
  BY <1>2, WholeSearchTree, WholeChildren
<1>4. NameOf(t) \in Names <=> NameOf(t) \in Stored(T)
  BY <1>1, <1>2, NameHome DEF HomeOf
<1>5. CASE cur[t] = Nil
  BY <1>2, <1>3, <1>4, <1>5 DEF WayOf
<1>6. CASE AtName(t)
  <2>1. cur[t] \in Stored(T) /\ cur[t] \in Key /\ cur[t] # Nil
    BY <1>2, <1>3, <1>6 DEF WayOf, AtName
  <2>2. cur[t] = NameOf(t)
    BY <1>2, <1>6, <2>1, TowardIsTowardKey DEF AtName
  <2> QED
    BY <1>4, <2>1, <2>2
<1> QED
  BY <1>5, <1>6

LEMMA PresentInserts ==
  ASSUME NamesInOrder, MapInv, NEW t \in Inserters, InsertPresent(t)
  PROVE  Book!Insert(t)
<1>0. t \in Threads
  BY DEF Threads
<1>1. DOMAIN pc = Threads /\ pc[t] = "descend" /\ pc'[t] = "unlock" /\ AtName(t) /\ cur[t] # Nil
  BY <1>0 DEF MapInv, LockInv, LockTypes, InsertPresent, AtName
<1>2. NameOf(t) \in Names
  BY <1>0, <1>1, FoundIsInBook
<1>3. CallOf(t) = [op |-> "insert", key |-> NameOf(t), addr |-> arg[t][2]]
  BY <1>0, <1>1, CallOfIs
<1>4. CallOf(t)' = [op |-> "inserted"]
  BY <1>0, <1>1, CallOfIsNext
<1>5. \A u \in Threads : u # t => CallOf(u)' = CallOf(u)
  BY SameCall DEF InsertPresent
<1>6. MapCall' = [MapCall EXCEPT ![t] = [op |-> "inserted"]]
  BY <1>0, <1>4, <1>5, OneCall
<1>7. MapBook' = MapBook
  BY SameBook DEF InsertPresent
<1>8. MapCall[t].op = "insert" /\ MapCall[t].key = NameOf(t)
  BY <1>0, <1>3, MapCallAt
<1>9. MapBook = [k \in DOMAIN MapBook \cup {MapCall[t].key} |->
                   IF k \in DOMAIN MapBook THEN MapBook[k] ELSE MapCall[t].addr]
  BY <1>2, <1>8 DEF MapBook
<1> QED
  BY <1>6, <1>7, <1>8, <1>9 DEF Book!Insert, MapCall, MapBook

LEMMA LinkInserts ==
  ASSUME NamesInOrder, MapInv, NEW t \in Inserters, InsertLink(t)
  PROVE  Book!Insert(t)
<1>0. t \in Threads
  BY DEF Threads
<1>1. PICK b : b = HomeOf(t)
  OBVIOUS
<1>2. PICK k : k = NameOf(t)
  OBVIOUS
<1>3. PICK r : r = Link(tree[b], k, up[t], IF up[t] = Nil THEN "right" ELSE Toward(t, up[t]))
  OBVIOUS
<1>4. /\ pc[t] = "descend" /\ cur[t] = Nil
      /\ tree' = [tree EXCEPT ![b] = r] /\ addr' = [addr EXCEPT ![k] = arg[t][2]]
      /\ pc' = [pc EXCEPT ![t] = "fix"] /\ UNCHANGED <<arg, result>>
  BY <1>1, <1>2, <1>3 DEF InsertLink
<1>5. /\ b \in Bucket /\ k \in Key /\ HashOf[k] = b
      /\ k \notin Stored(tree[b]) /\ Stored(r) = Stored(tree[b]) \cup {k}
  BY <1>1, <1>2, <1>3, <1>4, LinkPlace
<1>6. DOMAIN pc = Threads /\ DOMAIN tree = Bucket /\ DOMAIN addr = Key
  BY DEF MapInv, LockInv, LockTypes, TreesKept, TreeArray, RestTypes
<1>7. tree'[b] = r /\ (\A c \in Bucket : c # b => tree'[c] = tree[c]) /\ pc'[t] = "fix"
      /\ addr'[k] = arg[t][2] /\ \A j : j # k => addr'[j] = addr[j]
  BY <1>0, <1>4, <1>5, <1>6
<1>8. k \notin Names /\ Names' = Names \cup {k}
  <2>1. k \notin Names
    BY <1>5, NameHome
  <2>2. Names' = UNION {Stored(tree'[c]) : c \in Bucket}
    BY DEF Names
  <2>3. \A c \in Bucket : Stored(tree'[c]) = IF c = b THEN Stored(tree[c]) \cup {k} ELSE Stored(tree[c])
    BY <1>5, <1>7
  <2> QED
    BY <1>5, <2>1, <2>2, <2>3 DEF Names
<1>9. CallOf(t) = [op |-> "insert", key |-> k, addr |-> arg[t][2]]
  BY <1>0, <1>2, <1>4, CallOfIs
<1>10. CallOf(t)' = [op |-> "inserted"]
  BY <1>0, <1>7, CallOfIsNext
<1>11. \A u \in Threads : u # t => CallOf(u)' = CallOf(u)
  BY <1>4, SameCall
<1>12. MapCall' = [MapCall EXCEPT ![t] = [op |-> "inserted"]]
  BY <1>0, <1>10, <1>11, OneCall
<1>13. MapCall[t].op = "insert" /\ MapCall[t].key = k /\ MapCall[t].addr = arg[t][2]
  BY <1>0, <1>9, MapCallAt
<1>14. MapBook' = [j \in DOMAIN MapBook \cup {MapCall[t].key} |->
                     IF j \in DOMAIN MapBook THEN MapBook[j] ELSE MapCall[t].addr]
  <2>1. MapBook' = [j \in Names \cup {k} |-> addr'[j]]
    BY <1>8 DEF MapBook
  <2>2. DOMAIN MapBook = Names /\ \A j \in Names : MapBook[j] = addr[j]
    BY DEF MapBook
  <2>3. \A j \in Names \cup {k} : addr'[j] = IF j \in Names THEN MapBook[j] ELSE arg[t][2]
    BY <1>7, <1>8, <2>2
  <2> QED
    BY <1>13, <2>1, <2>2, <2>3
<1> QED
  BY <1>12, <1>13, <1>14 DEF Book!Insert, MapCall, MapBook

LEMMA EndSearches ==
  ASSUME NamesInOrder, MapInv, NEW t \in Searchers, SearchEnd(t)
  PROVE  Book!Search(t)
<1>0. t \in Threads
  BY DEF Threads
<1>1. /\ pc[t] = "descend" /\ (cur[t] = Nil \/ AtName(t))
      /\ result' = [result EXCEPT ![t] = IF cur[t] = Nil THEN NoAddr ELSE addr[cur[t]]]
      /\ pc' = [pc EXCEPT ![t] = "unlock"]
      /\ UNCHANGED <<tree, addr, arg>>
  BY DEF SearchEnd
<1>2. DOMAIN pc = Threads /\ DOMAIN result = Threads
  BY DEF MapInv, LockInv, LockTypes, RestTypes
<1>3. PICK k : k = NameOf(t)
  OBVIOUS
<1>4. (k \in Names <=> cur[t] # Nil) /\ (cur[t] # Nil => cur[t] = k)
  BY <1>0, <1>1, <1>3, FoundIsInBook
<1>5. pc'[t] = "unlock" /\ result'[t] = IF k \in Names THEN addr[k] ELSE NoAddr
  BY <1>0, <1>1, <1>2, <1>4
<1>6. CallOf(t) = [op |-> "search", key |-> k]
  BY <1>0, <1>1, <1>3, CallOfIs
<1>7. CallOf(t)' = [op |-> "found", addr |-> IF k \in Names THEN addr[k] ELSE NoAddr]
  BY <1>0, <1>5, CallOfIsNext
<1>8. \A u \in Threads : u # t => CallOf(u)' = CallOf(u)
  BY <1>1, SameCall
<1>9. MapCall' = [MapCall EXCEPT ![t] = [op |-> "found", addr |-> IF k \in Names THEN addr[k] ELSE NoAddr]]
  BY <1>0, <1>7, <1>8, OneCall
<1>10. MapBook' = MapBook
  BY <1>1, SameBook
<1>11. MapCall[t].op = "search" /\ MapCall[t].key = k
  BY <1>0, <1>6, MapCallAt
<1>12. DOMAIN MapBook = Names /\ \A j \in Names : MapBook[j] = addr[j]
  BY DEF MapBook
<1>13. (IF k \in DOMAIN MapBook THEN MapBook[k] ELSE NoAddr) = IF k \in Names THEN addr[k] ELSE NoAddr
  BY <1>12
<1> QED
  BY <1>9, <1>10, <1>11, <1>13 DEF Book!Search, MapCall, MapBook
LEMMA NextBook ==
  ASSUME NamesInOrder, MapInv, [Next]_vars
  PROVE  [Book!Next]_(Book!vars)
<1>0. UNCHANGED <<MapBook, MapCall>> => UNCHANGED Book!vars
  BY DEF Book!vars, MapBook, MapCall
<1>1. DOMAIN pc = Threads
  BY DEF MapInv, LockInv, LockTypes
<1>2. CASE \E t \in Inserters : Insert(t)
  <2>1. PICK t \in Inserters : Insert(t)
    BY <1>2
  <2>2. t \in Threads
    BY DEF Threads
  <2>3. ASSUME NEW entry \in Entries, Call(t, entry) PROVE Book!Next
    <3>1. entry \in Key \X (Addr \cup {NoAddr}) /\ t \notin Searchers
      BY HashmapAssumption
    <3> QED
      BY <2>2, <2>3, <3>1, CallInvokes DEF Book!Next
  <2>4. CASE InsertLock(t) \/ InsertDescend(t)
    <3>1. /\ pc[t] \in {"lock", "descend"} /\ pc'[t] = "descend"
          /\ \A u \in Threads : u # t => pc'[u] = pc[u]
          /\ UNCHANGED <<tree, addr, arg, result>>
      BY <1>1, <2>2, <2>4 DEF InsertLock, AtRoot, InsertDescend
    <3>2. CallOf(t)' = CallOf(t)
      BY <2>2, <3>1, CallOfIs, CallOfIsNext DEF NameOf
    <3> QED
      BY <1>0, <2>2, <3>1, <3>2, HiddenStep
  <2>5. CASE InsertPresent(t)
    BY <2>2, <2>5, PresentInserts DEF Book!Next
  <2>6. CASE InsertLink(t)
    BY <2>2, <2>6, LinkInserts DEF Book!Next
  <2>7. CASE InsertFix(t) \/ InsertFixed(t)
    <3>1. /\ pc[t] = "fix" /\ pc'[t] \in {"fix", "unlock"}
          /\ \A u \in Threads : u # t => pc'[u] = pc[u]
          /\ UNCHANGED <<addr, arg, result>>
      BY <1>1, <2>2, <2>7 DEF InsertFix, InsertFixed
    <3>2. CallOf(t)' = CallOf(t)
      BY <2>2, <3>1, CallOfIs, CallOfIsNext
    <3>3. \A b \in Bucket : Stored(tree'[b]) = Stored(tree[b])
      BY <2>7, FixMapInv, FixedMapInv
    <3> QED
      BY <1>0, <2>2, <3>1, <3>2, <3>3, HiddenStep
  <2>8. CASE InsertReturn(t)
    BY <2>2, <2>8, ReturnReturns DEF Book!Next, InsertReturn
  <2> QED
    BY <2>1, <2>3, <2>4, <2>5, <2>6, <2>7, <2>8 DEF Insert
<1>3. CASE \E t \in Searchers : Search(t)
  <2>1. PICK t \in Searchers : Search(t)
    BY <1>3
  <2>2. t \in Threads
    BY DEF Threads
  <2>3. ASSUME NEW k \in Queries, Call(t, <<k, NoAddr>>) PROVE Book!Next
    <3>1. <<k, NoAddr>> \in Key \X (Addr \cup {NoAddr}) /\ <<k, NoAddr>>[2] = NoAddr
      BY HashmapAssumption
    <3> QED
      BY <2>2, <2>3, <3>1, CallInvokes DEF Book!Next
  <2>4. CASE SearchLock(t) \/ SearchDescend(t)
    <3>1. /\ pc[t] \in {"lock", "descend"} /\ pc'[t] = "descend"
          /\ \A u \in Threads : u # t => pc'[u] = pc[u]
          /\ UNCHANGED <<tree, addr, arg, result>>
      BY <1>1, <2>2, <2>4 DEF SearchLock, AtRoot, SearchDescend
    <3>2. CallOf(t)' = CallOf(t)
      BY <2>2, <3>1, CallOfIs, CallOfIsNext DEF NameOf
    <3> QED
      BY <1>0, <2>2, <3>1, <3>2, HiddenStep
  <2>5. CASE SearchEnd(t)
    BY <2>2, <2>5, EndSearches DEF Book!Next
  <2>6. CASE SearchReturn(t)
    BY <2>2, <2>6, ReturnReturns DEF Book!Next, SearchReturn
  <2> QED
    BY <2>1, <2>3, <2>4, <2>5, <2>6 DEF Search
<1>4. CASE UNCHANGED vars
  <2>1. \A u \in Threads : CallOf(u)' = CallOf(u)
    BY <1>4, SameCall DEF vars, locals
  <2>2. MapBook' = MapBook
    BY <1>4, SameBook DEF vars
  <2> QED
    BY <1>0, <2>1, <2>2 DEF MapCall
<1> QED
  BY <1>2, <1>3, <1>4 DEF Next

(* The hash map implements the address book: an insert takes effect when   *)
(* its node is linked, or when it finds the name present, and a search when*)
(* it comes to its end, for any threads, buckets, names and addresses.     *)
THEOREM HashmapImplementsBook ==
  ASSUME NamesInOrder
  PROVE  Spec => ImplementsBook
<1>1. Init => MapInv /\ Book!Init
  BY InitMapInv, BookInit
<1>2. MapInv /\ [Next]_vars => MapInv' /\ [Book!Next]_(Book!vars)
  BY NextMapInv, NextBook
<1> QED
  BY <1>1, <1>2, PTL DEF Spec, ImplementsBook, Book!Spec

-----------------------------------------------------------------------------
(* Sequences that list a set in the order of a value its members have *)

(* No chain of ever smaller subsets of a finite set is endless.            *)
LEMMA NoneSmaller ==
  ASSUME NEW S, IsFiniteSet(S), NEW Bad, NEW part,
         \A k \in Bad : part[k] \subseteq S,
         \A k \in Bad : \E j \in Bad : part[j] \subseteq part[k] /\ part[j] # part[k]
  PROVE  Bad = {}
<1>1. SUFFICES ASSUME Bad # {} PROVE FALSE
  OBVIOUS
<1> DEFINE Family == {part[k] : k \in Bad}
<1>2. Family # {} /\ Family \subseteq FiniteSubsetsOf(S)
  <2>1. ASSUME NEW k \in Bad PROVE part[k] \in FiniteSubsetsOf(S)
    BY FS_Subset DEF FiniteSubsetsOf
  <2> QED
    BY <1>1, <2>1
<1>3. PICK b \in Family : \A c \in Family : ~ (<<c, b>> \in StrictSubsetOrdering(S))
  <2> HIDE DEF Family
  <2> QED
    BY <1>2, FS_StrictSubsetOrderingWellFounded, WFMin
<1>4. PICK k \in Bad : b = part[k]
  OBVIOUS
<1>5. PICK j \in Bad : part[j] \subseteq part[k] /\ part[j] # part[k]
  OBVIOUS
<1>6. <<part[j], b>> \in StrictSubsetOrdering(S)
  <2>1. part[j] \subseteq b /\ part[j] # b /\ b \subseteq S
    BY <1>4, <1>5
  <2> QED
    BY <2>1 DEF StrictSubsetOrdering
<1> QED
  BY <1>3, <1>5, <1>6

Least(val, X, f) == f \in X /\ \A m \in X : m = f \/ val[f] < val[m]

(* Numbers that tell the keys apart. *)
Values == {val \in [Key -> Int] : \A j, k \in Key : val[j] = val[k] => j = k}

(* A set of nodes that is not empty has a least member, ... *)
LEMMA LeastExists ==
  ASSUME NEW val \in Values, NEW X \in SUBSET Key, IsFiniteSet(X), X # {}
  PROVE  \E f : Least(val, X, f)
<1> DEFINE part == [k \in X |-> {m \in X : val[m] < val[k]}]
<1>1. /\ \A k \in X : val[k] \in Int
      /\ \A j, k \in X : val[j] = val[k] => j = k
  BY DEF Values
<1>2. SUFFICES ASSUME \A k \in X : \E m \in X : m # k /\ ~ (val[k] < val[m]) PROVE FALSE
  BY DEF Least
<1>3. \A k \in X : part[k] \subseteq X
  OBVIOUS
<1>4. ASSUME NEW k \in X PROVE \E j \in X : part[j] \subseteq part[k] /\ part[j] # part[k]
  <2>1. PICK j \in X : j # k /\ ~ (val[k] < val[j])
    BY <1>2
  <2>2. val[j] < val[k]
    BY <1>1, <2>1
  <2>3. j \in part[k] /\ j \notin part[j]
    BY <1>1, <2>2
  <2>4. ASSUME NEW m \in part[j] PROVE m \in part[k]
    BY <1>1, <2>2, <2>4
  <2> QED
    BY <2>3, <2>4
<1> HIDE DEF part
<1>5. X = {}
  <2>1. PICK Bad, S : Bad = X /\ S = X
    OBVIOUS
  <2>2. /\ IsFiniteSet(S)
        /\ \A k \in Bad : part[k] \subseteq S
        /\ \A k \in Bad : \E j \in Bad : part[j] \subseteq part[k] /\ part[j] # part[k]
    BY <1>3, <1>4, <2>1
  <2>3. Bad = {}
    BY ONLY <2>2, NoneSmaller
  <2> QED
    BY <2>1, <2>3
<1> QED
  BY <1>5

(* ... and only one. *)
LEMMA LeastUnique ==
  ASSUME NEW val \in Values, NEW X \in SUBSET Key, NEW f, Least(val, X, f), NEW e, Least(val, X, e)
  PROVE  f = e
<1>1. val[f] \in Int /\ val[e] \in Int
  BY DEF Values, Least
<1> QED
  BY <1>1 DEF Least

(* The least member, Nil when there is none. *)
NextIn(val, X) == IF X = {} THEN Nil ELSE CHOOSE f : Least(val, X, f)

(* What comes next in a set is its least member. *)
LEMMA NextIs ==
  ASSUME NEW val \in Values, NEW X \in SUBSET Key, IsFiniteSet(X)
  PROVE  /\ X = {} => NextIn(val, X) = Nil
         /\ X # {} => Least(val, X, NextIn(val, X)) /\ NextIn(val, X) \in X
         /\ \A f : Least(val, X, f) => NextIn(val, X) = f
<1>1. X = {} => NextIn(val, X) = Nil
  BY DEF NextIn
<1>2. ASSUME X # {} PROVE Least(val, X, NextIn(val, X))
  BY <1>2, LeastExists DEF NextIn
<1>3. ASSUME NEW f, Least(val, X, f) PROVE NextIn(val, X) = f
  <2>1. X # {}
    BY <1>3 DEF Least
  <2> QED
    BY <1>2, <1>3, <2>1, LeastUnique
<1>4. ASSUME X # {} PROVE NextIn(val, X) \in X
  BY <1>2, <1>4 DEF Least
<1> QED
  BY <1>1, <1>2, <1>3, <1>4

Listing(val, X, q) ==
  /\ q \in Seq(X)
  /\ \A m \in X : \E i \in 1 .. Len(q) : q[i] = m
  /\ \A i, j \in 1 .. Len(q) : i < j => val[q[i]] < val[q[j]]

(* Two lists of the same set agree on every place, ... *)
LEMMA ListingsAgree ==
  ASSUME NEW val \in Values, NEW X \in SUBSET Key,
         NEW q, Listing(val, X, q), NEW r, Listing(val, X, r)
  PROVE  \A i \in 1 .. Len(q) : i <= Len(r) /\ q[i] = r[i]
<1>1. /\ q \in Seq(X) /\ r \in Seq(X) /\ Len(q) \in Nat /\ Len(r) \in Nat
      /\ \A i \in 1 .. Len(q) : q[i] \in X
      /\ \A i \in 1 .. Len(r) : r[i] \in X
  BY LenProperties, ElementOfSeq DEF Listing
<1>2. \A m \in X : val[m] \in Int
  BY DEF Values
<1>3. /\ \A m \in X : \E i \in 1 .. Len(q) : q[i] = m
      /\ \A m \in X : \E i \in 1 .. Len(r) : r[i] = m
      /\ \A i, j \in 1 .. Len(q) : i < j => val[q[i]] < val[q[j]]
      /\ \A i, j \in 1 .. Len(r) : i < j => val[r[i]] < val[r[j]]
  BY DEF Listing
<1> DEFINE Bad == {i \in 1 .. Len(q) : ~ (i <= Len(r) /\ q[i] = r[i])}
<1>4. SUFFICES ASSUME Bad # {} PROVE FALSE
  OBVIOUS
<1>5. PICK i \in Bad : \A h \in Bad : i <= h
  <2>1. Bad \in SUBSET Nat
    BY <1>1
  <2> HIDE DEF Bad
  <2> QED
    BY <1>4, <2>1, LeastNat
<1>6. i \in 1 .. Len(q) /\ i \in Nat /\ \A h \in 1 .. Len(q) : h < i => h <= Len(r) /\ q[h] = r[h]
  <2>1. i \in 1 .. Len(q) /\ i \in Nat
    BY <1>1
  <2>2. ASSUME NEW h \in 1 .. Len(q), h < i PROVE h \notin Bad
    <3> HIDE DEF Bad
    <3> QED
      BY <1>1, <1>5, <2>1, <2>2
  <2> QED
    BY <2>1, <2>2
<1>7. PICK j \in 1 .. Len(r) : r[j] = q[i]
  BY <1>1, <1>3, <1>6
<1>8. j > i
  <2>1. j \in Nat /\ j <= Len(r)
    BY <1>1
  <2>2. j # i
    BY <1>6, <1>7
  <2>3. ASSUME j < i PROVE FALSE
    <3>1. j \in 1 .. Len(q)
      BY <1>1, <1>6, <2>1, <2>3
    <3>2. q[j] = q[i] /\ val[q[j]] < val[q[i]]
      BY <1>3, <1>6, <1>7, <2>3, <3>1
    <3> QED
      BY <1>1, <1>2, <1>6, <3>2
  <2> QED
    BY <1>6, <2>1, <2>2, <2>3
<1>9. i \in 1 .. Len(r) /\ val[r[i]] < val[q[i]]
  <2>1. i \in 1 .. Len(r)
    BY <1>1, <1>6, <1>8
  <2> QED
    BY <1>3, <1>7, <1>8, <2>1
<1>10. PICK h \in 1 .. Len(q) : q[h] = r[i]
  BY <1>1, <1>3, <1>9
<1>11. h \in Nat /\ val[r[i]] \in Int /\ val[q[i]] \in Int
  BY <1>1, <1>2, <1>6, <1>9
<1>12. CASE h < i
  <2>1. r[h] = r[i] /\ h \in 1 .. Len(r)
    BY <1>1, <1>6, <1>10, <1>12
  <2>2. val[r[h]] < val[r[i]]
    BY <1>3, <1>9, <1>12, <2>1
  <2> QED
    BY <1>11, <2>1, <2>2
<1>13. CASE h = i
  BY <1>9, <1>10, <1>11, <1>13
<1>14. CASE i < h
  <2>1. val[q[i]] < val[q[h]]
    BY <1>3, <1>6, <1>14
  <2> QED
    BY <1>9, <1>10, <1>11, <2>1
<1> QED
  BY <1>6, <1>11, <1>12, <1>13, <1>14

(* ... so a set is listed by one sequence. *)
LEMMA ListingUnique ==
  ASSUME NEW val \in Values, NEW X \in SUBSET Key,
         NEW q, Listing(val, X, q), NEW r, Listing(val, X, r)
  PROVE  q = r
<1>1. q \in Seq(X) /\ r \in Seq(X) /\ Len(q) \in Nat /\ Len(r) \in Nat
  BY LenProperties DEF Listing
<1>2. /\ \A i \in 1 .. Len(q) : i <= Len(r) /\ q[i] = r[i]
      /\ \A i \in 1 .. Len(r) : i <= Len(q) /\ r[i] = q[i]
  <2>1. \A i \in 1 .. Len(q) : i <= Len(r) /\ q[i] = r[i]
    BY ONLY val \in Values, X \in SUBSET Key, Listing(val, X, q), Listing(val, X, r), ListingsAgree
  <2>2. \A i \in 1 .. Len(r) : i <= Len(q) /\ r[i] = q[i]
    BY ONLY val \in Values, X \in SUBSET Key, Listing(val, X, q), Listing(val, X, r), ListingsAgree
  <2> QED
    BY <2>1, <2>2
<1>3. Len(q) = Len(r)
  <2>1. Len(q) > 0 => Len(q) <= Len(r)
    BY <1>1, <1>2
  <2>2. Len(r) > 0 => Len(r) <= Len(q)
    BY <1>1, <1>2
  <2> QED
    BY <1>1, <2>1, <2>2
<1> QED
  BY <1>1, <1>2, <1>3, SeqEqual

(* The empty set is listed by the empty sequence. *)
LEMMA ListingEmpty ==
  ASSUME NEW val
  PROVE  Listing(val, {}, << >>)
BY DEF Listing

(* A list with the least member put before the rest. *)
LEMMA ListingPrepend ==
  ASSUME NEW val \in Values, NEW X \in SUBSET Key, NEW q, Listing(val, X, q),
         NEW k \in Key, \A m \in X : val[k] < val[m]
  PROVE  Listing(val, X \cup {k}, <<k>> \o q)
<1>1. /\ q \in Seq(X) /\ Len(q) \in Nat
      /\ \A i \in 1 .. Len(q) : q[i] \in X
      /\ \A m \in X : \E i \in 1 .. Len(q) : q[i] = m
      /\ \A i, j \in 1 .. Len(q) : i < j => val[q[i]] < val[q[j]]
  BY LenProperties, ElementOfSeq DEF Listing
<1>2. PICK r : r = <<k>> \o q
  OBVIOUS
<1>3. /\ r \in Seq(X \cup {k}) /\ Len(r) = Len(q) + 1 /\ r[1] = k
      /\ \A i \in 1 .. Len(r) : i # 1 => r[i] = q[i - 1]
  <2>1. <<k>> \in Seq(X \cup {k}) /\ q \in Seq(X \cup {k}) /\ Len(<<k>>) = 1
    BY <1>1
  <2> QED
    BY <1>1, <1>2, <2>1, ConcatProperties
<1>4. ASSUME NEW m \in X \cup {k} PROVE \E i \in 1 .. Len(r) : r[i] = m
  <2>1. CASE m = k
    BY <1>1, <1>3, <2>1
  <2>2. CASE m \in X
    <3>1. PICK i \in 1 .. Len(q) : q[i] = m
      BY <1>1, <2>2
    <3>2. i + 1 \in 1 .. Len(r) /\ i + 1 # 1 /\ (i + 1) - 1 = i
      BY <1>1, <1>3
    <3> QED
      BY <1>3, <3>1, <3>2
  <2> QED
    BY <2>1, <2>2
<1>5. ASSUME NEW i \in 1 .. Len(r), NEW j \in 1 .. Len(r), i < j PROVE val[r[i]] < val[r[j]]
  <2>1. j # 1 /\ j - 1 \in 1 .. Len(q)
    BY <1>1, <1>3, <1>5
  <2>2. CASE i = 1
    BY <1>1, <1>3, <2>1, <2>2
  <2>3. CASE i # 1
    <3>1. i - 1 \in 1 .. Len(q) /\ i - 1 < j - 1
      BY <1>1, <1>3, <1>5, <2>3
    <3> QED
      BY <1>1, <1>3, <2>1, <2>3, <3>1
  <2> QED
    BY <2>2, <2>3
<1> QED
  BY <1>2, <1>3, <1>4, <1>5 DEF Listing
-----------------------------------------------------------------------------
(* Walking *)

(* A tree whose nodes a walk from side s meets in the order of val.  Unlike *)
(* a search tree it may have been left by a node that still points into it, *)
(* and the keys need not be the order.                                      *)
LooseTree(t, sub, val, s) ==
  /\ t \in Tree /\ s \in Side /\ val \in Values
  /\ sub \in [Nodes -> SUBSET Key] /\ sub[Nil] = {}
  /\ IsFiniteSet(sub[t.root]) /\ t.root \in sub[t.root] \cup {Nil}
  /\ \A k \in sub[t.root] :
       /\ sub[k] = {k} \cup sub[t.child[s][k]] \cup sub[t.child[Other(s)][k]]
       /\ sub[k] \subseteq sub[t.root]
       /\ \A m \in sub[t.child[s][k]] : val[m] < val[k]
       /\ \A m \in sub[t.child[Other(s)][k]] : val[k] < val[m]
       /\ \A d \in Side : t.child[d][k] # Nil => t.parent[t.child[d][k]] = k
  /\ \A k \in Key : /\ t.parent[k] \in sub[t.root] \cup {Nil}
                    /\ \A d \in Side : t.child[d][k] \in sub[t.root] \cup {Nil}
  /\ t.root # Nil => t.parent[t.root] = Nil
  /\ \A k \in sub[t.root] \ {t.root} :
       t.parent[k] # Nil /\ \E d \in Side : t.child[d][t.parent[k]] = k

(* Where the nodes, the root and the pointers of such a tree are. *)
LEMMA LooseFacts ==
  ASSUME NEW t, NEW sub, NEW val, NEW s, LooseTree(t, sub, val, s),
         NEW S, S = sub[t.root], NEW o, o = Other(s)
  PROVE  /\ Nil \notin Key /\ s \in Side /\ o \in Side /\ o # s /\ \A d \in Side : d = s \/ d = o
         /\ S \in SUBSET Key /\ IsFiniteSet(S) /\ sub[Nil] = {} /\ Nil \notin S
         /\ \A k \in S : /\ sub[k] = {k} \cup sub[t.child[s][k]] \cup sub[t.child[o][k]]
                         /\ sub[k] \subseteq S /\ k \in sub[k]
                         /\ \A m \in sub[t.child[s][k]] : val[m] < val[k]
                         /\ \A m \in sub[t.child[o][k]] : val[k] < val[m]
         /\ \A k \in Key : t.parent[k] \in S \cup {Nil} /\ t.child[s][k] \in S \cup {Nil} /\ t.child[o][k] \in S \cup {Nil}
         /\ \A k \in S, d \in Side : k \notin sub[t.child[d][k]] /\ sub[t.child[d][k]] \subseteq sub[k]
         /\ \A k \in S : val[k] \in Int
         /\ val \in Values
<1>1. s \in Side /\ o \in Side /\ o # s /\ \A d \in Side : d = s \/ d = o
  BY Sides DEF LooseTree
<1>2. /\ t \in Tree /\ val \in Values /\ Nil \notin Key
      /\ sub \in [Nodes -> SUBSET Key] /\ sub[Nil] = {} /\ IsFiniteSet(S)
      /\ t.root \in S \cup {Nil} /\ t.root \in Nodes
      /\ \A k \in S : /\ sub[k] = {k} \cup sub[t.child[s][k]] \cup sub[t.child[o][k]]
                      /\ sub[k] \subseteq S
                      /\ \A m \in sub[t.child[s][k]] : val[m] < val[k]
                      /\ \A m \in sub[t.child[o][k]] : val[k] < val[m]
      /\ \A k \in Key : /\ t.parent[k] \in S \cup {Nil}
                        /\ \A d \in Side : t.child[d][k] \in S \cup {Nil}
  BY KeyAssumption, TreeFields DEF LooseTree
<1>3. S \in SUBSET Key /\ Nil \notin S
  BY <1>2
<1>4. \A k \in S : val[k] \in Int /\ k \in sub[k]
  <2>1. val \in [Key -> Int]
    BY <1>2 DEF Values
  <2>2. \A k \in S : val[k] \in Int
    BY <1>3, <2>1
  <2>3. ASSUME NEW k \in S PROVE k \in sub[k]
    <3>1. sub[k] = {k} \cup sub[t.child[s][k]] \cup sub[t.child[o][k]]
      BY <1>2
    <3> QED
      BY ONLY <3>1
  <2> QED
    BY <2>2, <2>3
<1>5. ASSUME NEW k \in S, NEW d \in Side PROVE k \notin sub[t.child[d][k]] /\ sub[t.child[d][k]] \subseteq sub[k]
  <2>1. CASE d = s
    BY <1>2, <1>4, <2>1
  <2>2. CASE d = o
    BY <1>2, <1>4, <2>2
  <2> QED
    BY <1>1, <2>1, <2>2
<1> QED
  BY <1>1, <1>2, <1>3, <1>4, <1>5

(* Every node but the root is a child of its parent. *)
LEMMA LooseUp ==
  ASSUME NEW t, NEW sub, NEW val, NEW s, LooseTree(t, sub, val, s), NEW k \in sub[t.root], k # t.root
  PROVE  /\ t.parent[k] \in sub[t.root] /\ t.parent[k] # Nil
         /\ \E d \in Side : t.child[d][t.parent[k]] = k
         /\ sub[k] \subseteq sub[t.parent[k]] /\ t.parent[k] \notin sub[k] /\ t.parent[k] \in sub[t.parent[k]]
<1>1. PICK S : S = sub[t.root]
  OBVIOUS
<1>2. /\ S \in SUBSET Key /\ Nil \notin S
      /\ \A j \in S, d \in Side : j \notin sub[t.child[d][j]] /\ sub[t.child[d][j]] \subseteq sub[j]
      /\ \A j \in Key : t.parent[j] \in S \cup {Nil}
      /\ \A j \in S : j \in sub[j]
  BY <1>1, LooseFacts
<1>3. t.parent[k] # Nil /\ \E d \in Side : t.child[d][t.parent[k]] = k
  BY DEF LooseTree
<1>4. t.parent[k] \in S
  BY <1>1, <1>2, <1>3
<1>5. PICK d \in Side : t.child[d][t.parent[k]] = k
  BY <1>3
<1> QED
  BY <1>1, <1>2, <1>3, <1>4, <1>5

(* A set of nodes that goes upwards without an end is empty. *)
LEMMA LooseNoneUpward ==
  ASSUME NEW t, NEW sub, NEW val, NEW s, LooseTree(t, sub, val, s),
         NEW Bad, Bad \subseteq sub[t.root], t.root \notin Bad, \A k \in Bad : t.parent[k] \in Bad
  PROVE  Bad = {}
<1>1. PICK S : S = sub[t.root] /\ IsFiniteSet(S)
  BY DEF LooseTree
<1> DEFINE part == [k \in S |-> S \ sub[k]]
<1>2. \A k \in Bad : part[k] \subseteq S
  BY <1>1
<1>3. ASSUME NEW k \in Bad PROVE \E j \in Bad : part[j] \subseteq part[k] /\ part[j] # part[k]
  <2>1. k \in S /\ k # t.root /\ t.parent[k] \in Bad
    BY <1>1
  <2>2. /\ t.parent[k] \in S /\ sub[k] \subseteq sub[t.parent[k]]
        /\ t.parent[k] \notin sub[k] /\ t.parent[k] \in sub[t.parent[k]]
    BY <1>1, <2>1, LooseUp
  <2>3. part[t.parent[k]] = S \ sub[t.parent[k]] /\ part[k] = S \ sub[k]
    BY <2>1, <2>2
  <2> QED
    BY <2>1, <2>2, <2>3
<1> HIDE DEF part
<1> QED
  BY ONLY <1>1, <1>2, <1>3, NoneSmaller

(* Nor is one that goes downwards. *)
LEMMA LooseNoneDownward ==
  ASSUME NEW t, NEW sub, NEW val, NEW s, LooseTree(t, sub, val, s),
         NEW Bad, Bad \subseteq sub[t.root], \A k \in Bad : \E d \in Side : t.child[d][k] \in Bad
  PROVE  Bad = {}
<1>1. PICK S : S = sub[t.root] /\ IsFiniteSet(S) /\ S \in SUBSET Key
  BY LooseFacts
<1>2. /\ \A k \in S, d \in Side : k \notin sub[t.child[d][k]] /\ sub[t.child[d][k]] \subseteq sub[k]
      /\ \A k \in S : sub[k] \subseteq S /\ k \in sub[k]
  BY <1>1, LooseFacts
<1>3. \A k \in Bad : sub[k] \subseteq S
  BY <1>1, <1>2
<1>4. ASSUME NEW k \in Bad PROVE \E j \in Bad : sub[j] \subseteq sub[k] /\ sub[j] # sub[k]
  <2>1. PICK d \in Side : t.child[d][k] \in Bad
    OBVIOUS
  <2> QED
    BY <1>1, <1>2, <2>1
<1> QED
  BY ONLY <1>1, <1>3, <1>4, NoneSmaller

(* A node outside a subtree comes before all of it or after all of it.     *)
Before(val, x, X) == \A m \in X : val[x] < val[m]
Behind(val, x, X) == \A m \in X : val[m] < val[x]

(* The two sides of a node share no node. *)
LEMMA Apart ==
  ASSUME NEW t, NEW sub, NEW val, NEW s, LooseTree(t, sub, val, s),
         NEW x \in sub[t.root], NEW k \in sub[t.root], x \notin sub[k]
  PROVE  Before(val, x, sub[k]) \/ Behind(val, x, sub[k])
<1>1. PICK S, o : S = sub[t.root] /\ o = Other(s)
  OBVIOUS
<1>2. /\ s \in Side /\ o \in Side /\ \A d \in Side : d = s \/ d = o
      /\ S \in SUBSET Key /\ sub[Nil] = {}
      /\ \A j \in S : /\ sub[j] = {j} \cup sub[t.child[s][j]] \cup sub[t.child[o][j]]
                      /\ sub[j] \subseteq S
                      /\ \A m \in sub[t.child[s][j]] : val[m] < val[j]
                      /\ \A m \in sub[t.child[o][j]] : val[j] < val[m]
      /\ \A j \in S : val[j] \in Int
  BY <1>1, LooseFacts
<1> DEFINE Bad == {j \in S : x \notin sub[j] /\ ~ (Before(val, x, sub[j]) \/ Behind(val, x, sub[j]))}
<1>3. t.root \notin Bad
  BY <1>1
<1>4. ASSUME NEW j \in Bad PROVE t.parent[j] \in Bad
  <2>1. PICK p : p = t.parent[j]
    OBVIOUS
  <2>2. /\ j \in S /\ x \notin sub[j] /\ ~ Before(val, x, sub[j]) /\ ~ Behind(val, x, sub[j])
        /\ j # t.root
    BY <1>3
  <2>3. p \in S /\ (\E d \in Side : t.child[d][p] = j) /\ sub[j] \subseteq sub[p]
    BY <1>1, <2>1, <2>2, LooseUp
  <2>4. PICK d \in Side : t.child[d][p] = j
    BY <2>3
  <2>5. x \notin sub[p]
    <3>1. SUFFICES ASSUME x \in sub[p] PROVE FALSE
      OBVIOUS
    <3>2. \A m \in sub[j] : m \in S
      BY <1>2, <2>2
    <3>3. CASE d = s
      <4>1. \A m \in sub[j] : val[m] < val[p]
        BY <1>2, <2>3, <2>4, <3>3
      <4>2. x = p \/ val[p] < val[x]
        BY <1>2, <2>2, <2>3, <2>4, <3>1, <3>3
      <4>3. \A m \in sub[j] : val[m] < val[x]
        BY <1>1, <1>2, <2>3, <3>2, <4>1, <4>2
      <4> QED
        BY <2>2, <4>3 DEF Behind
    <3>4. CASE d = o
      <4>1. \A m \in sub[j] : val[p] < val[m]
        BY <1>2, <2>3, <2>4, <3>4
      <4>2. x = p \/ val[x] < val[p]
        BY <1>2, <2>2, <2>3, <2>4, <3>1, <3>4
      <4>3. \A m \in sub[j] : val[x] < val[m]
        BY <1>1, <1>2, <2>3, <3>2, <4>1, <4>2
      <4> QED
        BY <2>2, <4>3 DEF Before
    <3> QED
      BY <1>2, <3>3, <3>4
  <2>6. ~ Before(val, x, sub[p]) /\ ~ Behind(val, x, sub[p])
    BY <2>2, <2>3 DEF Before, Behind
  <2> QED
    BY <2>1, <2>3, <2>5, <2>6
<1>5. Bad = {}
  <2>1. Bad \subseteq sub[t.root]
    BY <1>1
  <2> HIDE DEF Bad
  <2> QED
    BY <1>3, <1>4, <2>1, LooseNoneUpward
<1> QED
  BY <1>1, <1>5

(* What is found by following the children is the subtree. *)
LEMMA LooseBelow ==
  ASSUME NEW t, NEW sub, NEW val, NEW s, LooseTree(t, sub, val, s), NEW n \in sub[t.root] \cup {Nil}
  PROVE  Below(t, n) = sub[n]
<1>1. PICK S, o : S = sub[t.root] /\ o = Other(s)
  OBVIOUS
<1>2. /\ s \in Side /\ o \in Side /\ o # s
      /\ Nil \notin Key /\ S \in SUBSET Key /\ Nil \notin S /\ sub[Nil] = {}
      /\ \A k \in S : sub[k] = {k} \cup sub[t.child[s][k]] \cup sub[t.child[o][k]]
      /\ \A k \in Key : t.child[s][k] \in S \cup {Nil} /\ t.child[o][k] \in S \cup {Nil}
  BY <1>1, LooseFacts
<1>3. (s = "left" /\ o = "right") \/ (s = "right" /\ o = "left")
  BY <1>2 DEF Side
<1>4. /\ \A k \in S : sub[k] = {k} \cup sub[t.child["left"][k]] \cup sub[t.child["right"][k]]
      /\ \A k \in Key : t.child["left"][k] \in S \cup {Nil} /\ t.child["right"][k] \in S \cup {Nil}
  <2>1. CASE s = "left" /\ o = "right"
    BY <1>2, <2>1
  <2>2. CASE s = "right" /\ o = "left"
    BY <1>2, <2>2
  <2> QED
    BY <1>3, <2>1, <2>2
<1> DEFINE Gathers(nodes) ==
      nodes = [k \in Key \cup {Nil} |->
                 IF k = Nil THEN {} ELSE {k} \cup nodes[t.child["left"][k]] \cup nodes[t.child["right"][k]]]
    G == CHOOSE nodes : Gathers(nodes)
<1>5. Below(t, n) = G[n]
  BY DEF Below
<1>6. PICK e : e = [k \in Key \cup {Nil} |->
                      IF k = Nil THEN {} ELSE {k} \cup sub[t.child["left"][k]] \cup sub[t.child["right"][k]]]
  OBVIOUS
<1>7. \A k \in S \cup {Nil} : e[k] = sub[k]
  BY Zenon, <1>2, <1>4, <1>6
<1>8. Gathers(e)
  <2>1. \A k \in Key : e[t.child["left"][k]] = sub[t.child["left"][k]] /\ e[t.child["right"][k]] = sub[t.child["right"][k]]
    BY Zenon, <1>4, <1>7
  <2>2. \A k \in Key \cup {Nil} :
          e[k] = IF k = Nil THEN {} ELSE {k} \cup e[t.child["left"][k]] \cup e[t.child["right"][k]]
    BY Zenon, <1>2, <1>6, <2>1
  <2>3. e = [k \in Key \cup {Nil} |-> e[k]]
    BY <1>6
  <2> QED
    BY Zenon, <2>2, <2>3
<1>9. Gathers(G)
  <2> HIDE DEF Gathers
  <2> QED
    BY SMTT(30), <1>8
<1> HIDE DEF G
<1>10. G[Nil] = {} /\ \A k \in Key : G[k] = {k} \cup G[t.child["left"][k]] \cup G[t.child["right"][k]]
  BY Zenon, <1>2, <1>9
<1> DEFINE Bad == {k \in S : G[k] # sub[k]}
<1>11. ASSUME NEW k \in Bad PROVE \E d \in Side : t.child[d][k] \in Bad
  <2>1. SUFFICES ASSUME t.child["left"][k] \notin Bad /\ t.child["right"][k] \notin Bad PROVE FALSE
    BY DEF Side
  <2>2. k \in S /\ k \in Key /\ G[k] # sub[k]
    BY <1>2
  <2>3. t.child["left"][k] \in S \cup {Nil} /\ t.child["right"][k] \in S \cup {Nil}
    BY <1>4, <2>2
  <2>4. G[t.child["left"][k]] = sub[t.child["left"][k]] /\ G[t.child["right"][k]] = sub[t.child["right"][k]]
    BY <1>2, <1>10, <2>1, <2>3
  <2>5. sub[k] = {k} \cup sub[t.child["left"][k]] \cup sub[t.child["right"][k]]
    BY <1>4, <2>2
  <2>6. G[k] = {k} \cup G[t.child["left"][k]] \cup G[t.child["right"][k]]
    BY <1>10, <2>2
  <2> QED
    BY ONLY <2>2, <2>4, <2>5, <2>6
<1>12. Bad = {}
  <2>1. Bad \subseteq sub[t.root]
    BY <1>1
  <2> HIDE DEF Bad
  <2> QED
    BY <1>11, <2>1, LooseNoneDownward
<1> QED
  BY <1>1, <1>2, <1>5, <1>10, <1>12

(* The end of the way down is the first node of the subtree. *)
LEMMA LooseOutermost ==
  ASSUME NEW t, NEW sub, NEW val, NEW s, LooseTree(t, sub, val, s), NEW n \in sub[t.root]
  PROVE  Outermost(t, n, s) = NextIn(val, sub[n]) /\ Outermost(t, n, s) \in sub[n]
<1>1. PICK S, o : S = sub[t.root] /\ o = Other(s)
  OBVIOUS
<1>2. /\ s \in Side /\ Nil \notin Key /\ S \in SUBSET Key /\ Nil \notin S /\ sub[Nil] = {}
      /\ IsFiniteSet(S) /\ val \in Values
      /\ \A k \in S : /\ sub[k] = {k} \cup sub[t.child[s][k]] \cup sub[t.child[o][k]]
                      /\ sub[k] \subseteq S /\ k \in sub[k]
                      /\ \A m \in sub[t.child[s][k]] : val[m] < val[k]
                      /\ \A m \in sub[t.child[o][k]] : val[k] < val[m]
      /\ \A k \in Key : t.child[s][k] \in S \cup {Nil}
      /\ \A k \in S : val[k] \in Int
  BY <1>1, LooseFacts
<1>3. ASSUME NEW k \in S
      PROVE  /\ Least(val, sub[k], NextIn(val, sub[k])) /\ NextIn(val, sub[k]) \in sub[k]
             /\ \A f : Least(val, sub[k], f) => NextIn(val, sub[k]) = f
  <2>1. sub[k] \in SUBSET Key /\ IsFiniteSet(sub[k]) /\ sub[k] # {}
    BY <1>2, FS_Subset
  <2> QED
    BY <1>2, <2>1, NextIs
<1>4. ASSUME NEW k \in S, t.child[s][k] = Nil PROVE NextIn(val, sub[k]) = k
  <2>1. Least(val, sub[k], k)
    BY <1>2, <1>4 DEF Least
  <2> QED
    BY <1>3, <2>1
<1>5. ASSUME NEW k \in S, t.child[s][k] # Nil PROVE NextIn(val, sub[k]) = NextIn(val, sub[t.child[s][k]])
  <2>1. PICK c, f : c = t.child[s][k] /\ f = NextIn(val, sub[c])
    OBVIOUS
  <2>2. c \in S /\ k \in Key
    BY <1>2, <1>5, <2>1
  <2>3. f \in sub[c] /\ \A m \in sub[c] : m = f \/ val[f] < val[m]
    BY <1>3, <2>1, <2>2 DEF Least
  <2>4. f \in sub[k] /\ val[f] < val[k] /\ val[f] \in Int /\ val[k] \in Int /\ f \in S
    BY <1>2, <2>1, <2>2, <2>3
  <2>5. ASSUME NEW m \in sub[k] PROVE m = f \/ val[f] < val[m]
    <3>1. CASE m \in sub[c]
      BY <2>3, <3>1
    <3>2. CASE m = k
      BY <2>4, <3>2
    <3>3. CASE m \in sub[t.child[o][k]]
      <4>1. val[k] < val[m] /\ val[m] \in Int
        BY <1>2, <2>5, <3>3
      <4> QED
        BY <2>4, <4>1
    <3> QED
      BY <1>2, <2>1, <2>5, <3>1, <3>2, <3>3
  <2>6. Least(val, sub[k], f)
    BY <2>4, <2>5 DEF Least
  <2> QED
    BY <1>3, <2>1, <2>6
<1> DEFINE Falls(f) == f = [k \in Key |-> IF t.child[s][k] = Nil THEN k ELSE f[t.child[s][k]]]
           G == CHOOSE f : Falls(f)
<1>6. Outermost(t, n, s) = G[n]
  BY DEF Outermost
<1>7. PICK e : e = [k \in Key |-> IF t.child[s][k] = Nil THEN k ELSE NextIn(val, sub[t.child[s][k]])]
  OBVIOUS
<1>8. \A k \in S : e[k] = NextIn(val, sub[k])
  BY Zenon, <1>2, <1>4, <1>5, <1>7
<1>9. Falls(e)
  <2>1. \A k \in Key : e[k] = IF t.child[s][k] = Nil THEN k ELSE e[t.child[s][k]]
    BY Zenon, <1>2, <1>7, <1>8
  <2>2. e = [k \in Key |-> e[k]]
    BY <1>7
  <2> QED
    BY Zenon, <2>1, <2>2
<1>10. Falls(G)
  <2> HIDE DEF Falls
  <2> QED
    BY <1>9
<1> HIDE DEF G
<1>11. \A k \in Key : G[k] = IF t.child[s][k] = Nil THEN k ELSE G[t.child[s][k]]
  BY Zenon, <1>10
<1> DEFINE Bad == {k \in S : G[k] # e[k]}
<1>12. ASSUME NEW k \in Bad PROVE \E d \in Side : t.child[d][k] \in Bad
  <2>1. k \in S /\ k \in Key /\ G[k] # e[k]
    BY <1>2
  <2>2. t.child[s][k] # Nil
    BY <1>4, <1>8, <1>11, <2>1
  <2>3. t.child[s][k] \in S
    BY <1>2, <2>1, <2>2
  <2>4. G[k] = G[t.child[s][k]] /\ e[k] = e[t.child[s][k]]
    BY <1>5, <1>8, <1>11, <2>1, <2>2, <2>3
  <2> QED
    BY <1>2, <2>1, <2>3, <2>4
<1>13. Bad = {}
  <2>1. Bad \subseteq sub[t.root]
    BY <1>1
  <2> HIDE DEF Bad
  <2> QED
    BY <1>12, <2>1, LooseNoneDownward
<1> QED
  BY <1>1, <1>3, <1>6, <1>8, <1>13

(* What comes after a whole subtree, and after one node. *)
AfterAll(t, sub, val, k) == {x \in sub[t.root] : \A m \in sub[k] : val[m] < val[x]}
Later(t, sub, val, k) == {x \in sub[t.root] : val[k] < val[x]}

(* What comes after a subtree, seen from the parent. *)
LEMMA AfterAllUp ==
  ASSUME NEW t, NEW sub, NEW val, NEW s, LooseTree(t, sub, val, s),
         NEW k \in sub[t.root], k # t.root, NEW p, p = t.parent[k]
  PROVE  /\ t.child[Other(s)][p] = k => AfterAll(t, sub, val, k) = AfterAll(t, sub, val, p)
         /\ t.child[Other(s)][p] # k => Least(val, AfterAll(t, sub, val, k), p)
<1>1. PICK S, o : S = sub[t.root] /\ o = Other(s)
  OBVIOUS
<1>2. /\ s \in Side /\ o \in Side /\ o # s /\ \A d \in Side : d = s \/ d = o
      /\ S \in SUBSET Key /\ sub[Nil] = {}
      /\ \A j \in S : /\ sub[j] = {j} \cup sub[t.child[s][j]] \cup sub[t.child[o][j]]
                      /\ sub[j] \subseteq S /\ j \in sub[j]
                      /\ \A m \in sub[t.child[s][j]] : val[m] < val[j]
                      /\ \A m \in sub[t.child[o][j]] : val[j] < val[m]
      /\ \A j \in S : val[j] \in Int
  BY <1>1, LooseFacts
<1>3. p \in S /\ p # Nil /\ (\E d \in Side : t.child[d][p] = k) /\ sub[k] \subseteq sub[p] /\ p \notin sub[k]
  BY <1>1, LooseUp
<1>4. /\ AfterAll(t, sub, val, k) = {x \in S : \A m \in sub[k] : val[m] < val[x]}
      /\ AfterAll(t, sub, val, p) = {x \in S : \A m \in sub[p] : val[m] < val[x]}
  BY <1>1 DEF AfterAll
<1>5. k \in S /\ k \in sub[k] /\ (\A m \in sub[k] : m \in S) /\ (\A m \in sub[p] : m \in S)
  BY <1>1, <1>2, <1>3
<1>6. ASSUME NEW x \in S, x \notin sub[p], \E m \in sub[k] : val[m] < val[x] PROVE \A m \in sub[p] : val[m] < val[x]
  <2>1. Before(val, x, sub[p]) \/ Behind(val, x, sub[p])
    BY <1>1, <1>3, <1>6, Apart
  <2>2. ~ Before(val, x, sub[p])
    <3>1. PICK m \in sub[k] : val[m] < val[x]
      BY <1>6
    <3>2. m \in sub[p] /\ val[m] \in Int /\ val[x] \in Int
      BY <1>2, <1>3, <1>5
    <3>3. ~ (val[x] < val[m])
      BY <3>1, <3>2
    <3> QED
      BY <3>2, <3>3 DEF Before
  <2> QED
    BY <2>1, <2>2 DEF Behind
<1>7. ASSUME t.child[o][p] = k, NEW x \in S, \A m \in sub[k] : val[m] < val[x]
      PROVE  \A m \in sub[p] : val[m] < val[x]
  <2>1. val[k] < val[x]
    BY <1>5, <1>7
  <2>2. x \notin sub[p]
    <3>1. SUFFICES ASSUME x \in sub[p] PROVE FALSE
      OBVIOUS
    <3>2. x \notin sub[k]
      BY <1>2, <1>7
    <3>3. val[p] < val[k] /\ val[p] \in Int /\ val[k] \in Int /\ val[x] \in Int
      BY <1>2, <1>3, <1>5, <1>7
    <3>4. x = p \/ x \in sub[t.child[s][p]]
      BY <1>2, <1>3, <1>7, <3>1, <3>2
    <3>5. x = p \/ val[x] < val[p]
      BY <1>2, <1>3, <3>4
    <3> QED
      BY <2>1, <3>3, <3>5
  <2> QED
    BY <1>5, <1>6, <2>1, <2>2
<1>8. ASSUME t.child[o][p] = k PROVE AfterAll(t, sub, val, k) = AfterAll(t, sub, val, p)
  BY <1>3, <1>4, <1>7, <1>8
<1>9. ASSUME t.child[o][p] # k PROVE Least(val, AfterAll(t, sub, val, k), p)
  <2>1. t.child[s][p] = k
    BY <1>2, <1>3, <1>9
  <2>2. \A m \in sub[k] : val[m] < val[p]
    BY <1>2, <1>3, <2>1
  <2>3. p \in AfterAll(t, sub, val, k)
    BY <1>3, <1>4, <2>2
  <2>4. ASSUME NEW x \in AfterAll(t, sub, val, k) PROVE x = p \/ val[p] < val[x]
    <3>1. x \in S /\ (\A m \in sub[k] : val[m] < val[x]) /\ val[k] < val[x]
      BY <1>4, <1>5
    <3>2. CASE x \in sub[p]
      <4>1. x \notin sub[k]
        BY <1>2, <3>1
      <4>2. x = p \/ x \in sub[t.child[o][p]]
        BY <1>2, <1>3, <2>1, <3>2, <4>1
      <4> QED
        BY <1>2, <1>3, <4>2
    <3>3. CASE x \notin sub[p]
      BY <1>2, <1>3, <1>5, <1>6, <3>1, <3>3
    <3> QED
      BY <3>2, <3>3
  <2> QED
    BY <2>3, <2>4 DEF Least
<1> QED
  BY <1>1, <1>8, <1>9

(* climb of rb_next and rb_prev, for every key. *)
Climbs(t, o, f) ==
  f = [k \in Key |-> LET parent == t.parent[k]
                     IN  IF parent # Nil /\ k = t.child[o][parent] THEN f[parent] ELSE parent]

(* Climbing leads to the next node above, or out of the tree. *)
LEMMA LooseClimb ==
  ASSUME NEW t, NEW sub, NEW val, NEW s, LooseTree(t, sub, val, s),
         NEW G, G = CHOOSE f : Climbs(t, Other(s), f)
  PROVE  /\ \A k \in sub[t.root] : G[k] = NextIn(val, AfterAll(t, sub, val, k))
         /\ \A k \in Key \ sub[t.root] : G[k] = t.parent[k]
<1>1. PICK S, o : S = sub[t.root] /\ o = Other(s)
  OBVIOUS
<1>2. /\ o \in Side /\ Nil \notin Key /\ S \in SUBSET Key /\ Nil \notin S /\ sub[Nil] = {}
      /\ IsFiniteSet(S) /\ val \in Values
      /\ \A k \in S : k \in sub[k] /\ val[k] \in Int
      /\ \A k \in Key : t.parent[k] \in S \cup {Nil} /\ t.child[o][k] \in S \cup {Nil}
  BY <1>1, LooseFacts
<1>3. t.root # Nil => t.parent[t.root] = Nil
  BY DEF LooseTree
<1>4. PICK next : next = [k \in S |-> NextIn(val, AfterAll(t, sub, val, k))]
  OBVIOUS
<1>5. ASSUME NEW k \in S
      PROVE  /\ AfterAll(t, sub, val, k) = {} => next[k] = Nil
             /\ \A f : Least(val, AfterAll(t, sub, val, k), f) => next[k] = f
  <2>1. PICK X : X = AfterAll(t, sub, val, k)
    OBVIOUS
  <2>2. X \subseteq S
    BY <1>1, <2>1 DEF AfterAll
  <2>3. X \in SUBSET Key /\ IsFiniteSet(X)
    BY <1>2, <2>2, FS_Subset
  <2>4. (X = {} => NextIn(val, X) = Nil) /\ \A f : Least(val, X, f) => NextIn(val, X) = f
    BY <1>2, <2>3, NextIs
  <2> QED
    BY <1>4, <2>1, <2>4
<1>6. ASSUME t.root \in S PROVE next[t.root] = Nil
  <2>1. AfterAll(t, sub, val, t.root) = {}
    <3>1. \A x \in S : ~ (val[x] < val[x])
      BY <1>2
    <3> QED
      BY <1>1, <3>1 DEF AfterAll
  <2> QED
    BY <1>5, <1>6, <2>1
<1>7. ASSUME NEW k \in S PROVE next[k] = IF t.parent[k] # Nil /\ k = t.child[o][t.parent[k]] THEN next[t.parent[k]] ELSE t.parent[k]
  <2>1. PICK p : p = t.parent[k]
    OBVIOUS
  <2>2. CASE k = t.root
    <3>1. p = Nil
      BY <1>2, <1>3, <2>1, <2>2
    <3> QED
      BY <1>6, <2>1, <2>2, <3>1
  <2>3. CASE k # t.root
    <3>1. p \in S /\ p # Nil
      BY <1>1, <2>1, <2>3, LooseUp
    <3>2. /\ t.child[o][p] = k => AfterAll(t, sub, val, k) = AfterAll(t, sub, val, p)
          /\ t.child[o][p] # k => Least(val, AfterAll(t, sub, val, k), p)
      BY <1>1, <2>1, <2>3, AfterAllUp
    <3>3. t.child[o][p] = k => next[k] = next[p]
      BY <1>4, <3>1, <3>2
    <3>4. t.child[o][p] # k => next[k] = p
      BY <1>5, <3>2
    <3> QED
      BY <2>1, <3>1, <3>3, <3>4
  <2> QED
    BY <2>2, <2>3
<1>8. PICK e : e = [k \in Key |-> IF k \in S THEN next[k] ELSE t.parent[k]]
  OBVIOUS
<1>9. ASSUME NEW k \in Key PROVE e[k] = IF t.parent[k] # Nil /\ k = t.child[o][t.parent[k]] THEN e[t.parent[k]] ELSE t.parent[k]
  <2>1. CASE k \in S
    <3>1. e[k] = next[k] /\ (t.parent[k] # Nil => e[t.parent[k]] = next[t.parent[k]])
      BY <1>2, <1>8, <2>1
    <3> QED
      BY <1>7, <2>1, <3>1
  <2>2. CASE k \notin S
    <3>1. ~ (t.parent[k] # Nil /\ k = t.child[o][t.parent[k]])
      BY <1>2, <2>2
    <3> QED
      BY <1>8, <2>2, <3>1
  <2> QED
    BY <2>1, <2>2
<1>10. Climbs(t, o, e)
  <2>1. e = [k \in Key |-> e[k]]
    BY <1>8
  <2> QED
    BY <1>9, <2>1, Zenon DEF Climbs
<1>11. Climbs(t, o, G)
  BY <1>1, <1>10
<1>12. \A k \in Key : G[k] = IF t.parent[k] # Nil /\ k = t.child[o][t.parent[k]] THEN G[t.parent[k]] ELSE t.parent[k]
  BY <1>11, Zenon DEF Climbs
<1> DEFINE Bad == {k \in S : G[k] # next[k]}
<1>13. ASSUME NEW k \in Bad PROVE k # t.root /\ t.parent[k] \in Bad
  <2>1. k \in S /\ k \in Key /\ G[k] # next[k]
    BY <1>2
  <2>2. t.parent[k] # Nil /\ k = t.child[o][t.parent[k]]
    BY <1>7, <1>12, <2>1
  <2>3. G[k] = G[t.parent[k]] /\ next[k] = next[t.parent[k]]
    BY <1>7, <1>12, <2>1, <2>2
  <2>4. t.parent[k] \in S /\ k # t.root
    BY <1>2, <1>3, <2>1, <2>2
  <2> QED
    BY <2>1, <2>3, <2>4
<1>14. Bad = {}
  <2>1. Bad \subseteq sub[t.root]
    BY <1>1
  <2>2. t.root \notin Bad /\ \A k \in Bad : t.parent[k] \in Bad
    BY <1>13
  <2> HIDE DEF Bad
  <2> QED
    BY <2>1, <2>2, LooseNoneUpward
<1>15. ASSUME NEW k \in Key \ S PROVE G[k] = t.parent[k]
  <2>1. ~ (t.parent[k] # Nil /\ k = t.child[o][t.parent[k]])
    BY <1>2
  <2> QED
    BY <1>12, <2>1
<1> QED
  BY <1>1, <1>4, <1>14, <1>15

(* The step of rb_next and rb_prev, by its two cases. *)
LEMMA StepIs ==
  ASSUME NEW t, NEW n \in Key, NEW s, NEW G, G = CHOOSE f : Climbs(t, Other(s), f)
  PROVE  Step(t, n, s) =
           IF t.parent[n] = n THEN Nil
           ELSE IF t.child[Other(s)][n] # Nil THEN Outermost(t, t.child[Other(s)][n], s)
           ELSE G[n]
<1> DEFINE climb == CHOOSE f : f = [k \in Key |->
                      LET parent == t.parent[k]
                      IN  IF parent # Nil /\ k = t.child[Other(s)][parent] THEN f[parent] ELSE parent]
<1>1. G = climb
  BY DEF Climbs
<1>2. Step(t, n, s) =
        CASE t.parent[n] = n -> Nil
          [] t.parent[n] # n /\ t.child[Other(s)][n] # Nil -> Outermost(t, t.child[Other(s)][n], s)
          [] OTHER -> climb[n]
  BY Zenon DEF Step
<1> HIDE DEF climb
<1>3. CASE t.parent[n] = n
  BY ONLY <1>2, <1>3
<1>4. CASE t.parent[n] # n /\ t.child[Other(s)][n] # Nil
  BY ONLY <1>2, <1>4
<1>5. CASE t.parent[n] # n /\ t.child[Other(s)][n] = Nil
  BY ONLY <1>1, <1>2, <1>5
<1> QED
  BY <1>3, <1>4, <1>5

(* A step leads to the next node in order. *)
LEMMA LooseStep ==
  ASSUME NEW t, NEW sub, NEW val, NEW s, LooseTree(t, sub, val, s)
  PROVE  /\ \A k \in sub[t.root] : Step(t, k, s) = NextIn(val, Later(t, sub, val, k))
         /\ \A k \in Key : Step(t, k, s) \in sub[t.root] \cup {Nil}
<1>1. PICK S, o : S = sub[t.root] /\ o = Other(s)
  OBVIOUS
<1>2. /\ s \in Side /\ o \in Side /\ Nil \notin Key /\ S \in SUBSET Key /\ Nil \notin S /\ sub[Nil] = {}
      /\ IsFiniteSet(S) /\ val \in Values
      /\ \A k \in S : /\ sub[k] = {k} \cup sub[t.child[s][k]] \cup sub[t.child[o][k]]
                      /\ sub[k] \subseteq S /\ k \in sub[k]
                      /\ \A m \in sub[t.child[s][k]] : val[m] < val[k]
                      /\ \A m \in sub[t.child[o][k]] : val[k] < val[m]
      /\ \A k \in Key : t.parent[k] \in S \cup {Nil} /\ t.child[o][k] \in S \cup {Nil}
      /\ \A k \in S : val[k] \in Int
  BY <1>1, LooseFacts
<1>3. t.root # Nil => t.parent[t.root] = Nil
  BY DEF LooseTree
<1>4. ASSUME NEW k \in Key PROVE t.parent[k] # k
  <2>1. CASE k \in S /\ k # t.root
    <3>1. t.parent[k] \notin sub[k] /\ k \in sub[k]
      BY <1>1, <1>2, <2>1, LooseUp
    <3> QED
      BY <3>1
  <2>2. CASE k = t.root
    BY <1>2, <1>3, <2>2
  <2>3. CASE k \notin S
    BY <1>2, <2>3
  <2> QED
    BY <2>1, <2>2, <2>3
<1>5. PICK G : G = CHOOSE f : Climbs(t, o, f)
  OBVIOUS
<1>6. /\ \A k \in S : G[k] = NextIn(val, AfterAll(t, sub, val, k))
      /\ \A k \in Key \ S : G[k] = t.parent[k]
  BY <1>1, <1>5, LooseClimb
<1>7. ASSUME NEW k \in Key
      PROVE  Step(t, k, s) = IF t.child[o][k] # Nil THEN Outermost(t, t.child[o][k], s) ELSE G[k]
  BY <1>1, <1>4, <1>5, StepIs
<1>8. \A c \in S : Outermost(t, c, s) = NextIn(val, sub[c]) /\ Outermost(t, c, s) \in sub[c]
  BY <1>1, LooseOutermost
<1>9. ASSUME NEW X \in SUBSET S
      PROVE  /\ X = {} => NextIn(val, X) = Nil
             /\ X # {} => Least(val, X, NextIn(val, X)) /\ NextIn(val, X) \in X
             /\ \A f : Least(val, X, f) => NextIn(val, X) = f
  <2>1. X \in SUBSET Key /\ IsFiniteSet(X)
    BY <1>2, FS_Subset
  <2> QED
    BY <1>2, <2>1, NextIs
<1>10. ASSUME NEW k \in S, t.child[o][k] # Nil PROVE Step(t, k, s) = NextIn(val, Later(t, sub, val, k))
  <2>1. PICK c, f : c = t.child[o][k] /\ f = NextIn(val, sub[c])
    OBVIOUS
  <2>2. c \in S /\ k \in Key /\ Step(t, k, s) = f /\ f \in sub[c]
    BY <1>2, <1>7, <1>8, <1>10, <2>1
  <2>3. Least(val, sub[c], f)
    BY <1>2, <1>9, <2>1, <2>2
  <2>4. f \in S /\ val[k] < val[f] /\ val[k] \in Int /\ val[f] \in Int
    BY <1>2, <2>1, <2>2
  <2>5. ASSUME NEW x \in S, val[k] < val[x] PROVE x = f \/ val[f] < val[x]
    <3>1. CASE x \in sub[k]
      <4>1. x \notin sub[t.child[s][k]] /\ x # k
        <5>1. val[x] \in Int
          BY <1>2
        <5>2. ~ (val[x] < val[k]) /\ val[x] # val[k]
          BY <2>4, <2>5, <5>1
        <5> QED
          BY <1>2, <5>2
      <4>2. x \in sub[c]
        BY <1>2, <2>1, <3>1, <4>1
      <4> QED
        BY <2>3, <4>2 DEF Least
    <3>2. CASE x \notin sub[k]
      <4>1. Before(val, x, sub[k]) \/ Behind(val, x, sub[k])
        BY <1>1, <3>2, Apart
      <4>2. ~ (val[x] < val[k])
        BY <1>2, <2>4, <2>5
      <4>3. Behind(val, x, sub[k]) /\ f \in sub[k]
        BY <1>2, <2>1, <2>2, <4>1, <4>2 DEF Before
      <4> QED
        BY <4>3 DEF Behind
    <3> QED
      BY <3>1, <3>2
  <2>6. Least(val, Later(t, sub, val, k), f)
    BY <1>1, <2>4, <2>5 DEF Least, Later
  <2>7. Later(t, sub, val, k) \in SUBSET S
    BY <1>1 DEF Later
  <2> QED
    BY <1>9, <2>2, <2>6, <2>7
<1>11. ASSUME NEW k \in S, t.child[o][k] = Nil PROVE Step(t, k, s) = NextIn(val, Later(t, sub, val, k))
  <2>1. Step(t, k, s) = NextIn(val, AfterAll(t, sub, val, k))
    BY <1>2, <1>6, <1>7, <1>11
  <2>2. ASSUME NEW x \in S, val[k] < val[x] PROVE \A m \in sub[k] : val[m] < val[x]
    <3> TAKE m \in sub[k]
    <3>1. m = k \/ val[m] < val[k]
      BY <1>2, <1>11
    <3>2. val[m] \in Int /\ val[k] \in Int /\ val[x] \in Int
      BY <1>2
    <3> QED
      BY <2>2, <3>1, <3>2
  <2>3. AfterAll(t, sub, val, k) = Later(t, sub, val, k)
    BY <1>1, <1>2, <2>2 DEF AfterAll, Later
  <2> QED
    BY <2>1, <2>3
<1>12. ASSUME NEW k \in Key PROVE Step(t, k, s) \in S \cup {Nil}
  <2>1. CASE k \in S
    <3>1. Step(t, k, s) = NextIn(val, Later(t, sub, val, k))
      BY <1>10, <1>11, <2>1
    <3>2. Later(t, sub, val, k) \in SUBSET S
      BY <1>1 DEF Later
    <3> QED
      BY <1>9, <3>1, <3>2
  <2>2. CASE k \notin S /\ t.child[o][k] # Nil
    <3>1. t.child[o][k] \in S
      BY <1>2, <2>2
    <3> QED
      BY <1>2, <1>7, <1>8, <2>2, <3>1
  <2>3. CASE k \notin S /\ t.child[o][k] = Nil
    BY <1>2, <1>6, <1>7, <2>3
  <2> QED
    BY <2>1, <2>2, <2>3
<1> QED
  BY <1>1, <1>10, <1>11, <1>12

(* Fewer nodes are left after the next one. *)
LEMMA LaterShrinks ==
  ASSUME NEW t, NEW sub, NEW val, NEW s, LooseTree(t, sub, val, s), NEW k \in sub[t.root],
         NEW L, L = Later(t, sub, val, k), NEW f, f = NextIn(val, L)
  PROVE  /\ L \in SUBSET sub[t.root] /\ k \notin L
         /\ L = {} => f = Nil
         /\ L # {} => /\ f \in sub[t.root] /\ f # Nil
                      /\ L = Later(t, sub, val, f) \cup {f} /\ f \notin Later(t, sub, val, f)
<1>1. PICK S : S = sub[t.root]
  OBVIOUS
<1>2. S \in SUBSET Key /\ IsFiniteSet(S) /\ val \in Values /\ Nil \notin S /\ \A j \in S : val[j] \in Int
  BY <1>1, LooseFacts
<1>3. \A j \in S : Later(t, sub, val, j) = {x \in S : val[j] < val[x]}
  BY <1>1 DEF Later
<1>4. L = {x \in S : val[k] < val[x]}
  BY <1>1, <1>3
<1>5. L \in SUBSET S /\ k \notin L
  BY <1>1, <1>2, <1>4
<1>6. L \in SUBSET Key /\ IsFiniteSet(L)
  BY <1>2, <1>5, FS_Subset
<1>7. /\ L = {} => f = Nil
      /\ L # {} => Least(val, L, f) /\ f \in L
  BY <1>2, <1>6, NextIs
<1>8. ASSUME L # {}
      PROVE  /\ f \in S /\ f # Nil
             /\ L = Later(t, sub, val, f) \cup {f} /\ f \notin Later(t, sub, val, f)
  <2>1. f \in L /\ f \in S /\ \A m \in L : m = f \/ val[f] < val[m]
    BY <1>5, <1>7, <1>8 DEF Least
  <2>2. Later(t, sub, val, f) = {x \in S : val[f] < val[x]}
    BY <1>3, <2>1
  <2>3. val[k] < val[f] /\ val[k] \in Int /\ val[f] \in Int
    BY <1>1, <1>2, <1>4, <2>1
  <2>4. ASSUME NEW x \in S, val[f] < val[x] PROVE val[k] < val[x]
    BY <1>2, <2>3, <2>4
  <2>5. L = Later(t, sub, val, f) \cup {f}
    BY <1>4, <2>1, <2>2, <2>4
  <2>6. f \notin Later(t, sub, val, f)
    BY <2>2, <2>3
  <2> QED
    BY <1>2, <2>1, <2>5, <2>6
<1> QED
  BY <1>1, <1>5, <1>7, <1>8

(* A list of a node and those after it. *)
ListFrom(t, sub, val, k) == CHOOSE q : Listing(val, Later(t, sub, val, k) \cup {k}, q)

(* The nodes from one on are listed by it and what follows the next. *)
LEMMA ListFromIs ==
  ASSUME NEW t, NEW sub, NEW val, NEW s, LooseTree(t, sub, val, s), NEW k \in sub[t.root],
         NEW f, f = NextIn(val, Later(t, sub, val, k))
  PROVE  /\ Listing(val, Later(t, sub, val, k) \cup {k}, ListFrom(t, sub, val, k))
         /\ f # Nil => f \in sub[t.root]
         /\ ListFrom(t, sub, val, k) = <<k>> \o (IF f = Nil THEN << >> ELSE ListFrom(t, sub, val, f))
<1>1. PICK S : S = sub[t.root]
  OBVIOUS
<1>2. S \in SUBSET Key /\ IsFiniteSet(S) /\ val \in Values /\ Nil \notin S /\ \A j \in S : val[j] \in Int
  BY <1>1, LooseFacts
<1>3. PICK after, next : /\ after = [j \in S |-> Later(t, sub, val, j)]
                         /\ next = [j \in S |-> NextIn(val, Later(t, sub, val, j))]
  OBVIOUS
<1>4. ASSUME NEW j \in S
      PROVE  /\ after[j] \in SUBSET S /\ j \notin after[j]
             /\ after[j] = {} => next[j] = Nil
             /\ after[j] # {} => /\ next[j] \in S /\ next[j] # Nil
                                 /\ after[j] = after[next[j]] \cup {next[j]}
                                 /\ next[j] \notin after[next[j]]
  BY <1>1, <1>3, LaterShrinks
<1>5. \A j \in S : \A m \in after[j] : val[j] < val[m]
  BY <1>1, <1>3 DEF Later
<1>6. ASSUME NEW j \in S, NEW q, IF after[j] = {} THEN q = << >> ELSE Listing(val, after[next[j]] \cup {next[j]}, q)
      PROVE  Listing(val, after[j] \cup {j}, <<j>> \o q)
  <2>1. Listing(val, after[j], q)
    <3>1. CASE after[j] = {}
      BY <1>6, <3>1, ListingEmpty
    <3>2. CASE after[j] # {}
      BY <1>4, <1>6, <3>2
    <3> QED
      BY <3>1, <3>2
  <2>2. after[j] \in SUBSET Key /\ j \in Key /\ \A m \in after[j] : val[j] < val[m]
    BY <1>2, <1>4, <1>5
  <2> QED
    BY <1>2, <2>1, <2>2, ListingPrepend
<1> DEFINE Bad == {j \in S : ~ \E q : Listing(val, after[j] \cup {j}, q)}
<1>7. Bad = {}
  <2>1. \A j \in Bad : after[j] \subseteq S
    BY <1>4
  <2>2. ASSUME NEW j \in Bad PROVE \E i \in Bad : after[i] \subseteq after[j] /\ after[i] # after[j]
    <3>1. j \in S /\ ~ \E q : Listing(val, after[j] \cup {j}, q)
      OBVIOUS
    <3>2. after[j] # {}
      BY <1>6, <3>1
    <3>3. /\ next[j] \in S /\ after[j] = after[next[j]] \cup {next[j]}
          /\ next[j] \notin after[next[j]]
      BY <1>4, <3>1, <3>2
    <3>4. ~ \E q : Listing(val, after[next[j]] \cup {next[j]}, q)
      BY <1>6, <3>1, <3>2
    <3> QED
      BY <3>3, <3>4
  <2> HIDE DEF Bad
  <2> QED
    BY ONLY <1>2, <2>1, <2>2, NoneSmaller
<1>8. ASSUME NEW j \in S PROVE Listing(val, after[j] \cup {j}, ListFrom(t, sub, val, j))
  BY <1>3, <1>7 DEF ListFrom
<1>9. k \in S /\ f = next[k] /\ after[k] = Later(t, sub, val, k)
  BY <1>1, <1>3
<1>10. f # Nil => f \in S
  BY <1>4, <1>9
<1>11. PICK rest : rest = IF f = Nil THEN << >> ELSE ListFrom(t, sub, val, f)
  OBVIOUS
<1>12. Listing(val, after[k] \cup {k}, <<k>> \o rest)
  <2>1. IF after[k] = {} THEN rest = << >> ELSE Listing(val, after[next[k]] \cup {next[k]}, rest)
    <3>1. CASE after[k] = {}
      BY <1>4, <1>9, <1>11, <3>1
    <3>2. CASE after[k] # {}
      BY <1>4, <1>8, <1>9, <1>11, <3>2
    <3> QED
      BY <3>1, <3>2
  <2> QED
    BY <1>6, <1>9, <2>1
<1>13. ListFrom(t, sub, val, k) = <<k>> \o rest
  <2>1. after[k] \cup {k} \in SUBSET Key
    BY <1>2, <1>4, <1>9
  <2>2. Listing(val, after[k] \cup {k}, ListFrom(t, sub, val, k))
    BY <1>8, <1>9
  <2> QED
    BY <1>2, <1>12, <2>1, <2>2, ListingUnique
<1> QED
  BY <1>1, <1>8, <1>9, <1>10, <1>11, <1>13

(* A walk lists the nodes of the tree in order. *)
LEMMA LooseWalk ==
  ASSUME NEW t, NEW sub, NEW val, NEW s, LooseTree(t, sub, val, s)
  PROVE  Listing(val, sub[t.root], Walk(t, s))
<1>1. PICK S : S = sub[t.root]
  OBVIOUS
<1>2. /\ S \in SUBSET Key /\ IsFiniteSet(S) /\ val \in Values /\ Nil \notin S /\ Nil \notin Key /\ sub[Nil] = {}
      /\ \A j \in S : val[j] \in Int /\ sub[j] \subseteq S
  BY <1>1, LooseFacts
<1>3. PICK step, list : /\ step = [k \in Key |-> Step(t, k, s)]
                        /\ list = [k \in S \cup {Nil} |-> IF k = Nil THEN << >> ELSE ListFrom(t, sub, val, k)]
  OBVIOUS
<1>4. \A k \in Key : step[k] \in S \cup {Nil}
  BY Zenon, <1>1, <1>3, LooseStep
<1>5. list[Nil] = << >> /\ \A k \in S : list[k] = ListFrom(t, sub, val, k)
  BY <1>2, <1>3
<1>6. ASSUME NEW k \in S
      PROVE  /\ Listing(val, Later(t, sub, val, k) \cup {k}, list[k])
             /\ list[k] = <<k>> \o list[step[k]]
  <2>1. step[k] = NextIn(val, Later(t, sub, val, k)) /\ step[k] \in S \cup {Nil}
    BY <1>1, <1>2, <1>3, <1>4, LooseStep
  <2>2. PICK f : f = step[k]
    OBVIOUS
  <2>3. /\ Listing(val, Later(t, sub, val, k) \cup {k}, ListFrom(t, sub, val, k))
        /\ ListFrom(t, sub, val, k) = <<k>> \o (IF f = Nil THEN << >> ELSE ListFrom(t, sub, val, f))
    BY SMTT(30), <1>1, <2>1, <2>2, ListFromIs
  <2>4. list[f] = IF f = Nil THEN << >> ELSE ListFrom(t, sub, val, f)
    BY <1>5, <2>1, <2>2
  <2> QED
    BY <1>5, <2>2, <2>3, <2>4
<1> DEFINE Walks(f) == f = [k \in Key \cup {Nil} |-> IF k = Nil THEN << >> ELSE <<k>> \o f[Step(t, k, s)]]
           G == CHOOSE f : Walks(f)
<1>7. Walk(t, s) = G[EndOf(t, s)]
  BY DEF Walk
<1>8. PICK e : e = [k \in Key \cup {Nil} |-> IF k = Nil THEN << >> ELSE <<k>> \o list[step[k]]]
  OBVIOUS
<1>9. \A k \in S \cup {Nil} : e[k] = list[k]
  BY <1>2, <1>5, <1>6, <1>8
<1>10. Walks(e)
  <2>1. \A k \in Key : e[k] = <<k>> \o e[Step(t, k, s)]
    BY Zenon, <1>2, <1>3, <1>4, <1>8, <1>9
  <2>2. \A k \in Key \cup {Nil} : e[k] = IF k = Nil THEN << >> ELSE <<k>> \o e[Step(t, k, s)]
    BY Zenon, <1>2, <1>8, <2>1
  <2>3. e = [k \in Key \cup {Nil} |-> e[k]]
    BY Zenon, <1>8
  <2> QED
    BY <2>2, <2>3, Zenon
<1>11. Walks(G)
  <2> HIDE DEF Walks
  <2> QED
    BY <1>10
<1> HIDE DEF G
<1>12. G[Nil] = << >> /\ \A k \in Key : G[k] = <<k>> \o G[step[k]]
  <2>1. \A k \in Key \cup {Nil} : G[k] = IF k = Nil THEN << >> ELSE <<k>> \o G[Step(t, k, s)]
    BY <1>11, Zenon
  <2> QED
    BY <1>2, <1>3, <2>1
<1> DEFINE Bad == {k \in S : G[k] # list[k]}
           after == [k \in S |-> Later(t, sub, val, k)]
<1>13. Bad = {}
  <2>1. ASSUME NEW k \in Bad PROVE after[k] \subseteq S
    <3>1. k \in S /\ after[k] = Later(t, sub, val, k)
      OBVIOUS
    <3> QED
      BY <1>1, <3>1 DEF Later
  <2>2. ASSUME NEW k \in Bad PROVE \E j \in Bad : after[j] \subseteq after[k] /\ after[j] # after[k]
    <3>1. k \in S /\ k \in Key /\ G[k] # list[k]
      BY <1>2
    <3>2. G[step[k]] # list[step[k]]
      BY <1>6, <1>12, <3>1
    <3>3. step[k] # Nil /\ step[k] \in S
      BY <1>4, <1>5, <1>12, <3>1, <3>2
    <3>4. step[k] = NextIn(val, Later(t, sub, val, k))
      BY <1>1, <1>3, <3>1, LooseStep
    <3>5. /\ Later(t, sub, val, k) = Later(t, sub, val, step[k]) \cup {step[k]}
          /\ step[k] \notin Later(t, sub, val, step[k])
      BY <1>1, <3>1, <3>3, <3>4, LaterShrinks
    <3>6. step[k] \in Bad
      BY <3>2, <3>3
    <3>7. after[k] = Later(t, sub, val, k) /\ after[step[k]] = Later(t, sub, val, step[k])
      BY <3>1, <3>3
    <3> QED
      BY <3>5, <3>6, <3>7
  <2> HIDE DEF Bad, after
  <2> QED
    BY ONLY <1>2, <2>1, <2>2, NoneSmaller
<1>14. CASE t.root = Nil
  <2>1. S = {} /\ Walk(t, s) = << >>
    BY <1>1, <1>2, <1>7, <1>12, <1>14 DEF EndOf
  <2> QED
    BY <1>1, <2>1, ListingEmpty
<1>15. CASE t.root # Nil
  <2>1. t.root \in S
    BY <1>1, <1>15 DEF LooseTree
  <2>2. PICK f : f = Outermost(t, t.root, s)
    OBVIOUS
  <2>3. f = NextIn(val, S) /\ f \in S
    BY <1>1, <2>1, <2>2, LooseOutermost
  <2>4. Walk(t, s) = list[f]
    BY <1>7, <1>13, <1>15, <2>2, <2>3 DEF EndOf
  <2>5. Least(val, S, f)
    BY <1>2, <2>1, <2>3, NextIs
  <2>6. Later(t, sub, val, f) \cup {f} = S
    BY <1>1, <2>5 DEF Least, Later
  <2> QED
    BY <1>1, <1>6, <2>3, <2>4, <2>6
<1> QED
  BY <1>14, <1>15

-----------------------------------------------------------------------------
(* Search trees are walked both ways. *)
Upwards == [k \in Key |-> k]
Downwards == [k \in Key |-> 0 - k]

(* The two orders of a search tree as values. *)
LEMMA WaysAreValues ==
  /\ Upwards \in Values /\ Downwards \in Values
  /\ \A k \in Key : k \in Int /\ Upwards[k] = k /\ Downwards[k] = 0 - k
<1>1. \A k \in Key : k \in Int
  BY KeyAssumption
<1>2. \A k \in Key : Upwards[k] = k /\ Downwards[k] = 0 - k
  BY DEF Upwards, Downwards
<1>3. Upwards \in [Key -> Int] /\ Downwards \in [Key -> Int]
  BY <1>1 DEF Upwards, Downwards
<1>4. \A j, k \in Key : Downwards[j] = Downwards[k] => j = k
  BY <1>1, <1>2
<1> QED
  BY <1>1, <1>2, <1>3, <1>4 DEF Values

(* A search tree is such a tree, from either side. *)
LEMMA SearchTreeLoose ==
  ASSUME NEW t, NEW sub, SearchTree(t, sub)
  PROVE  LooseTree(t, sub, Downwards, "left") /\ LooseTree(t, sub, Upwards, "right")
<1>1. PICK S : S = sub[t.root]
  OBVIOUS
<1>2. /\ t \in Tree /\ IsBelow(t, sub) /\ Sorted(t, sub) /\ Tied(t, sub) /\ Nil \notin Key
  BY KeyAssumption DEF SearchTree
<1>3. /\ S \in SUBSET Key /\ sub[Nil] = {} /\ sub \in [Nodes -> SUBSET Key]
      /\ \A k \in Key : k \in sub[k]
      /\ \A k \in S, d \in Side : t.child[d][k] \in S \cup {Nil}
      /\ \A k \in Nodes : sub[k] \in SUBSET Key
      /\ t.root \in Nodes
  BY <1>1, <1>2, TreeFacts, TreeFields DEF IsBelow
<1>4. IsFiniteSet(S) /\ t.root \in S \cup {Nil}
  BY <1>1, <1>2, <1>3 DEF Tied, Nodes
<1>5. Other("left") = "right" /\ Other("right") = "left" /\ "left" \in Side /\ "right" \in Side
  BY DEF Other, Side
<1>6. ASSUME NEW k \in S
      PROVE  /\ sub[k] = {k} \cup sub[t.child["left"][k]] \cup sub[t.child["right"][k]]
             /\ sub[k] \subseteq S
             /\ \A m \in sub[t.child["left"][k]] : m \in Key /\ m > k
             /\ \A m \in sub[t.child["right"][k]] : m \in Key /\ m < k
             /\ \A d \in Side : t.child[d][k] # Nil => t.parent[t.child[d][k]] = k
  <2>1. k \in Key /\ sub[k] \in SUBSET Key
    BY <1>3 DEF Nodes
  <2>2. sub[k] = {k} \cup sub[t.child["left"][k]] \cup sub[t.child["right"][k]]
    BY <1>2, <2>1 DEF IsBelow
  <2>3. \A m \in sub[t.child["left"][k]] : m > k
    BY <1>2, <1>5, <2>1 DEF Sorted, OnSide
  <2>4. \A m \in sub[t.child["right"][k]] : m < k
    BY <1>2, <1>5, <2>1 DEF Sorted, OnSide
  <2>5. sub[k] \subseteq S /\ \A d \in Side : t.child[d][k] # Nil => t.parent[t.child[d][k]] = k
    BY <1>1, <1>2 DEF Tied
  <2> QED
    BY <2>1, <2>2, <2>3, <2>4, <2>5
<1>7. ASSUME NEW k \in Key
      PROVE  t.parent[k] \in S \cup {Nil} /\ \A d \in Side : t.child[d][k] \in S \cup {Nil}
  <2>1. CASE k \in S
    <3>1. k # t.root => t.parent[k] \in S
      BY <1>1, <1>2, <2>1 DEF Tied
    <3>2. k = t.root => t.parent[k] = Nil
      BY <1>2, <1>7 DEF Tied
    <3> QED
      BY <1>3, <2>1, <3>1, <3>2
  <2>2. CASE k \notin S
    BY <1>1, <1>2, <1>7, <2>2 DEF Tied
  <2> QED
    BY <2>1, <2>2
<1>8. /\ t.root # Nil => t.parent[t.root] = Nil
      /\ \A k \in S \ {t.root} : t.parent[k] \in S /\ \E d \in Side : t.child[d][t.parent[k]] = k
  BY <1>1, <1>2 DEF Tied
<1>9. \A k \in S \ {t.root} : t.parent[k] # Nil /\ \E d \in Side : t.child[d][t.parent[k]] = k
  BY Zenon, <1>2, <1>3, <1>8
<1>10. ASSUME NEW k \in S
       PROVE  /\ \A m \in sub[t.child["left"][k]] : Downwards[m] < Downwards[k] /\ Upwards[k] < Upwards[m]
              /\ \A m \in sub[t.child["right"][k]] : Downwards[k] < Downwards[m] /\ Upwards[m] < Upwards[k]
  BY <1>3, <1>6, WaysAreValues
<1>11. LooseTree(t, sub, Downwards, "left")
  BY <1>1, <1>2, <1>3, <1>4, <1>5, <1>6, <1>7, <1>8, <1>9, <1>10, WaysAreValues DEF LooseTree
<1>12. LooseTree(t, sub, Upwards, "right")
  BY <1>1, <1>2, <1>3, <1>4, <1>5, <1>6, <1>7, <1>8, <1>9, <1>10, WaysAreValues DEF LooseTree
<1> QED
  BY <1>11, <1>12

(* Listed backwards, a set is in the opposite order. *)
LEMMA ReverseListing ==
  ASSUME NEW X \in SUBSET Key, NEW q, Listing(Downwards, X, q)
  PROVE  Listing(Upwards, X, Reverse(q))
<1>1. /\ q \in Seq(X) /\ Len(q) \in Nat /\ q \in [1 .. Len(q) -> X]
      /\ \A i \in 1 .. Len(q) : q[i] \in X /\ q[i] \in Key
      /\ \A m \in X : \E i \in 1 .. Len(q) : q[i] = m
      /\ \A i, j \in 1 .. Len(q) : i < j => Downwards[q[i]] < Downwards[q[j]]
  BY LenProperties, ElementOfSeq DEF Listing
<1>2. PICK n \in Nat : n = Len(q)
  BY <1>1
<1>3. PICK r : r = [i \in 1 .. n |-> q[(n - i) + 1]]
  OBVIOUS
<1>4. Reverse(q) = r
  BY <1>2, <1>3 DEF Reverse
<1>5. \A i \in 1 .. n : (n - i) + 1 \in 1 .. n /\ r[i] = q[(n - i) + 1] /\ r[i] \in X
  BY <1>1, <1>2, <1>3
<1>6. r \in Seq(X) /\ Len(r) = n
  <2>1. r \in [1 .. n -> X]
    BY <1>3, <1>5
  <2>2. r \in Seq(X)
    BY <1>2, <2>1, IsASeq
  <2> QED
    BY <1>2, <2>1, <2>2, LenProperties
<1>7. ASSUME NEW m \in X PROVE \E i \in 1 .. n : r[i] = m
  <2>1. PICK i \in 1 .. n : q[i] = m
    BY <1>1, <1>2
  <2>2. (n - i) + 1 \in 1 .. n /\ (n - ((n - i) + 1)) + 1 = i
    BY <1>2
  <2>3. r[(n - i) + 1] = q[(n - ((n - i) + 1)) + 1]
    BY <1>5, <2>2
  <2> QED
    BY <2>1, <2>2, <2>3
<1>8. ASSUME NEW i \in 1 .. n, NEW j \in 1 .. n, i < j PROVE Upwards[r[i]] < Upwards[r[j]]
  <2>1. PICK a, b : a = (n - i) + 1 /\ b = (n - j) + 1
    OBVIOUS
  <2>2. a \in 1 .. n /\ b \in 1 .. n /\ b < a /\ r[i] = q[a] /\ r[j] = q[b]
    BY <1>2, <1>5, <1>8, <2>1
  <2>3. Downwards[q[b]] < Downwards[q[a]] /\ q[a] \in Key /\ q[b] \in Key
    BY <1>1, <1>2, <2>2
  <2>4. 0 - q[b] < 0 - q[a] /\ q[a] \in Int /\ q[b] \in Int /\ Upwards[q[a]] = q[a] /\ Upwards[q[b]] = q[b]
    BY <2>3, WaysAreValues
  <2>5. q[a] < q[b]
    BY <2>4
  <2> QED
    BY <2>2, <2>4, <2>5
<1> QED
  BY <1>4, <1>6, <1>7, <1>8 DEF Listing

(* Both walks of a search tree meet its nodes in order. *)
LEMMA WalksSound ==
  ASSUME NEW t, NEW sub, SearchTree(t, sub)
  PROVE  WalksInOrder(t)
<1>1. LooseTree(t, sub, Downwards, "left") /\ LooseTree(t, sub, Upwards, "right")
  BY SearchTreeLoose
<1>2. PICK S : S = sub[t.root] /\ S \in SUBSET Key
  BY <1>1, LooseFacts
<1>3. PICK q : q = Walk(t, "left")
  OBVIOUS
<1>4. Listing(Downwards, S, q) /\ Listing(Upwards, S, Walk(t, "right"))
  BY <1>1, <1>2, <1>3, LooseWalk
<1>5. Walk(t, "right") = Reverse(q)
  BY <1>2, <1>4, ReverseListing, ListingUnique, WaysAreValues
<1>6. Stored(t) = S
  <2>1. t.root \in sub[t.root] \cup {Nil}
    BY <1>1 DEF LooseTree
  <2> QED
    BY <1>1, <1>2, <2>1, LooseBelow DEF Stored
<1>7. /\ q \in Seq(S) /\ Len(q) \in Nat /\ DOMAIN q = 1 .. Len(q)
      /\ \A i \in 1 .. Len(q) : q[i] \in S
      /\ \A m \in S : \E i \in 1 .. Len(q) : q[i] = m
      /\ \A i, j \in 1 .. Len(q) : i < j => Downwards[q[i]] < Downwards[q[j]]
  BY <1>4, LenProperties, ElementOfSeq DEF Listing
<1>8. ToSet(q) = S
  BY <1>7 DEF ToSet
<1>9. ASSUME NEW i \in 2 .. Len(q) PROVE q[i - 1] > q[i]
  <2>1. i - 1 \in 1 .. Len(q) /\ i \in 1 .. Len(q) /\ i - 1 < i
    BY <1>7
  <2>2. Downwards[q[i - 1]] < Downwards[q[i]] /\ q[i - 1] \in Key /\ q[i] \in Key
    BY <1>2, <1>7, <2>1
  <2>3. 0 - q[i - 1] < 0 - q[i] /\ q[i - 1] \in Int /\ q[i] \in Int
    BY <2>2, WaysAreValues
  <2> QED
    BY <2>3
<1> QED
  BY <1>3, <1>5, <1>6, <1>8, <1>9 DEF WalksInOrder

-----------------------------------------------------------------------------
(* Replacing a node *)

(* What hung on n hangs on k, and n is left as it was.                     *)
InPlaceOf(t, n, k, r) ==
  /\ r \in Tree
  /\ r.root = IF t.root = n THEN k ELSE t.root
  /\ r.red = IF n \in t.red THEN t.red \cup {k} ELSE t.red \ {k}
  /\ \A d \in Side, j \in Key :
       r.child[d][j] = IF j = k THEN t.child[d][n] ELSE IF t.child[d][j] = n THEN k ELSE t.child[d][j]
  /\ \A j \in Key :
       r.parent[j] = IF j = k THEN t.parent[n]
                     ELSE IF \E d \in Side : t.child[d][n] = j THEN k ELSE t.parent[j]

(* The pointers after a replacement. *)
LEMMA ReplaceFields ==
  ASSUME NEW t, NEW sub, SearchTree(t, sub), NEW n \in sub[t.root], NEW k \in Key \ sub[t.root],
         NEW r, r = ReplaceNode(t, n, k)
  PROVE  InPlaceOf(t, n, k, r)
<1>1. PICK S, p, a, b : S = sub[t.root] /\ p = t.parent[n] /\ a = t.child["left"][n] /\ b = t.child["right"][n]
  OBVIOUS
<1>2. t \in Tree /\ Tied(t, sub) /\ Nil \notin Key
  BY KeyAssumption DEF SearchTree
<1>3. /\ S \in SUBSET Key /\ n \in Key /\ n \in S /\ k \in Key /\ k \notin S /\ k # n
      /\ p \in Nodes /\ a \in Nodes /\ b \in Nodes /\ t.root \in Nodes /\ t.red \in SUBSET Key
      /\ a # n /\ b # n /\ a # k /\ b # k
      /\ \A d \in Side, j \in Key : t.child[d][j] \in Nodes
      /\ "left" \in Side /\ "right" \in Side /\ \A d \in Side : d = "left" \/ d = "right"
  <2>1. S \in SUBSET Key /\ n \in Key /\ n \in S /\ k \in Key /\ k \notin S /\ k # n
    BY <1>1, TreeFacts
  <2>2. "left" \in Side /\ "right" \in Side /\ \A d \in Side : d = "left" \/ d = "right"
    BY Sides
  <2>3. a \in S \cup {Nil} /\ b \in S \cup {Nil} /\ a # n /\ b # n
    BY <1>1, <2>1, <2>2, TreeFacts
  <2>4. /\ p \in Nodes /\ a \in Nodes /\ b \in Nodes /\ t.root \in Nodes /\ t.red \in SUBSET Key
        /\ \A d \in Side, j \in Key : t.child[d][j] \in Nodes
    BY <1>1, <1>2, <2>1, <2>2, TreeFields
  <2> QED
    BY <1>2, <2>1, <2>2, <2>3, <2>4
<1>4. \A d \in Side, j \in Key : t.child[d][j] = n => j = p /\ p # Nil
  BY <1>1, <1>2, <1>3, OnlyParent
<1>5. (p = Nil <=> t.root = n) /\ (p # Nil => \E d \in Side : t.child[d][p] = n)
  <2>1. t.root = n => p = Nil
    BY <1>1, <1>2, <1>3 DEF Tied
  <2>2. t.root # n => p \in S /\ \E d \in Side : t.child[d][p] = n
    BY <1>1, <1>2, <1>3 DEF Tied
  <2> QED
    BY <1>2, <1>3, <2>1, <2>2
<1> DEFINE raised == Redirect(t, p, n, k)
           da == SetParent(raised, a, k)
           db == SetParent(da, b, k)
<1>6. /\ raised \in Tree /\ raised.parent = t.parent /\ raised.red = t.red
      /\ raised.root = IF t.root = n THEN k ELSE t.root
      /\ \A d \in Side, j \in Key : raised.child[d][j] = IF t.child[d][j] = n THEN k ELSE t.child[d][j]
  <2>1. CASE p = Nil
    <3>1. raised = [t EXCEPT !.root = k] /\ k \in Nodes
      BY <1>3, <2>1 DEF Redirect, Nodes
    <3>2. raised \in Tree /\ raised.root = k /\ raised.child = t.child /\ raised.parent = t.parent /\ raised.red = t.red
      BY <1>2, <3>1, SetRootFields
    <3> QED
      BY <1>4, <1>5, <2>1, <3>2
  <2>2. CASE p # Nil
    <3> DEFINE d0 == SideOf(t, n, p)
    <3>1. p \in Key /\ d0 \in Side /\ k \in Nodes
      BY <1>3, <2>2 DEF Nodes, SideOf, Side
    <3>2. raised = [t EXCEPT !.child[d0][p] = k]
      BY <2>2 DEF Redirect
    <3>3. \A d \in Side : t.child[d][p] = n <=> d = d0
      <4>1. PICK d \in Side : t.child[d][p] = n
        BY <1>5, <2>2
      <4>2. ~ (t.child["left"][p] = n /\ t.child["right"][p] = n)
        BY <1>2, <1>3, <3>1, TreeFacts
      <4> QED
        BY <4>1, <4>2, Sides DEF SideOf
    <3> HIDE DEF d0
    <3>4. /\ raised \in Tree /\ raised.root = t.root /\ raised.parent = t.parent /\ raised.red = t.red
          /\ \A e \in Side, j \in Key : raised.child[e][j] = IF e = d0 /\ j = p THEN k ELSE t.child[e][j]
      BY <1>2, <3>1, <3>2, SetChildFields
    <3>5. ASSUME NEW d \in Side, NEW j \in Key PROVE raised.child[d][j] = IF t.child[d][j] = n THEN k ELSE t.child[d][j]
      BY <1>4, <3>3, <3>4
    <3> QED
      BY <1>5, <2>2, <3>4, <3>5
  <2> QED
    BY <2>1, <2>2
<1>7. k \in Nodes
  BY <1>3 DEF Nodes
<1> HIDE DEF raised
<1>8. /\ da \in Tree /\ da.root = raised.root /\ da.child = raised.child /\ da.red = raised.red
      /\ \A j \in Key : da.parent[j] = IF j = a THEN k ELSE raised.parent[j]
  <2>1. raised \in Tree /\ a \in Nodes /\ k \in Nodes
    BY <1>3, <1>6, <1>7
  <2>2. da = SetParent(raised, a, k)
    OBVIOUS
  <2> HIDE DEF da
  <2> QED
    BY ONLY SMTT(30), <2>1, <2>2, SetParentFields
<1> HIDE DEF da
<1>9. /\ db \in Tree /\ db.root = da.root /\ db.child = da.child /\ db.red = da.red
      /\ \A j \in Key : db.parent[j] = IF j = b THEN k ELSE da.parent[j]
  <2>1. da \in Tree /\ b \in Nodes /\ k \in Nodes
    BY <1>3, <1>7, <1>8
  <2>2. db = SetParent(da, b, k)
    OBVIOUS
  <2> HIDE DEF db
  <2> QED
    BY ONLY <2>1, <2>2, SetParentFields
<1>10. PICK reds : reds = IF n \in db.red THEN db.red \cup {k} ELSE db.red \ {k}
  BY Zenon
<1>11. r = [db EXCEPT !.child["left"][k] = a, !.child["right"][k] = b, !.parent[k] = p, !.red = reds]
  BY Zenon, <1>1, <1>10 DEF ReplaceNode, raised, da
<1> HIDE DEF db
<1>12. reds \in SUBSET Key /\ reds = IF n \in t.red THEN t.red \cup {k} ELSE t.red \ {k}
  <2>1. db.red = t.red
    BY <1>6, <1>8, <1>9
  <2>2. t.red \in SUBSET Key /\ k \in Key
    BY <1>3
  <2> QED
    BY ONLY <1>10, <2>1, <2>2
<1>13. /\ r \in Tree /\ r.root = db.root /\ r.red = reds
       /\ \A j \in Key : r.parent[j] = IF j = k THEN p ELSE db.parent[j]
       /\ \A j \in Key : /\ r.child["left"][j] = IF j = k THEN a ELSE db.child["left"][j]
                         /\ r.child["right"][j] = IF j = k THEN b ELSE db.child["right"][j]
  <2>1. db \in Tree /\ reds \in SUBSET Key /\ k \in Key /\ a \in Nodes /\ b \in Nodes /\ p \in Nodes
    BY <1>3, <1>9, <1>12
  <2> QED
    BY ONLY <1>11, <2>1 DEF Tree, Nodes, Side
<1>14. ASSUME NEW d \in Side, NEW j \in Key
       PROVE  r.child[d][j] = IF j = k THEN t.child[d][n] ELSE IF t.child[d][j] = n THEN k ELSE t.child[d][j]
  <2>1. db.child[d][j] = IF t.child[d][j] = n THEN k ELSE t.child[d][j]
    BY <1>6, <1>8, <1>9
  <2>2. CASE d = "left"
    BY <1>1, <1>13, <2>1, <2>2
  <2>3. CASE d = "right"
    BY <1>1, <1>13, <2>1, <2>3
  <2> QED
    BY <1>3, <2>2, <2>3
<1>15. ASSUME NEW j \in Key
       PROVE  r.parent[j] = IF j = k THEN t.parent[n]
                            ELSE IF \E d \in Side : t.child[d][n] = j THEN k ELSE t.parent[j]
  <2>1. r.parent[j] = IF j = k THEN p ELSE IF j = b \/ j = a THEN k ELSE t.parent[j]
    BY <1>6, <1>8, <1>9, <1>13
  <2>2. (\E d \in Side : t.child[d][n] = j) <=> (j = a \/ j = b)
    BY <1>1, <1>3
  <2> QED
    BY <1>1, <2>1, <2>2
<1> QED
  BY <1>6, <1>8, <1>9, <1>12, <1>13, <1>14, <1>15 DEF InPlaceOf

(* The new tree looked at with k for n: the old one. *)
Back(n, k) == [j \in Nodes |-> IF j = k THEN n ELSE j]
SeenFrom(t, u, S, n, back) ==
  /\ u.root # n /\ back[u.root] = t.root
  /\ \A j \in S : /\ u.parent[j] # n /\ back[u.parent[j]] = t.parent[back[j]]
                  /\ j \in u.red <=> back[j] \in t.red
                  /\ \A d \in Side : u.child[d][j] # n /\ back[u.child[d][j]] = t.child[d][back[j]]

(* The new tree, with k for n, is seen as the old one. *)
LEMMA ReplaceSeen ==
  ASSUME NEW t, NEW sub, SearchTree(t, sub), NEW n \in sub[t.root], NEW k \in Key \ sub[t.root],
         NEW u, u = ReplaceNode(t, n, k), NEW back, back = Back(n, k),
         NEW S, S = (sub[t.root] \ {n}) \cup {k}
  PROVE  /\ SeenFrom(t, u, S, n, back)
         /\ u \in Tree
         /\ u.root \in S
         /\ \A j \in Key : /\ u.parent[j] \in S \cup {Nil}
                           /\ \A d \in Side : u.child[d][j] \in S \cup {Nil}
<1>1. PICK O : O = sub[t.root]
  OBVIOUS
<1>2. t \in Tree /\ Tied(t, sub) /\ Nil \notin Key
  BY KeyAssumption DEF SearchTree
<1>3. /\ O \in SUBSET Key /\ n \in Key /\ n \in O /\ k \in Key /\ k \notin O /\ k # n /\ n # Nil /\ k # Nil
      /\ \A d \in Side : \A j \in O : t.child[d][j] \in O \cup {Nil} /\ t.child[d][j] # j
      /\ \A d \in Side : \A j \in Key \ O : t.child[d][j] = Nil
      /\ \A j \in Key \ O : t.parent[j] = Nil
      /\ t.red \in SUBSET Key
  <2>1. O \in SUBSET Key /\ n \in Key /\ n \in O /\ k \in Key /\ k \notin O /\ k # n /\ n # Nil /\ k # Nil
    BY <1>1, <1>2, TreeFacts
  <2>2. \A d \in Side : \A j \in O : t.child[d][j] \in O \cup {Nil} /\ t.child[d][j] # j
    BY <1>1, <2>1, TreeFacts
  <2>3. /\ \A d \in Side : \A j \in Key \ O : t.child[d][j] = Nil
        /\ \A j \in Key \ O : t.parent[j] = Nil
    BY <1>1, <1>2 DEF Tied
  <2> QED
    BY <1>2, <2>1, <2>2, <2>3, TreeFields
<1>4. t.root \in O /\ t.root # Nil
  <2>1. t.root # Nil
    BY <1>1, <1>3, TreeFacts
  <2>2. t.root \in Key
    BY <1>2, <2>1, TreeFields DEF Nodes
  <2> QED
    BY <1>1, <2>1, <2>2, TreeFacts
<1>5. \A j \in O : t.parent[j] \in O \cup {Nil} /\ t.parent[j] # j
  <2> TAKE j \in O
  <2>1. CASE j = t.root
    BY <1>2, <1>3, <1>4, <2>1 DEF Tied
  <2>2. CASE j # t.root
    <3>1. t.parent[j] \in O /\ \E d \in Side : t.child[d][t.parent[j]] = j
      BY <1>1, <1>2, <2>2 DEF Tied
    <3> QED
      BY <1>3, <3>1
  <2> QED
    BY <2>1, <2>2
<1>6. /\ u \in Tree
      /\ u.root = IF t.root = n THEN k ELSE t.root
      /\ u.red = IF n \in t.red THEN t.red \cup {k} ELSE t.red \ {k}
      /\ \A d \in Side, j \in Key :
           u.child[d][j] = IF j = k THEN t.child[d][n] ELSE IF t.child[d][j] = n THEN k ELSE t.child[d][j]
      /\ \A j \in Key :
           u.parent[j] = IF j = k THEN t.parent[n]
                         ELSE IF \E d \in Side : t.child[d][n] = j THEN k ELSE t.parent[j]
  <2>1. InPlaceOf(t, n, k, u)
    BY ReplaceFields
  <2> QED
    BY ONLY <2>1 DEF InPlaceOf
<1>7. \A j \in Nodes : back[j] = IF j = k THEN n ELSE j
  BY DEF Back
<1>8. S = (O \ {n}) \cup {k} /\ S \in SUBSET Key /\ S \subseteq Nodes /\ Nil \in Nodes
  BY <1>1, <1>3 DEF Nodes
<1>9. u.root \in S /\ u.root # n /\ back[u.root] = t.root
  BY <1>3, <1>4, <1>6, <1>7, <1>8
<1>10. ASSUME NEW j \in S, NEW d \in Side
       PROVE  /\ u.child[d][j] \in S \cup {Nil} /\ u.child[d][j] # n
              /\ back[u.child[d][j]] = t.child[d][back[j]]
  <2>1. CASE j = k
    <3>1. u.child[d][j] = t.child[d][n] /\ back[j] = n
      BY <1>3, <1>6, <1>7, <1>8, <2>1
    <3>2. t.child[d][n] \in O \cup {Nil} /\ t.child[d][n] # n
      BY <1>3
    <3> QED
      BY <1>3, <1>7, <1>8, <3>1, <3>2
  <2>2. CASE j # k
    <3>1. j \in O /\ j \in Key /\ back[j] = j
      BY <1>7, <1>8, <2>2
    <3>2. u.child[d][j] = IF t.child[d][j] = n THEN k ELSE t.child[d][j]
      BY <1>6, <2>2, <3>1
    <3>3. t.child[d][j] \in O \cup {Nil}
      BY <1>3, <3>1
    <3> QED
      BY <1>3, <1>7, <1>8, <3>1, <3>2, <3>3
  <2> QED
    BY <2>1, <2>2
<1>11. ASSUME NEW j \in S
       PROVE  u.parent[j] \in S \cup {Nil} /\ u.parent[j] # n /\ back[u.parent[j]] = t.parent[back[j]]
  <2>1. CASE j = k
    <3>1. u.parent[j] = t.parent[n] /\ back[j] = n
      BY <1>3, <1>6, <1>7, <1>8, <2>1
    <3>2. t.parent[n] \in O \cup {Nil} /\ t.parent[n] # n
      BY <1>3, <1>5
    <3> QED
      BY <1>3, <1>7, <1>8, <3>1, <3>2
  <2>2. CASE j # k
    <3>1. j \in O /\ j \in Key /\ j # n /\ back[j] = j
      BY <1>3, <1>7, <1>8, <2>2
    <3>2. u.parent[j] = IF \E d \in Side : t.child[d][n] = j THEN k ELSE t.parent[j]
      BY <1>6, <2>2, <3>1
    <3>3. (\E d \in Side : t.child[d][n] = j) <=> t.parent[j] = n
      <4>1. ASSUME NEW d \in Side, t.child[d][n] = j PROVE t.parent[j] = n
        BY <1>1, <1>2, <1>3, <3>1, <4>1 DEF Tied
      <4>2. ASSUME t.parent[j] = n PROVE \E d \in Side : t.child[d][n] = j
        <5>1. j # t.root
          BY <1>2, <1>3, <1>4, <4>2 DEF Tied
        <5> QED
          BY <1>1, <1>2, <3>1, <4>2, <5>1 DEF Tied
      <4> QED
        BY <4>1, <4>2
    <3>4. u.parent[j] = IF t.parent[j] = n THEN k ELSE t.parent[j]
      BY <3>2, <3>3
    <3>5. t.parent[j] \in O \cup {Nil}
      BY <1>5, <3>1
    <3> QED
      BY <1>3, <1>7, <1>8, <3>1, <3>4, <3>5
  <2> QED
    BY <2>1, <2>2
<1>12. ASSUME NEW j \in S PROVE j \in u.red <=> back[j] \in t.red
  <2>1. j \in Nodes /\ back[j] = IF j = k THEN n ELSE j
    BY <1>7, <1>8
  <2> QED
    BY ONLY <1>6, <2>1
<1>13. ASSUME NEW j \in Key, j \notin S
       PROVE  u.parent[j] \in S \cup {Nil} /\ \A d \in Side : u.child[d][j] \in S \cup {Nil}
  <2>0. j # k /\ (j = n \/ j \notin O)
    BY <1>8, <1>13
  <2>1. \A d \in Side : t.child[d][n] # j
    BY <1>2, <1>3, <1>13, <2>0
  <2>2. u.parent[j] = t.parent[j]
    BY <1>6, <2>0, <2>1
  <2>3. t.parent[j] \in (O \ {n}) \cup {Nil}
    BY <1>3, <1>5, <2>0
  <2>4. ASSUME NEW d \in Side PROVE u.child[d][j] \in S \cup {Nil}
    <3>1. t.child[d][j] \in (O \ {n}) \cup {Nil}
      BY <1>3, <2>0
    <3>2. u.child[d][j] = t.child[d][j]
      BY SMTT(30), <1>3, <1>6, <2>0, <3>1
    <3> QED
      BY <1>8, <3>1, <3>2
  <2> QED
    BY <1>8, <2>2, <2>3, <2>4
<1> QED
  BY <1>6, <1>9, <1>10, <1>11, <1>12, <1>13 DEF SeenFrom

ReplacedWay(n, k) == [j \in Key |-> IF j = k THEN 0 - n ELSE IF j = n THEN 0 - k ELSE 0 - j]
Replaced(sub, n, back) == [j \in Nodes |-> {m \in Key \ {n} : back[m] \in sub[back[j]]}]

(* It is walked in the order in which k has the place of n. *)
LEMMA ReplacedLoose ==
  ASSUME NEW t, NEW sub, SearchTree(t, sub), NEW n \in sub[t.root], NEW k \in Key \ sub[t.root],
         NEW u, u = ReplaceNode(t, n, k), NEW back, back = Back(n, k),
         NEW S, S = (sub[t.root] \ {n}) \cup {k}, NEW new, new = Replaced(sub, n, back),
         NEW val, val = ReplacedWay(n, k)
  PROVE  LooseTree(u, new, val, "left") /\ new[u.root] = S
<1>1. PICK O : O = sub[t.root]
  OBVIOUS
<1>2. /\ LooseTree(t, sub, Downwards, "left") /\ Nil \notin Key /\ Key \subseteq Int /\ t \in Tree
      /\ Sorted(t, sub) /\ IsBelow(t, sub)
  BY SearchTreeLoose, KeyAssumption DEF SearchTree
<1>3. /\ SeenFrom(t, u, S, n, back) /\ u \in Tree /\ u.root \in S
      /\ \A j \in Key : /\ u.parent[j] \in S \cup {Nil}
                        /\ \A d \in Side : u.child[d][j] \in S \cup {Nil}
  BY ReplaceSeen
<1>4. /\ O \in SUBSET Key /\ IsFiniteSet(O) /\ sub[Nil] = {} /\ Nil \notin O
      /\ Other("left") = "right" /\ "left" \in Side /\ "right" \in Side
      /\ \A j \in O : /\ sub[j] = {j} \cup sub[t.child["left"][j]] \cup sub[t.child["right"][j]]
                      /\ sub[j] \subseteq O /\ j \in sub[j]
  <2>1. Other("left") = "right" /\ "left" \in Side /\ "right" \in Side
    BY DEF Other, Side
  <2> QED
    BY <1>1, <1>2, <2>1, LooseFacts
<1>5. n \in Key /\ n \in O /\ k \in Key /\ k \notin O /\ k # n /\ n # Nil /\ k # Nil
  BY <1>1, <1>2, <1>4
<1>6. /\ \A j \in Nodes : back[j] = IF j = k THEN n ELSE j
      /\ S = (O \ {n}) \cup {k} /\ S \in SUBSET Key /\ S \subseteq Nodes /\ Nil \in Nodes
  BY Zenon, <1>1, <1>4, <1>5 DEF Back, Nodes
<1>7. /\ new \in [Nodes -> SUBSET Key]
      /\ \A j \in Nodes : \A m : m \in new[j] <=> m \in Key /\ m # n /\ back[m] \in sub[back[j]]
  BY DEF Replaced
<1>8. /\ \A j \in S : back[j] \in O /\ j # n
      /\ \A m \in Key : m # n /\ back[m] \in O => m \in S
      /\ back[Nil] = Nil
      /\ \A i, j \in Nodes : i # n /\ j # n /\ back[i] = back[j] => i = j
  BY <1>4, <1>5, <1>6 DEF Nodes
<1>9. new[Nil] = {}
  BY <1>4, <1>6, <1>7, <1>8
<1>10. new[u.root] = S
  <2>1. u.root \in Nodes /\ back[u.root] = t.root
    BY <1>3, <1>6 DEF SeenFrom
  <2>2. \A m : m \in new[u.root] <=> m \in Key /\ m # n /\ back[m] \in O
    BY <1>1, <1>7, <2>1
  <2> QED
    BY <1>6, <1>8, <2>2
<1>11. IsFiniteSet(S)
  <2>1. IsFiniteSet(O \ {n})
    BY <1>4, FS_Subset
  <2> QED
    BY <1>6, <2>1, FS_AddElement
<1>12. /\ val \in Values
       /\ \A j \in Key \ {n} : val[j] = 0 - back[j]
  <2>1. \A j \in Key : val[j] = IF j = k THEN 0 - n ELSE IF j = n THEN 0 - k ELSE 0 - j
    BY Zenon DEF ReplacedWay
  <2>2. n \in Int /\ k \in Int /\ \A j \in Key : j \in Int
    BY <1>2, <1>5
  <2>3. \A i, j \in Key : val[i] = val[j] => i = j
    BY <1>5, <2>1, <2>2
  <2>4. val \in [Key -> Int]
    BY <2>2 DEF ReplacedWay
  <2>5. ASSUME NEW j \in Key \ {n} PROVE val[j] = 0 - back[j]
    BY <1>6, <2>1 DEF Nodes
  <2> QED
    BY <2>3, <2>4, <2>5 DEF Values
<1>13. ASSUME NEW j \in S, NEW d \in Side
       PROVE  \A m : m \in new[u.child[d][j]] <=> m \in Key /\ m # n /\ back[m] \in sub[t.child[d][back[j]]]
  <2>1. u.child[d][j] \in Nodes
    BY <1>3, <1>6
  <2>2. back[u.child[d][j]] = t.child[d][back[j]]
    BY <1>3 DEF SeenFrom
  <2> QED
    BY <1>7, <2>1, <2>2
<1>14. ASSUME NEW j \in S
       PROVE  /\ new[j] = {j} \cup new[u.child["left"][j]] \cup new[u.child["right"][j]]
              /\ new[j] \subseteq S
  <2>1. PICK i : i = back[j] /\ i \in O
    BY <1>8
  <2>2. j \in Nodes /\ j \in Key /\ j # n
    BY <1>6, <1>8
  <2>3. \A m : m \in new[j] <=> m \in Key /\ m # n /\ back[m] \in sub[i]
    BY <1>7, <2>1, <2>2
  <2>4. /\ \A m : m \in new[u.child["left"][j]] <=> m \in Key /\ m # n /\ back[m] \in sub[t.child["left"][i]]
        /\ \A m : m \in new[u.child["right"][j]] <=> m \in Key /\ m # n /\ back[m] \in sub[t.child["right"][i]]
    BY <1>4, <1>13, <2>1
  <2>5. sub[i] = {i} \cup sub[t.child["left"][i]] \cup sub[t.child["right"][i]] /\ sub[i] \subseteq O
    BY <1>4, <2>1
  <2>6. \A m \in Key : m # n => (back[m] = i <=> m = j)
    BY <1>8, <2>1, <2>2 DEF Nodes
  <2>7. new[j] = {j} \cup new[u.child["left"][j]] \cup new[u.child["right"][j]]
    <3>1. \A m : m \in new[j] <=> m = j \/ m \in new[u.child["left"][j]] \/ m \in new[u.child["right"][j]]
      BY ONLY Zenon, <2>2, <2>3, <2>4, <2>5, <2>6
    <3> QED
      BY ONLY <3>1
  <2>8. new[j] \subseteq S
    BY <1>8, <2>3, <2>5
  <2> QED
    BY <2>7, <2>8
<1>15. ASSUME NEW j \in S
       PROVE  /\ \A m \in new[u.child["left"][j]] : val[m] < val[j]
              /\ \A m \in new[u.child["right"][j]] : val[j] < val[m]
  <2>1. PICK i : i = back[j] /\ i \in O /\ i \in Int /\ j \in Key /\ j # n
    BY <1>2, <1>4, <1>6, <1>8
  <2>2. val[j] = 0 - i
    BY <1>12, <2>1
  <2>3. ASSUME NEW m \in new[u.child["left"][j]] PROVE val[m] < val[j]
    <3>1. m \in Key /\ m # n /\ back[m] \in sub[t.child["left"][i]]
      BY <1>4, <1>13, <2>1
    <3>2. OnSide("left", back[m], i) /\ val[m] = 0 - back[m]
      BY <1>2, <1>4, <1>12, <2>1, <3>1 DEF Sorted
    <3>3. back[m] \in Int
      BY <1>2, <1>5, <1>6, <3>1 DEF Nodes
    <3>4. back[m] > i
      BY ONLY <3>2 DEF OnSide
    <3> QED
      BY <2>1, <2>2, <3>2, <3>3, <3>4
  <2>4. ASSUME NEW m \in new[u.child["right"][j]] PROVE val[j] < val[m]
    <3>1. m \in Key /\ m # n /\ back[m] \in sub[t.child["right"][i]]
      BY <1>4, <1>13, <2>1
    <3>2. OnSide("right", back[m], i) /\ val[m] = 0 - back[m]
      BY <1>2, <1>4, <1>12, <2>1, <3>1 DEF Sorted
    <3>3. back[m] \in Int
      BY <1>2, <1>5, <1>6, <3>1 DEF Nodes
    <3>4. back[m] < i
      BY ONLY <3>2 DEF OnSide
    <3> QED
      BY <2>1, <2>2, <3>2, <3>3, <3>4
  <2> QED
    BY <2>3, <2>4
<1>16. ASSUME NEW j \in S, NEW d \in Side, u.child[d][j] # Nil PROVE u.parent[u.child[d][j]] = j
  <2>1. PICK c, i : c = u.child[d][j] /\ i = back[j]
    OBVIOUS
  <2>2. c \in S /\ c # n /\ back[c] = t.child[d][i] /\ i \in O /\ j \in Nodes /\ j # n
    BY <1>3, <1>6, <1>8, <1>16, <2>1 DEF SeenFrom
  <2>3. back[c] \in O /\ back[c] # Nil
    BY <1>4, <1>8, <2>2
  <2>4. t.parent[back[c]] = i
    BY <1>1, <1>2, <2>2, <2>3 DEF LooseTree
  <2>5. back[u.parent[c]] = i /\ u.parent[c] # n /\ u.parent[c] \in S \cup {Nil}
    BY <1>3, <1>6, <2>2, <2>4 DEF SeenFrom
  <2>6. u.parent[c] \in Nodes
    BY <1>6, <2>5
  <2> QED
    BY <1>8, <2>1, <2>2, <2>5, <2>6
<1>17. u.parent[u.root] = Nil
  <2>1. back[u.parent[u.root]] = t.parent[t.root] /\ u.parent[u.root] \in Nodes /\ u.parent[u.root] # n
    BY <1>3, <1>6 DEF SeenFrom
  <2>2. t.root \in O
    BY <1>3, <1>8 DEF SeenFrom
  <2>3. t.parent[t.root] = Nil
    BY <1>2, <1>4, <2>2 DEF LooseTree
  <2> QED
    BY <1>5, <1>6, <1>8, <2>1, <2>3
<1>18. ASSUME NEW j \in S \ {u.root}
       PROVE  u.parent[j] # Nil /\ \E d \in Side : u.child[d][u.parent[j]] = j
  <2>1. PICK i : i = back[j] /\ i \in O /\ j \in Nodes /\ j # n /\ u.root \in Nodes
    BY <1>3, <1>6, <1>8
  <2>2. i # t.root
    BY <1>3, <1>8, <2>1 DEF SeenFrom
  <2>3. t.parent[i] # Nil /\ \E d \in Side : t.child[d][t.parent[i]] = i
    BY <1>1, <1>2, <2>1, <2>2 DEF LooseTree
  <2>4. PICK d \in Side : t.child[d][t.parent[i]] = i
    BY <2>3
  <2>5. PICK p : p = u.parent[j] /\ p # n /\ back[p] = t.parent[i] /\ p \in S \cup {Nil}
    BY <1>3, <1>6, <2>1 DEF SeenFrom
  <2>6. p # Nil /\ p \in S
    BY <1>8, <2>3, <2>5
  <2>7. back[u.child[d][p]] = i /\ u.child[d][p] # n /\ u.child[d][p] \in Nodes
    BY SMTT(30), <1>3, <1>6, <2>4, <2>5, <2>6 DEF SeenFrom
  <2>8. u.child[d][p] = j
    BY <1>8, <2>1, <2>7
  <2> QED
    BY <2>5, <2>6, <2>8
<1> QED
  BY <1>3, <1>4, <1>7, <1>9, <1>10, <1>11, <1>12, <1>14, <1>15, <1>16, <1>17, <1>18 DEF LooseTree

(* The number of black nodes above is right in any such tree. *)
LEMMA LooseBlackDepth ==
  ASSUME NEW t, NEW sub, NEW val, NEW s, LooseTree(t, sub, val, s),
         NEW ht, Heights(t, sub, ht), NEW n \in sub[t.root]
  PROVE  BlackDepth(t, n) = ht[t.root] - ht[n] + Black(t, n)
<1> DEFINE Counts(depth) == depth = [k \in Key \cup {Nil} |->
                              IF k = Nil THEN 0 ELSE depth[t.parent[k]] + (IF k \in t.red THEN 0 ELSE 1)]
    G == CHOOSE depth : Counts(depth)
<1>1. BlackDepth(t, n) = G[n]
  BY DEF BlackDepth
<1>2. PICK S : S = sub[t.root]
  OBVIOUS
<1>3. /\ S \in SUBSET Key /\ Nil \notin S /\ Nil \notin Key /\ sub[Nil] = {}
      /\ \A k \in Key : t.parent[k] \in S \cup {Nil}
  BY <1>2, LooseFacts
<1>4. t.root \in S /\ t.parent[t.root] = Nil
  BY <1>2, <1>3 DEF LooseTree
<1>5. /\ ht \in [Nodes -> Nat]
      /\ \A k \in S, d \in Side : ht[k] = ht[t.child[d][k]] + Black(t, k)
  BY <1>2 DEF Heights
<1>6. \A k : Black(t, k) \in Nat /\ Black(t, k) = IF k \in t.red THEN 0 ELSE 1
  BY DEF Black
<1>7. \A k \in S : ht[k] \in Nat
  BY Zenon, <1>3, <1>5 DEF Nodes
<1>8. PICK H : H = [k \in S \cup {Nil} |-> IF k = Nil THEN 0 ELSE ht[t.root] - ht[k] + Black(t, k)]
  OBVIOUS
<1>9. H[Nil] = 0 /\ \A k \in S : H[k] = ht[t.root] - ht[k] + Black(t, k)
  BY <1>3, <1>8
<1>10. ASSUME NEW k \in S PROVE H[k] = H[t.parent[k]] + Black(t, k)
  <2>1. CASE k = t.root
    <3>1. ht[t.root] \in Nat /\ Black(t, k) \in Nat
      BY <1>4, <1>6, <1>7
    <3>2. H[k] = ht[t.root] - ht[t.root] + Black(t, k) /\ H[t.parent[k]] = 0
      BY <1>4, <1>9, <2>1
    <3> QED
      BY <3>1, <3>2
  <2>2. CASE k # t.root
    <3>1. PICK p : p = t.parent[k]
      OBVIOUS
    <3>2. p \in S /\ \E d \in Side : t.child[d][p] = k
      BY <1>2, <2>2, <3>1, LooseUp
    <3>3. ht[p] = ht[k] + Black(t, p)
      BY <1>5, <3>2
    <3>4. ht[t.root] \in Nat /\ ht[k] \in Nat /\ ht[p] \in Nat /\ Black(t, k) \in Nat /\ Black(t, p) \in Nat
      BY <1>4, <1>6, <1>7, <3>2
    <3>5. H[k] = ht[t.root] - ht[k] + Black(t, k) /\ H[p] = ht[t.root] - ht[p] + Black(t, p)
      BY <1>9, <3>2
    <3> QED
      BY ONLY <3>1, <3>3, <3>4, <3>5
  <2> QED
    BY <2>1, <2>2
<1>11. PICK e : e = [k \in Key \cup {Nil} |-> IF k = Nil THEN 0 ELSE H[t.parent[k]] + (IF k \in t.red THEN 0 ELSE 1)]
  OBVIOUS
<1>12. \A k \in S \cup {Nil} : e[k] = H[k]
  <2>1. e[Nil] = H[Nil]
    BY <1>9, <1>11
  <2>2. ASSUME NEW k \in S PROVE e[k] = H[k]
    <3>1. e[k] = H[t.parent[k]] + (IF k \in t.red THEN 0 ELSE 1)
      BY <1>3, <1>11
    <3> QED
      BY <1>6, <1>10, <3>1
  <2> QED
    BY <2>1, <2>2
<1>13. Counts(e)
  <2>1. \A k \in Key \cup {Nil} : e[k] = IF k = Nil THEN 0 ELSE e[t.parent[k]] + (IF k \in t.red THEN 0 ELSE 1)
    <3> TAKE k \in Key \cup {Nil}
    <3>1. CASE k = Nil
      BY <1>11, <3>1
    <3>2. CASE k # Nil
      <4>1. e[t.parent[k]] = H[t.parent[k]]
        BY <1>3, <1>12, <3>2
      <4> QED
        BY <1>11, <3>2, <4>1
    <3> QED
      BY <3>1, <3>2
  <2>2. e = [k \in Key \cup {Nil} |-> e[k]]
    BY Zenon, <1>11
  <2> QED
    BY <2>1, <2>2, Zenon
<1>14. Counts(G)
  <2> HIDE DEF Counts
  <2> QED
    BY <1>13
<1> HIDE DEF G
<1>15. G[Nil] = 0 /\ \A k \in Key : G[k] = G[t.parent[k]] + (IF k \in t.red THEN 0 ELSE 1)
  <2>1. \A k \in Key \cup {Nil} : G[k] = IF k = Nil THEN 0 ELSE G[t.parent[k]] + (IF k \in t.red THEN 0 ELSE 1)
    BY <1>14, Zenon
  <2> QED
    BY <1>3, <2>1
<1> DEFINE Bad == {k \in S : G[k] # H[k]}
<1>16. ASSUME NEW k \in Bad PROVE k # t.root /\ t.parent[k] \in Bad
  <2>1. k \in S /\ k \in Key /\ G[k] # H[k]
    BY <1>3
  <2>2. G[k] = G[t.parent[k]] + Black(t, k) /\ H[k] = H[t.parent[k]] + Black(t, k)
    BY <1>6, <1>10, <1>15, <2>1
  <2>3. G[t.parent[k]] # H[t.parent[k]]
    BY ONLY <2>1, <2>2
  <2>4. t.parent[k] # Nil
    BY <1>9, <1>15, <2>3
  <2> QED
    BY <1>3, <1>4, <2>1, <2>3, <2>4
<1>17. Bad = {}
  <2>1. Bad \subseteq sub[t.root]
    BY <1>2
  <2>2. t.root \notin Bad /\ \A k \in Bad : t.parent[k] \in Bad
    BY <1>16
  <2> HIDE DEF Bad
  <2> QED
    BY <2>1, <2>2, LooseNoneUpward
<1> QED
  BY <1>1, <1>2, <1>9, <1>17

(* With heights and no red node under a red one it is balanced. *)
LEMMA LooseBalanced ==
  ASSUME NEW t, NEW sub, NEW val, NEW s, LooseTree(t, sub, val, s),
         NEW ht, Heights(t, sub, ht), t.root \notin t.red,
         \A k \in sub[t.root] : k \in t.red => t.parent[k] \notin t.red
  PROVE  Balanced(t) /\ ParentsAgree(t) /\ Stored(t) = sub[t.root]
<1>1. PICK S : S = sub[t.root]
  OBVIOUS
<1>2. Stored(t) = S
  <2>1. t.root \in sub[t.root] \cup {Nil}
    BY DEF LooseTree
  <2> QED
    BY <1>1, <2>1, LooseBelow DEF Stored
<1>3. ParentsAgree(t)
  BY <1>1, <1>2 DEF ParentsAgree, LooseTree
<1>4. /\ ht \in [Nodes -> Nat] /\ ht[Nil] = 0
      /\ \A k \in S, d \in Side : ht[k] = ht[t.child[d][k]] + Black(t, k)
  BY <1>1 DEF Heights
<1>5. ASSUME NEW n \in Gaps(t) PROVE BlackDepth(t, n) = ht[t.root]
  <2>1. PICK d \in Side : n \in S /\ t.child[d][n] = Nil
    BY <1>2 DEF Gaps
  <2>2. ht[n] = 0 + Black(t, n)
    BY <1>4, <2>1
  <2>3. Black(t, n) \in Nat
    BY DEF Black
  <2>4. ht[t.root] \in Nat
    <3>1. t.root \in Nodes
      BY TreeFields DEF LooseTree
    <3> QED
      BY <1>4, <3>1
  <2>5. BlackDepth(t, n) = ht[t.root] - ht[n] + Black(t, n)
    BY <1>1, <2>1, LooseBlackDepth
  <2> QED
    BY ONLY <2>2, <2>3, <2>4, <2>5
<1>6. \A n \in S : ~ (n \in t.red /\ RedUnderRed(t, n))
  BY <1>1 DEF RedUnderRed
<1>7. Balanced(t)
  BY <1>2, <1>5, <1>6 DEF Balanced
<1> QED
  BY <1>1, <1>2, <1>3, <1>7

(* Replacing keeps the parents and the balance, ... *)
LEMMA ReplacedBalanced ==
  ASSUME NEW t, NEW sub, RedBlackTree(t, sub), NEW n \in sub[t.root], NEW k \in Key \ sub[t.root],
         NEW u, u = ReplaceNode(t, n, k)
  PROVE  ParentsAgree(u) /\ Balanced(u)
<1>1. SearchTree(t, sub) /\ t.root \notin t.red /\ RedOnlyUnder(t, sub, Nil)
  BY DEF RedBlackTree
<1>2. PICK O, back, S, new, val :
        /\ O = sub[t.root] /\ back = Back(n, k) /\ S = (sub[t.root] \ {n}) \cup {k}
        /\ new = Replaced(sub, n, back) /\ val = ReplacedWay(n, k)
  OBVIOUS
<1>3. LooseTree(u, new, val, "left") /\ new[u.root] = S
  BY <1>1, <1>2, ReplacedLoose
<1>4. /\ SeenFrom(t, u, S, n, back) /\ u \in Tree /\ u.root \in S
      /\ \A j \in Key : /\ u.parent[j] \in S \cup {Nil}
                        /\ \A d \in Side : u.child[d][j] \in S \cup {Nil}
  BY <1>1, <1>2, ReplaceSeen
<1>5. PICK ht : Heights(t, sub, ht)
  BY DEF RedBlackTree
<1>6. /\ ht \in [Nodes -> Nat] /\ ht[Nil] = 0
      /\ \A j \in O, d \in Side : ht[j] = ht[t.child[d][j]] + Black(t, j)
  BY <1>2, <1>5 DEF Heights
<1>7. O \in SUBSET Key /\ n \in O /\ n \in Key /\ k \in Key /\ k \notin O /\ Nil \notin Key
  BY <1>1, <1>2, TreeFacts, KeyAssumption
<1>8. /\ \A j \in Nodes : back[j] = IF j = k THEN n ELSE j
      /\ S = (O \ {n}) \cup {k} /\ S \in SUBSET Key /\ S \subseteq Nodes /\ Nil \in Nodes
      /\ back \in [Nodes -> Nodes]
  BY Zenon, <1>2, <1>7 DEF Back, Nodes
<1>9. back[Nil] = Nil /\ \A j \in S : back[j] \in O
  BY <1>7, <1>8
<1>10. PICK high : high = [j \in Nodes |-> ht[back[j]]]
  OBVIOUS
<1>11. high \in [Nodes -> Nat] /\ high[Nil] = 0 /\ \A j \in Nodes : high[j] = ht[back[j]]
  BY <1>6, <1>8, <1>9, <1>10
<1>12. ASSUME NEW j \in S, NEW d \in Side PROVE high[j] = high[u.child[d][j]] + Black(u, j)
  <2>1. j \in Nodes /\ u.child[d][j] \in Nodes /\ back[j] \in O
    BY <1>4, <1>8, <1>9
  <2>2. back[u.child[d][j]] = t.child[d][back[j]] /\ (j \in u.red <=> back[j] \in t.red)
    BY <1>4 DEF SeenFrom
  <2>3. Black(u, j) = Black(t, back[j])
    BY <2>2 DEF Black
  <2>4. ht[back[j]] = ht[t.child[d][back[j]]] + Black(t, back[j])
    BY <1>6, <2>1
  <2> QED
    BY <1>11, <2>1, <2>2, <2>3, <2>4
<1>13. Heights(u, new, high)
  BY <1>3, <1>11, <1>12 DEF Heights
<1>14. u.root \notin u.red
  BY <1>1, <1>4 DEF SeenFrom
<1>15. ASSUME NEW j \in S, j \in u.red PROVE u.parent[j] \notin u.red
  <2>1. PICK p, i : p = u.parent[j] /\ i = back[j]
    OBVIOUS
  <2>2. i \in O /\ i \in t.red /\ back[p] = t.parent[i] /\ i # Nil
    BY <1>4, <1>7, <1>9, <1>15, <2>1 DEF SeenFrom
  <2>3. t.parent[i] \notin t.red
    BY <1>1, <1>2, <2>2 DEF RedOnlyUnder
  <2>4. CASE p = Nil
    <3>1. u.red \in SUBSET Key
      BY <1>4, TreeFields
    <3> QED
      BY <1>7, <2>1, <2>4, <3>1
  <2>5. CASE p # Nil
    <3>1. p \in S
      BY <1>4, <1>8, <2>1, <2>5
    <3>2. p \in u.red <=> back[p] \in t.red
      BY <1>4, <3>1 DEF SeenFrom
    <3> QED
      BY <2>1, <2>2, <2>3, <3>2
  <2> QED
    BY <2>4, <2>5
<1> QED
  BY <1>3, <1>13, <1>14, <1>15, LooseBalanced

(* ... and a walk meets k where it met n. *)
LEMMA ReplacedWalk ==
  ASSUME NEW t, NEW sub, SearchTree(t, sub), NEW n \in sub[t.root], NEW k \in Key \ sub[t.root],
         NEW u, u = ReplaceNode(t, n, k), NEW w, w = Walk(t, "left")
  PROVE  Walk(u, "left") = [i \in DOMAIN w |-> IF w[i] = n THEN k ELSE w[i]]
<1>1. PICK O, S, new, val :
        /\ O = sub[t.root] /\ S = (sub[t.root] \ {n}) \cup {k}
        /\ new = Replaced(sub, n, Back(n, k)) /\ val = ReplacedWay(n, k)
  OBVIOUS
<1>2. LooseTree(u, new, val, "left") /\ new[u.root] = S
  BY <1>1, ReplacedLoose
<1>3. Listing(val, S, Walk(u, "left")) /\ val \in Values /\ S \in SUBSET Key
  BY <1>2, LooseWalk, LooseFacts
<1>4. Listing(Downwards, O, w)
  BY <1>1, SearchTreeLoose, LooseWalk
<1>5. O \in SUBSET Key /\ n \in O /\ n \in Key /\ k \in Key /\ k \notin O /\ Key \subseteq Int
  BY <1>1, TreeFacts, KeyAssumption
<1>6. /\ w \in Seq(O) /\ Len(w) \in Nat /\ DOMAIN w = 1 .. Len(w)
      /\ \A i \in 1 .. Len(w) : w[i] \in O
      /\ \A m \in O : \E i \in 1 .. Len(w) : w[i] = m
      /\ \A i, j \in 1 .. Len(w) : i < j => Downwards[w[i]] < Downwards[w[j]]
  BY <1>4, LenProperties, ElementOfSeq DEF Listing
<1>7. PICK r : r = [i \in DOMAIN w |-> IF w[i] = n THEN k ELSE w[i]]
  OBVIOUS
<1>8. PICK c \in Nat : c = Len(w)
  BY <1>6
<1>9. \A i \in 1 .. c : r[i] = (IF w[i] = n THEN k ELSE w[i]) /\ r[i] \in S
  BY <1>1, <1>6, <1>7, <1>8
<1>10. r \in Seq(S) /\ Len(r) = c
  <2>1. r \in [1 .. c -> S]
    BY <1>6, <1>7, <1>8, <1>9
  <2>2. r \in Seq(S)
    BY <1>8, <2>1, IsASeq
  <2> QED
    BY <1>8, <2>1, <2>2, LenProperties
<1>11. ASSUME NEW m \in S PROVE \E i \in 1 .. c : r[i] = m
  <2>1. CASE m = k
    <3>1. PICK i \in 1 .. c : w[i] = n
      BY <1>5, <1>6, <1>8
    <3> QED
      BY <1>9, <2>1, <3>1
  <2>2. CASE m # k
    <3>1. m \in O /\ m # n
      BY <1>1, <2>2
    <3>2. PICK i \in 1 .. c : w[i] = m
      BY <1>6, <1>8, <3>1
    <3> QED
      BY <1>9, <3>1, <3>2
  <2> QED
    BY <2>1, <2>2
<1>12. ASSUME NEW i \in 1 .. c PROVE val[r[i]] = Downwards[w[i]] /\ w[i] \in Key
  <2>1. w[i] \in O /\ w[i] \in Key /\ w[i] # k /\ Downwards[w[i]] = 0 - w[i]
    <3>1. w[i] \in O
      BY ONLY <1>6, <1>8
    <3>2. w[i] \in Key /\ w[i] # k
      BY ONLY <1>5, <3>1
    <3> QED
      BY ONLY <3>1, <3>2, WaysAreValues
  <2>2. \A j \in Key : val[j] = IF j = k THEN 0 - n ELSE IF j = n THEN 0 - k ELSE 0 - j
    BY Zenon, <1>1 DEF ReplacedWay
  <2>3. r[i] = IF w[i] = n THEN k ELSE w[i]
    BY <1>9
  <2> QED
    BY <1>5, <2>1, <2>2, <2>3
<1>13. \A i, j \in 1 .. c : i < j => val[r[i]] < val[r[j]]
  BY <1>6, <1>8, <1>12
<1>14. Listing(val, S, r)
  BY <1>10, <1>11, <1>13 DEF Listing
<1> QED
  BY <1>3, <1>7, <1>14, ListingUnique

(* All that is promised of walking and replacing in a red-black tree. *)
LEMMA WholeWalks ==
  ASSUME NEW t, Whole(t)
  PROVE  WalksInOrder(t) /\ ReplacesInPlace(t)
<1>1. PICK sub : sub = Subtrees(t)
  OBVIOUS
<1>2. RedBlackTree(t, sub) /\ SearchTree(t, sub) /\ Stored(t) = sub[t.root]
  BY <1>1, WholeSearchTree DEF Whole
<1>3. WalksInOrder(t)
  BY <1>2, WalksSound
<1>4. ASSUME NEW n \in Stored(t), NEW k \in Key \ Stored(t)
      PROVE  /\ ParentsAgree(ReplaceNode(t, n, k)) /\ Balanced(ReplaceNode(t, n, k))
             /\ Walk(ReplaceNode(t, n, k), "left") =
                  [i \in DOMAIN Walk(t, "left") |-> IF Walk(t, "left")[i] = n THEN k ELSE Walk(t, "left")[i]]
  <2>1. ParentsAgree(ReplaceNode(t, n, k)) /\ Balanced(ReplaceNode(t, n, k))
    BY <1>2, ReplacedBalanced
  <2>2. Walk(ReplaceNode(t, n, k), "left") =
                  [i \in DOMAIN Walk(t, "left") |-> IF Walk(t, "left")[i] = n THEN k ELSE Walk(t, "left")[i]]
    BY <1>2, ReplacedWalk
  <2> QED
    BY <2>1, <2>2
<1> QED
  BY <1>3, <1>4, Zenon DEF ReplacesInPlace

(* Whatever the names and the order in which they came, and whenever no    *)
(* call is under way, a walk of a bucket's tree from rb_first by rb_next,  *)
(* or from rb_last by rb_prev, meets every name once and in order and      *)
(* stops, and rb_replace_node puts a name that is not yet there in the     *)
(* place of one that is without any other name moving, net_hashmap_rbtree.c*)
(* :285-386.                                                               *)
THEOREM HashmapWalkSound ==
  ASSUME NamesInOrder
  PROVE  Spec => []WalkSound
<1>1. Init => MapInv
  BY InitMapInv
<1>2. MapInv /\ [Next]_vars => MapInv'
  BY NextMapInv
<1>3. MapInv => WalkSound
  <2> SUFFICES ASSUME MapInv, AtRest, NEW b \in Bucket
               PROVE  WalksInOrder(tree[b]) /\ ReplacesInPlace(tree[b])
    BY DEF WalkSound
  <2>1. ~ FixingAt(b)
    BY DEF FixingAt, AtRest, Threads
  <2>2. Whole(tree[b])
    BY <2>1 DEF MapInv, TreesKept
  <2> QED
    BY <2>2, WholeWalks
<1> QED
  BY <1>1, <1>2, <1>3, PTL DEF Spec
=============================================================================
