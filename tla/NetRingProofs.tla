--------------------------- MODULE NetRingProofs ---------------------------
(***************************************************************************)
(* Proofs about NetRing for every number of producers, every ring size,    *)
(* every counter width and every number of calls.                          *)
(***************************************************************************)
EXTENDS NetRing, DataLemmas

-----------------------------------------------------------------------------
(* The constants and the 32-bit fields *)

LEMMA ConstantFacts ==
  /\ Size \in Nat \ {0} /\ Mask \in Nat /\ Mask >= 1 /\ Size = Mask + 1
  /\ CounterMod \in Nat \ {0} /\ CounterMod >= 2 * Size /\ CounterMod % Size = 0
BY RingAssumption DEF Mask

(* The slot of a wrapped cursor is the one the unwrapped count has. *)
LEMMA SlotOfCount ==
  ASSUME NEW n \in Nat
  PROVE  SlotOf(n) = n % Size /\ SlotOf(n) \in 0 .. Mask
<1>0. n \in Int /\ Size \in Nat \ {0} /\ CounterMod \in Nat \ {0} /\ CounterMod % Size = 0
  BY ConstantFacts
<1>1. (n % CounterMod) % Size = n % Size
  BY <1>0, ModOfMod, Zenon
<1>2. (n % Size) \in 0 .. (Size - 1)
  BY ConstantFacts, DivMod
<1> QED
  BY <1>1, <1>2 DEF SlotOf, U32, Mask

(* Counts less than a ring apart have slots of their own. *)
LEMMA SlotsDistinct ==
  ASSUME NEW i \in Nat, NEW j \in Nat, i # j, i - j < Size, j - i < Size
  PROVE  SlotOf(i) # SlotOf(j)
<1>1. SlotOf(i) = i % Size /\ SlotOf(j) = j % Size
  BY SlotOfCount
<1>2. SUFFICES ASSUME i % Size = j % Size PROVE FALSE
  BY <1>1
<1>3. i \in Int /\ j \in Int /\ Size \in Nat \ {0} /\ -Size < i - j /\ i - j < Size
  BY ConstantFacts
<1>4. i = j
  BY <1>2, <1>3, EqualIfCongruent, Zenon
<1> QED
  BY <1>4

(* A cmpset on a cursor that is not a whole round ahead tells the truth. *)
LEMMA CmpSetExact ==
  ASSUME NEW i \in Nat, NEW j \in Nat, i - j < CounterMod, j - i < CounterMod
  PROVE  CmpSet(i, j) <=> i = j
<1>0. i \in Int /\ j \in Int /\ CounterMod \in Nat \ {0}
      /\ -CounterMod < i - j /\ i - j < CounterMod
  BY ConstantFacts
<1>1. ASSUME CmpSet(i, j) PROVE i = j
  <2>1. i % CounterMod = j % CounterMod
    BY <1>1 DEF CmpSet, U32
  <2> QED
    BY <1>0, <2>1, EqualIfCongruent, Zenon
<1> QED
  BY <1>1 DEF CmpSet

(* A wrapped difference is zero exactly when the difference is. *)
LEMMA U32Zero ==
  ASSUME NEW n \in 0 .. (CounterMod - 1)
  PROVE  U32(n) = 0 <=> n = 0
BY ConstantFacts, ModOfSmall DEF U32

-----------------------------------------------------------------------------
(* Types *)

LEMMA ItemOfType ==
  ASSUME TypeOK, NEW p \in Producers, pc[p] # "idle"
  PROVE  ItemOf(p) \in Item
<1>1. MaxCalls[p] \in Nat /\ calls[p] \in Nat /\ calls[p] <= MaxCalls[p] - 1
  BY RingAssumption DEF TypeOK
<1>2. calls[p] \in 0 .. MaxCalls[p] - 1
  BY <1>1
<1> QED
  BY <1>2 DEF ItemOf, Item

LEMMA InitTypeOK == Init => TypeOK
<1> SUFFICES ASSUME Init PROVE TypeOK
  OBVIOUS
<1>1. claims \in Seq(Item) /\ got \in [Consumers -> Seq(Item \cup {NoItem})]
  BY EmptySeq DEF Init
<1> QED
  BY <1>1, RingAssumption DEF Init, TypeOK, PcValues, Threads

LEMMA EnqReturnTypeOK ==
  ASSUME TypeOK, NEW p \in Producers, pc[p] # "idle", EnqReturn(p)
  PROVE  /\ pc' \in [Threads -> PcValues]
         /\ \A q \in Producers : pc'[q] \in {"idle", "readTail", "cas", "store", "publish"}
         /\ \A c \in Consumers : pc'[c] = pc[c]
         /\ head' \in [Threads -> Nat]
         /\ calls' \in [Producers -> Nat]
         /\ \A q \in Producers : calls'[q] <= MaxCalls[q]
         /\ \A q \in Producers : pc'[q] # "idle" => calls'[q] < MaxCalls[q]
<1>1. p \in Threads /\ p \notin Consumers
  BY RingAssumption DEF Threads
<1>2. calls[p] + 1 \in Nat /\ calls[p] + 1 <= MaxCalls[p]
  BY RingAssumption DEF TypeOK
<1>3. pc' \in [Threads -> PcValues] /\ head' \in [Threads -> Nat]
  BY <1>1 DEF TypeOK, EnqReturn, PcValues
<1>4. calls' \in [Producers -> Nat] /\ calls'[p] = calls[p] + 1
  BY <1>2 DEF TypeOK, EnqReturn
<1>5. \A q \in Producers : q # p => pc'[q] = pc[q] /\ calls'[q] = calls[q]
  BY DEF TypeOK, EnqReturn, Threads
<1>6. pc'[p] = "idle" /\ \A c \in Consumers : pc'[c] = pc[c]
  BY <1>1 DEF TypeOK, EnqReturn, Threads
<1>7. \A q \in Producers :
        calls'[q] <= MaxCalls[q] /\ (pc'[q] # "idle" => calls'[q] < MaxCalls[q])
  <2> TAKE q \in Producers
  <2>1. MaxCalls[q] \in Nat
    BY RingAssumption
  <2>2. CASE q = p
    BY <1>2, <1>4, <1>6, <2>1, <2>2
  <2>3. CASE q # p
    BY <1>5, <2>3 DEF TypeOK
  <2> QED
    BY <2>2, <2>3
<1>8. \A q \in Producers : pc'[q] \in {"idle", "readTail", "cas", "store", "publish"}
  BY <1>5, <1>6 DEF TypeOK
<1> QED
  BY <1>3, <1>4, <1>6, <1>7, <1>8

LEMMA EnqueueTypeOK ==
  ASSUME TypeOK, NEW p \in Producers, Enqueue(p)
  PROVE  TypeOK'
<1> USE DEF TypeOK, PcValues, Threads, shared, locals, history
<1>p. p \notin Consumers
  BY RingAssumption
<1>1. CASE EnqReadHead(p)
  <2>1. pc' \in [Threads -> PcValues] /\ calls' = calls /\ \A q \in Producers \ {p} : pc'[q] = pc[q]
    BY <1>1 DEF EnqReadHead
  <2>2. \A q \in Producers : pc'[q] # "idle" => calls'[q] < MaxCalls[q]
    BY <1>1, <2>1 DEF EnqReadHead
  <2> QED
    BY <1>1, <1>p, <2>2 DEF EnqReadHead
<1>2. CASE EnqRefuse(p)
  <2>1. pc[p] # "idle" /\ EnqReturn(p)
    BY <1>2 DEF EnqRefuse
  <2>2. /\ pc' \in [Threads -> PcValues] /\ head' \in [Threads -> Nat]
        /\ calls' \in [Producers -> Nat]
        /\ \A q \in Producers : pc'[q] \in {"idle", "readTail", "cas", "store", "publish"}
        /\ \A c \in Consumers : pc'[c] = pc[c]
        /\ \A q \in Producers : calls'[q] <= MaxCalls[q]
        /\ \A q \in Producers : pc'[q] # "idle" => calls'[q] < MaxCalls[q]
    BY <2>1, EnqReturnTypeOK
  <2> QED
    BY <1>2, <2>2 DEF EnqRefuse
<1>3. CASE EnqRoom(p)
  BY <1>3, <1>p DEF EnqRoom
<1>4. CASE EnqClaim(p)
  <2>1. ItemOf(p) \in Item
    BY <1>4, ItemOfType DEF EnqClaim
  <2>2. claims' \in Seq(Item)
    BY <1>4, <2>1, AppendProperties DEF EnqClaim
  <2> QED
    BY <1>4, <1>p, <2>2 DEF EnqClaim
<1>5. CASE EnqRetry(p)
  BY <1>5, <1>p DEF EnqRetry
<1>6. CASE EnqStore(p)
  <2>1. ItemOf(p) \in Item
    BY <1>6, ItemOfType DEF EnqStore
  <2> QED
    BY <1>6, <1>p, <2>1 DEF EnqStore
<1>7. CASE EnqPublish(p)
  <2>1. pc[p] # "idle" /\ EnqReturn(p)
    BY <1>7 DEF EnqPublish
  <2>2. /\ pc' \in [Threads -> PcValues] /\ head' \in [Threads -> Nat]
        /\ calls' \in [Producers -> Nat]
        /\ \A q \in Producers : pc'[q] \in {"idle", "readTail", "cas", "store", "publish"}
        /\ \A c \in Consumers : pc'[c] = pc[c]
        /\ \A q \in Producers : calls'[q] <= MaxCalls[q]
        /\ \A q \in Producers : pc'[q] # "idle" => calls'[q] < MaxCalls[q]
    BY <2>1, EnqReturnTypeOK
  <2> QED
    BY <1>7, <2>2 DEF EnqPublish
<1> QED
  BY <1>1, <1>2, <1>3, <1>4, <1>5, <1>6, <1>7 DEF Enqueue

LEMMA DequeueTypeOK ==
  ASSUME TypeOK, NEW c \in Consumers, Dequeue(c)
  PROVE  TypeOK'
<1> USE DEF TypeOK, PcValues, Threads, shared, locals, history
<1>c. c \notin Producers
  BY RingAssumption
<1>1. CASE DeqReadTail(c)
  BY <1>1, <1>c DEF DeqReadTail
<1>2. CASE DeqEmpty(c)
  BY <1>2, <1>c DEF DeqEmpty
<1>3. CASE DeqBusy(c)
  BY <1>3, <1>c DEF DeqBusy
<1>4. CASE DeqClaim(c)
  BY <1>4, <1>c DEF DeqClaim
<1>5. CASE DeqRetry(c)
  BY <1>5, <1>c DEF DeqRetry
<1>6. CASE DeqRead(c)
  <2>1. slot[SlotOf(head[c])] \in Item \cup {NoItem}
    BY SlotOfCount
  <2> QED
    BY <1>6, <1>c, <2>1 DEF DeqRead
<1>7. CASE DeqRelease(c)
  <2>1. Append(got[c], item[c]) \in Seq(Item \cup {NoItem})
    BY AppendProperties
  <2> QED
    BY <1>7, <1>c, <2>1 DEF DeqRelease
<1> QED
  BY <1>1, <1>2, <1>3, <1>4, <1>5, <1>6, <1>7 DEF Dequeue

LEMMA StutterTypeOK ==
  ASSUME TypeOK, UNCHANGED vars
  PROVE  TypeOK'
BY DEF TypeOK, vars, shared, locals, history

(* The ring is well typed, whoever uses it: slots, cursors and histories   *)
(* hold what they should and a call that is under way has an item.         *)
THEOREM RingTypeOK == Spec => []TypeOK
<1>1. TypeOK /\ [Next]_vars => TypeOK'
  BY EnqueueTypeOK, DequeueTypeOK, StutterTypeOK DEF Next
<1> QED
  BY InitTypeOK, <1>1, PTL DEF Spec

-----------------------------------------------------------------------------
(* The inductive invariant: what a step of one thread leaves of the facts  *)
(* about the others.                                                       *)

LEMMA InitRingInv == Init => RingInv
BY RingAssumption
   DEF Init, RingInv, CursorsOrdered, PublishedIntact, ClaimsDistinct, ProducerInv,
       ConsumerInv, Threads, Mask

(* What a producer knows survives the others as long as the cursors only   *)
(* advance, its own claim is not passed by prod.tail and its own slot and  *)
(* the claims already made are left alone.                                 *)
LEMMA ProducerKeeps ==
  ASSUME TypeOK, RingInv, TypeOK', NEW q \in Producers,
         pc'[q] = pc[q], head'[q] = head[q], calls'[q] = calls[q],
         prodHead <= prodHead', consTail <= consTail',
         pc[q] \in {"readTail", "cas"} => prodHead' - head[q] <= CounterMod - Size,
         pc[q] \in {"store", "publish"} => prodTail' <= head[q],
         pc[q] = "publish" => slot'[SlotOf(head[q])] = slot[SlotOf(head[q])],
         \A i \in 1 .. prodHead : claims'[i] = claims[i]
  PROVE  ProducerInv(q)'
<1>1. head[q] \in Nat /\ prodHead \in Nat /\ prodTail \in Nat /\ consTail \in Nat
      /\ prodHead' \in Nat /\ prodTail' \in Nat /\ consTail' \in Nat
      /\ Mask \in Nat /\ ProducerInv(q)
  BY ConstantFacts DEF TypeOK, RingInv, Threads
<1>2. pc[q] \in {"store", "publish"} => claims'[head[q] + 1] = claims[head[q] + 1]
  BY <1>1 DEF ProducerInv
<1>3. ItemOf(q)' = ItemOf(q)
  BY DEF ItemOf
<1> HIDE DEF TypeOK, RingInv
<1> QED
  BY <1>1, <1>2, <1>3 DEF ProducerInv, SlotOf, U32

(* What the consumer knows survives every step of a producer.              *)
LEMMA ConsumerKeeps ==
  ASSUME TypeOK, RingInv, TypeOK', NEW c \in Consumers,
         pc'[c] = pc[c], head'[c] = head[c],
         tail' = tail, item' = item, got' = got,
         consHead' = consHead, consTail' = consTail, prodTail <= prodTail',
         \A i \in 1 .. prodHead : claims'[i] = claims[i]
  PROVE  ConsumerInv(c)'
<1>1. tail[c] \in Nat /\ prodHead \in Nat /\ prodTail \in Nat /\ consTail \in Nat
      /\ consHead \in Nat /\ prodTail' \in Nat /\ CursorsOrdered /\ ConsumerInv(c)
  BY DEF TypeOK, RingInv
<1>2. \A i \in 1 .. consTail : claims'[i] = claims[i]
  BY <1>1 DEF CursorsOrdered
<1>3. pc[c] = "release" => claims'[consTail + 1] = claims[consTail + 1]
  BY <1>1 DEF CursorsOrdered, ConsumerInv
<1> QED
  BY <1>1, <1>2, <1>3 DEF ConsumerInv

(* A producer writes only its own place of pc, head and calls, and nothing *)
(* that belongs to the consumers.                                          *)
LEMMA EnqueueFrame ==
  ASSUME TypeOK, NEW p \in Producers, Enqueue(p)
  PROVE  /\ \A t \in Threads : t # p => pc'[t] = pc[t] /\ head'[t] = head[t]
         /\ \A q \in Producers : q # p => calls'[q] = calls[q]
         /\ tail' = tail /\ item' = item /\ got' = got
         /\ consHead' = consHead /\ consTail' = consTail
BY DEF TypeOK, Enqueue, EnqReadHead, EnqRefuse, EnqRoom, EnqClaim, EnqRetry, EnqStore,
       EnqPublish, EnqReturn, shared, locals, history


(* The others keep what they know, so a step that leaves the shared        *)
(* variables alone has only its own place in the call to account for.      *)
LEMMA EnqueueLocalInv ==
  ASSUME TypeOK, RingInv, TypeOK', NEW p \in Producers, Enqueue(p),
         UNCHANGED <<shared, claims>>,
         pc'[p] \notin {"store", "publish"}, ProducerInv(p)'
  PROVE  RingInv'
<1>0. prodHead \in Nat /\ prodTail \in Nat /\ consTail \in Nat
  BY DEF TypeOK
<1>1. \A q \in Producers : ProducerInv(q)'
  <2> SUFFICES ASSUME NEW q \in Producers, q # p PROVE ProducerInv(q)'
    OBVIOUS
  <2>1. pc'[q] = pc[q] /\ head'[q] = head[q] /\ calls'[q] = calls[q]
    BY EnqueueFrame DEF Threads
  <2> QED
    BY <1>0, <2>1, ProducerKeeps DEF RingInv, ProducerInv, shared
<1>2. \A c \in Consumers : ConsumerInv(c)'
  <2> TAKE c \in Consumers
  <2>1. c # p /\ c \in Threads
    BY RingAssumption DEF Threads
  <2> QED
    BY <1>0, <2>1, EnqueueFrame, ConsumerKeeps DEF shared
<1>3. ClaimsDistinct'
  BY EnqueueFrame DEF RingInv, ClaimsDistinct, Threads
<1> QED
  BY <1>1, <1>2, <1>3 DEF RingInv, CursorsOrdered, PublishedIntact, shared, SlotOf, U32

LEMMA EnqReadHeadInv ==
  ASSUME TypeOK, RingInv, TypeOK', NEW p \in Producers, EnqReadHead(p)
  PROVE  RingInv'
<1>1. pc'[p] = "readTail" /\ head'[p] = prodHead /\ UNCHANGED <<shared, claims>>
  BY DEF EnqReadHead, TypeOK, Threads, history
<1>2. ProducerInv(p)'
  BY <1>1, ConstantFacts DEF TypeOK, ProducerInv, shared
<1> QED
  BY <1>1, <1>2, EnqueueLocalInv DEF Enqueue

(* A thread outside its call has nothing to know. *)
LEMMA EnqIdleInv ==
  ASSUME TypeOK, RingInv, TypeOK', NEW p \in Producers, Enqueue(p),
         UNCHANGED <<shared, claims>>, pc'[p] = "idle"
  PROVE  RingInv'
BY EnqueueLocalInv DEF ProducerInv

(* The producer sees room: with the snapshot head[p] no newer than          *)
(* prod.head the wrapped difference can be zero only if the ring is full.  *)
LEMMA EnqRoomInv ==
  ASSUME TypeOK, RingInv, TypeOK', NEW p \in Producers, EnqRoom(p)
  PROVE  RingInv'
<1>1. pc'[p] = "cas" /\ head'[p] = head[p] /\ UNCHANGED <<shared, claims>>
      /\ pc[p] = "readTail" /\ FreeEntries(p) # 0
  BY DEF EnqRoom, TypeOK, Threads, history
<1>2. head[p] \in Nat /\ prodHead \in Nat /\ consTail \in Nat /\ Mask \in Nat
      /\ head[p] <= prodHead /\ prodHead - head[p] <= CounterMod - Size
      /\ prodHead <= consTail + Mask
  BY <1>1, ConstantFacts DEF TypeOK, RingInv, ProducerInv, CursorsOrdered, Threads
<1>3. head[p] # consTail + Mask
  <2> SUFFICES ASSUME head[p] = consTail + Mask PROVE FALSE
    OBVIOUS
  <2>1. consTail - head[p] + Mask = 0
    BY <1>2
  <2>2. U32(0) = 0
    BY U32Zero, ConstantFacts
  <2> QED
    BY <1>1, <2>1, <2>2 DEF FreeEntries
<1>4. ProducerInv(p)'
  BY <1>1, <1>2, <1>3 DEF ProducerInv, shared
<1> QED
  BY <1>1, <1>4, EnqueueLocalInv DEF Enqueue

(* The claim: the cmpset succeeds only if prod.head still is the snapshot,  *)
(* so the room seen then is there now, and nobody else holds the slot.     *)
LEMMA EnqClaimInv ==
  ASSUME TypeOK, RingInv, TypeOK', NEW p \in Producers, EnqClaim(p)
  PROVE  RingInv'
<1> DEFINE x == ItemOf(p)
<1>0. /\ prodHead \in Nat /\ prodTail \in Nat /\ consTail \in Nat /\ consHead \in Nat
      /\ Mask \in Nat /\ head \in [Threads -> Nat] /\ claims \in Seq(Item)
      /\ p \in Threads /\ CursorsOrdered /\ Len(claims) = prodHead
  BY ConstantFacts DEF TypeOK, RingInv, Threads
<1>1. /\ pc[p] = "cas" /\ pc'[p] = "store" /\ prodHead' = prodHead + 1
      /\ claims' = Append(claims, x) /\ x \in Item
      /\ UNCHANGED <<prodTail, consHead, consTail, slot, head, tail, item, calls, got>>
  BY ItemOfType DEF EnqClaim, TypeOK, Threads
<1>2. prodHead = head[p]
  <2>1. head[p] <= prodHead /\ prodHead - head[p] <= CounterMod - Size
    BY <1>1 DEF RingInv, ProducerInv
  <2>2. prodHead - head[p] < CounterMod /\ head[p] - prodHead < CounterMod
    BY <1>0, <2>1, ConstantFacts
  <2> QED
    BY <1>0, <2>2, CmpSetExact DEF EnqClaim
<1>3. prodHead' <= consTail' + Mask
  BY <1>0, <1>1, <1>2 DEF RingInv, ProducerInv
<1>4. /\ Len(claims') = prodHead' /\ claims'[prodHead + 1] = x
      /\ \A i \in 1 .. prodHead : claims'[i] = claims[i]
  BY <1>0, <1>1, AppendProperties
<1>5. CursorsOrdered'
  BY <1>0, <1>1, <1>3 DEF CursorsOrdered
<1>6. PublishedIntact'
  BY <1>0, <1>1, <1>4 DEF RingInv, PublishedIntact, CursorsOrdered, SlotOf, U32
<1>7. \A q \in Producers : q # p /\ pc[q] \in {"store", "publish"} => head[q] < prodHead
  BY DEF RingInv, ProducerInv
<1>8. ClaimsDistinct'
  <2> SUFFICES ASSUME NEW q \in Producers, NEW r \in Producers, q # r,
                      pc'[q] \in {"store", "publish"}, pc'[r] \in {"store", "publish"},
                      head'[q] = head'[r]
               PROVE  FALSE
    BY DEF ClaimsDistinct
  <2>1. \A t \in Producers : t # p => pc'[t] = pc[t]
    BY EnqueueFrame DEF Enqueue, Threads
  <2>2. CASE q # p /\ r # p
    BY <1>1, <2>1, <2>2 DEF RingInv, ClaimsDistinct
  <2>3. CASE q = p
    BY <1>0, <1>1, <1>2, <1>7, <2>1, <2>3 DEF Threads
  <2>4. CASE r = p
    BY <1>0, <1>1, <1>2, <1>7, <2>1, <2>4 DEF Threads
  <2> QED
    BY <2>2, <2>3, <2>4
<1>9. \A q \in Producers : ProducerInv(q)'
  <2>1. ProducerInv(p)'
    BY <1>0, <1>1, <1>2, <1>4 DEF ProducerInv, CursorsOrdered, ItemOf
  <2>2. ASSUME NEW q \in Producers, q # p PROVE ProducerInv(q)'
    <3>1. pc'[q] = pc[q] /\ head'[q] = head[q] /\ calls'[q] = calls[q]
      BY <2>2, EnqueueFrame DEF Enqueue, Threads
    <3>2. pc[q] \in {"readTail", "cas"} => prodHead' - head[q] <= CounterMod - Size
      <4>1. NoLap /\ head[q] \in Nat
        BY DEF EnqClaim, TypeOK, Threads
      <4> QED
        BY <1>0, <1>1, <4>1 DEF NoLap
    <3>3. pc[q] \in {"store", "publish"} => prodTail' <= head[q]
      BY <1>1 DEF RingInv, ProducerInv
    <3> QED
      BY <1>0, <1>1, <1>4, <3>1, <3>2, <3>3, ProducerKeeps
  <2> QED
    BY <2>1, <2>2
<1>10. \A c \in Consumers : ConsumerInv(c)'
  <2> TAKE c \in Consumers
  <2>1. pc'[c] = pc[c] /\ head'[c] = head[c]
    BY RingAssumption, EnqueueFrame DEF Enqueue, Threads
  <2> QED
    BY <1>0, <1>1, <1>4, <2>1, ConsumerKeeps
<1> QED
  BY <1>4, <1>5, <1>6, <1>8, <1>9, <1>10 DEF RingInv

(* The store: the claimed slot is none of the published ones, and no other *)
(* claim is on it.                                                         *)
LEMMA EnqStoreInv ==
  ASSUME TypeOK, RingInv, TypeOK', NEW p \in Producers, EnqStore(p)
  PROVE  RingInv'
<1>0. /\ prodHead \in Nat /\ prodTail \in Nat /\ consTail \in Nat /\ consHead \in Nat
      /\ Mask \in Nat /\ Size = Mask + 1 /\ head \in [Threads -> Nat] /\ p \in Threads
      /\ slot \in [0 .. Mask -> Item \cup {NoItem}] /\ CursorsOrdered
  BY ConstantFacts DEF TypeOK, RingInv, Threads
<1>1. /\ pc[p] = "store" /\ pc'[p] = "publish"
      /\ slot' = [slot EXCEPT ![SlotOf(head[p])] = ItemOf(p)]
      /\ UNCHANGED <<prodHead, prodTail, consHead, consTail, head, tail, item, calls, claims, got>>
  BY DEF EnqStore, TypeOK, Threads, history
<1>2. /\ prodTail <= head[p] /\ head[p] < prodHead /\ claims[head[p] + 1] = ItemOf(p)
      /\ head[p] \in Nat
  BY <1>0, <1>1 DEF RingInv, ProducerInv
<1>3. ASSUME NEW i \in Nat, i # head[p], consTail <= i, i < prodHead
      PROVE  slot'[SlotOf(i)] = slot[SlotOf(i)]
  <2>1. i - head[p] < Size /\ head[p] - i < Size
    BY <1>0, <1>2, <1>3 DEF CursorsOrdered
  <2>2. SlotOf(i) # SlotOf(head[p])
    BY <1>2, <1>3, <2>1, SlotsDistinct
  <2>3. SlotOf(i) \in 0 .. Mask
    BY SlotOfCount
  <2> QED
    BY <1>0, <1>1, <2>2, <2>3
<1>4. PublishedIntact'
  <2> SUFFICES ASSUME NEW i \in consTail .. prodTail - 1
               PROVE  slot'[SlotOf(i)] = claims[i + 1]
    BY <1>1 DEF PublishedIntact, SlotOf, U32
  <2>1. i \in Nat /\ i # head[p] /\ consTail <= i /\ i < prodHead
    BY <1>0, <1>2 DEF CursorsOrdered
  <2> QED
    BY <1>0, <1>3, <2>1 DEF RingInv, PublishedIntact
<1>5. ClaimsDistinct'
  BY <1>1, EnqueueFrame DEF Enqueue, Threads, RingInv, ClaimsDistinct
<1>6. \A q \in Producers : ProducerInv(q)'
  <2>1. ProducerInv(p)'
    <3>1. SlotOf(head[p]) \in 0 .. Mask
      BY <1>2, SlotOfCount
    <3>2. slot'[SlotOf(head[p])] = ItemOf(p)
      BY <1>0, <1>1, <3>1
    <3> QED
      BY <1>1, <1>2, <3>2 DEF ProducerInv, SlotOf, U32, ItemOf
  <2>2. ASSUME NEW q \in Producers, q # p PROVE ProducerInv(q)'
    <3>1. pc'[q] = pc[q] /\ head'[q] = head[q] /\ calls'[q] = calls[q] /\ head[q] \in Nat
      BY <1>0, <2>2, EnqueueFrame DEF Enqueue, Threads
    <3>2. ProducerInv(q)
      BY DEF RingInv
    <3>3. pc[q] = "publish" => slot'[SlotOf(head[q])] = slot[SlotOf(head[q])]
      <4> SUFFICES ASSUME pc[q] = "publish" PROVE slot'[SlotOf(head[q])] = slot[SlotOf(head[q])]
        OBVIOUS
      <4>1. head[q] # head[p]
        BY <1>1, <2>2 DEF RingInv, ClaimsDistinct
      <4>2. prodTail <= head[q] /\ head[q] < prodHead
        BY <3>2 DEF ProducerInv
      <4>3. consTail <= head[q]
        BY <1>0, <3>1, <4>2 DEF CursorsOrdered
      <4> QED
        BY <1>3, <3>1, <4>1, <4>2, <4>3
    <3>4. pc[q] \in {"readTail", "cas"} => prodHead' - head[q] <= CounterMod - Size
      BY <1>1, <3>2 DEF ProducerInv
    <3>5. pc[q] \in {"store", "publish"} => prodTail' <= head[q]
      BY <1>1, <3>2 DEF ProducerInv
    <3> QED
      BY <1>0, <1>1, <3>1, <3>3, <3>4, <3>5, ProducerKeeps
  <2> QED
    BY <2>1, <2>2
<1>7. \A c \in Consumers : ConsumerInv(c)'
  <2> TAKE c \in Consumers
  <2>1. pc'[c] = pc[c] /\ head'[c] = head[c]
    BY RingAssumption, EnqueueFrame DEF Enqueue, Threads
  <2> QED
    BY <1>0, <1>1, <2>1, ConsumerKeeps
<1> QED
  BY <1>1, <1>4, <1>5, <1>6, <1>7 DEF RingInv, CursorsOrdered

(* The publication: its turn come, the producer owns the first slot that   *)
(* is not published, and has filled it.                                    *)
LEMMA EnqPublishInv ==
  ASSUME TypeOK, RingInv, TypeOK', NEW p \in Producers, EnqPublish(p)
  PROVE  RingInv'
<1>0. /\ prodHead \in Nat /\ prodTail \in Nat /\ consTail \in Nat /\ consHead \in Nat
      /\ Mask \in Nat /\ Size = Mask + 1 /\ CounterMod \in Nat /\ CounterMod >= 2 * Size
      /\ head \in [Threads -> Nat] /\ p \in Threads /\ CursorsOrdered
  BY ConstantFacts DEF TypeOK, RingInv, Threads
<1>1. /\ pc[p] = "publish" /\ pc'[p] = "idle" /\ prodTail' = prodTail + 1
      /\ UNCHANGED <<prodHead, consHead, consTail, slot, tail, item, claims, got>>
  BY DEF EnqPublish, EnqReturn, TypeOK, Threads, history
<1>2. /\ prodTail <= head[p] /\ head[p] < prodHead /\ claims[head[p] + 1] = ItemOf(p)
      /\ slot[SlotOf(head[p])] = ItemOf(p) /\ head[p] \in Nat
  BY <1>0, <1>1 DEF RingInv, ProducerInv
<1>3. head[p] = prodTail
  <2>1. prodTail - head[p] < CounterMod /\ head[p] - prodTail < CounterMod
    BY <1>0, <1>2 DEF CursorsOrdered
  <2> QED
    BY <1>0, <1>2, <2>1, CmpSetExact DEF EnqPublish
<1>4. CursorsOrdered'
  BY <1>0, <1>1, <1>2, <1>3 DEF CursorsOrdered
<1>5. PublishedIntact'
  <2> SUFFICES ASSUME NEW i \in consTail .. prodTail PROVE slot[SlotOf(i)] = claims[i + 1]
    BY <1>0, <1>1 DEF PublishedIntact, SlotOf, U32
  <2> QED
    BY <1>0, <1>2, <1>3 DEF RingInv, PublishedIntact
<1>6. \A q \in Producers : q # p => pc'[q] = pc[q] /\ head'[q] = head[q] /\ calls'[q] = calls[q]
  BY EnqueueFrame DEF Enqueue, Threads
<1>7. ClaimsDistinct'
  BY <1>1, <1>6 DEF RingInv, ClaimsDistinct
<1>8. \A q \in Producers : ProducerInv(q)'
  <2>1. ProducerInv(p)'
    BY <1>1 DEF ProducerInv
  <2>2. ASSUME NEW q \in Producers, q # p PROVE ProducerInv(q)'
    <3>1. ProducerInv(q) /\ head[q] \in Nat
      BY <1>0 DEF RingInv, Threads
    <3>2. pc[q] \in {"store", "publish"} => prodTail' <= head[q]
      <4> SUFFICES ASSUME pc[q] \in {"store", "publish"} PROVE prodTail + 1 <= head[q]
        BY <1>1
      <4>1. head[q] # head[p]
        BY <1>1, <2>2 DEF RingInv, ClaimsDistinct
      <4> QED
        BY <1>0, <1>3, <3>1, <4>1 DEF ProducerInv
    <3>3. pc[q] \in {"readTail", "cas"} => prodHead' - head[q] <= CounterMod - Size
      BY <1>1, <3>1 DEF ProducerInv
    <3> QED
      BY <1>0, <1>1, <1>6, <2>2, <3>2, <3>3, ProducerKeeps
  <2> QED
    BY <2>1, <2>2
<1>9. \A c \in Consumers : ConsumerInv(c)'
  <2> TAKE c \in Consumers
  <2>1. pc'[c] = pc[c] /\ head'[c] = head[c]
    BY RingAssumption, EnqueueFrame DEF Enqueue, Threads
  <2>2. prodTail <= prodTail'
    BY <1>0, <1>1
  <2> QED
    BY <1>1, <2>1, <2>2, ConsumerKeeps
<1> QED
  BY <1>1, <1>4, <1>5, <1>7, <1>8, <1>9 DEF RingInv

LEMMA EnqueueInv ==
  ASSUME TypeOK, RingInv, TypeOK', NEW p \in Producers, Enqueue(p)
  PROVE  RingInv'
<1>1. CASE EnqReadHead(p)
  BY <1>1, EnqReadHeadInv
<1>2. CASE EnqRefuse(p)
  <2>1. pc'[p] = "idle" /\ UNCHANGED <<shared, claims>>
    BY <1>2 DEF EnqRefuse, EnqReturn, TypeOK, Threads, history
  <2> QED
    BY <2>1, EnqIdleInv
<1>3. CASE EnqRoom(p)
  BY <1>3, EnqRoomInv
<1>4. CASE EnqClaim(p)
  BY <1>4, EnqClaimInv
<1>5. CASE EnqRetry(p)
  <2>1. pc'[p] = "idle" /\ UNCHANGED <<shared, claims>>
    BY <1>5 DEF EnqRetry, TypeOK, Threads, history
  <2> QED
    BY <2>1, EnqIdleInv
<1>6. CASE EnqStore(p)
  BY <1>6, EnqStoreInv
<1>7. CASE EnqPublish(p)
  BY <1>7, EnqPublishInv
<1> QED
  BY <1>1, <1>2, <1>3, <1>4, <1>5, <1>6, <1>7 DEF Enqueue

-----------------------------------------------------------------------------
(* The consumer, alone on its ring *)

(* A consumer leaves alone what the producers own.                         *)
LEMMA DequeueFrame ==
  ASSUME TypeOK, NEW c \in Consumers, Dequeue(c)
  PROVE  /\ \A t \in Threads : t # c => pc'[t] = pc[t] /\ head'[t] = head[t]
         /\ UNCHANGED <<prodHead, prodTail, slot, calls, claims>>
BY DEF TypeOK, Dequeue, DeqReadTail, DeqEmpty, DeqBusy, DeqClaim, DeqRetry, DeqRead,
       DeqRelease, shared, locals, history

(* For the producers a step of the consumer can only make room.            *)
LEMMA DequeueKeepsProducers ==
  ASSUME TypeOK, RingInv, TypeOK', NEW c \in Consumers, Dequeue(c), consTail <= consTail'
  PROVE  (\A q \in Producers : ProducerInv(q)') /\ ClaimsDistinct'
<1>0. prodHead \in Nat /\ prodTail \in Nat
  BY DEF TypeOK
<1>1. \A q \in Producers : pc'[q] = pc[q] /\ head'[q] = head[q] /\ calls'[q] = calls[q]
  BY RingAssumption, DequeueFrame DEF Threads
<1>2. ClaimsDistinct'
  BY <1>1 DEF RingInv, ClaimsDistinct
<1>3. ASSUME NEW q \in Producers PROVE ProducerInv(q)'
  <2>1. ProducerInv(q)
    BY DEF RingInv
  <2>2. pc[q] \in {"readTail", "cas"} => prodHead' - head[q] <= CounterMod - Size
    BY <2>1, DequeueFrame DEF ProducerInv
  <2>3. pc[q] \in {"store", "publish"} => prodTail' <= head[q]
    BY <2>1, DequeueFrame DEF ProducerInv
  <2> QED
    BY <1>0, <1>1, <2>2, <2>3, DequeueFrame, ProducerKeeps
<1> QED
  BY <1>2, <1>3

LEMMA DequeueInv ==
  ASSUME SingleConsumer, TypeOK, RingInv, TypeOK', NEW c \in Consumers, Dequeue(c)
  PROVE  RingInv'
<1>0. /\ prodHead \in Nat /\ prodTail \in Nat /\ consTail \in Nat /\ consHead \in Nat
      /\ Mask \in Nat /\ head[c] \in Nat /\ tail[c] \in Nat /\ c \in Threads
      /\ got \in [Consumers -> Seq(Item \cup {NoItem})] /\ item[c] \in Item \cup {NoItem}
      /\ CursorsOrdered /\ PublishedIntact /\ Len(claims) = prodHead /\ ConsumerInv(c)
  BY ConstantFacts DEF TypeOK, RingInv, Threads
<1>1. UNCHANGED <<prodHead, prodTail, slot, calls, claims>>
  BY DequeueFrame
<1>2. SUFFICES /\ consTail <= consTail'
               /\ CursorsOrdered'
               /\ ConsumerInv(c)'
  <2>1. \A d \in Consumers : d = c
    BY DEF SingleConsumer
  <2>2. ASSUME consTail <= consTail' PROVE PublishedIntact'
    <3>1. consTail' \in Nat
      BY DEF TypeOK
    <3> QED
      BY <1>0, <1>1, <2>2, <3>1 DEF PublishedIntact, SlotOf, U32
  <2> QED
    BY <1>0, <1>1, <2>1, <2>2, DequeueKeepsProducers DEF RingInv
<1>3. CASE DeqReadTail(c)
  <2>1. /\ pc[c] = "idle" /\ pc'[c] = "readHead" /\ tail'[c] = prodTail
        /\ UNCHANGED <<consHead, consTail, head, item, got>>
    BY <1>3 DEF DeqReadTail, TypeOK, Threads, shared, history
  <2> QED
    BY <1>0, <1>1, <2>1 DEF CursorsOrdered, ConsumerInv
<1>4. CASE DeqEmpty(c)
  <2>1. /\ pc[c] = "readHead" /\ pc'[c] = "idle" /\ UNCHANGED <<consHead, consTail, item, got>>
    BY <1>4 DEF DeqEmpty, TypeOK, Threads, shared, history
  <2> QED
    BY <1>0, <1>1, <2>1 DEF CursorsOrdered, ConsumerInv
<1>5. CASE DeqBusy(c)
  <2>1. /\ pc[c] = "readHead" /\ pc'[c] = "cas" /\ head'[c] = consHead
        /\ UNCHANGED <<consHead, consTail, tail, item, got>>
    BY <1>5 DEF DeqBusy, TypeOK, Threads, shared, history
  <2>2. tail[c] # consHead
    <3>1. U32(0) = 0
      BY U32Zero, ConstantFacts
    <3> QED
      BY <1>0, <1>5, <3>1 DEF DeqBusy, BusyEntries
  <2> QED
    BY <1>0, <1>1, <2>1, <2>2 DEF CursorsOrdered, ConsumerInv
<1>6. CASE DeqClaim(c)
  <2>1. /\ pc[c] = "cas" /\ pc'[c] = "read" /\ consHead' = consHead + 1
        /\ UNCHANGED <<consTail, head, item, got>>
    BY <1>6 DEF DeqClaim, TypeOK, Threads, history
  <2>2. /\ consHead = consTail /\ head[c] = consHead
        /\ consHead < tail[c] /\ tail[c] <= prodTail
    BY <1>0, <2>1 DEF ConsumerInv
  <2>3. CursorsOrdered'
    BY <1>0, <1>1, <2>1, <2>2 DEF CursorsOrdered
  <2>4. ConsumerInv(c)'
    BY <1>0, <1>1, <2>1, <2>2 DEF ConsumerInv
  <2> QED
    BY <1>0, <2>1, <2>3, <2>4
<1>7. CASE DeqRetry(c)
  <2>1. pc[c] = "cas" /\ pc'[c] = "idle" /\ UNCHANGED <<consHead, consTail, item, got>>
    BY <1>7 DEF DeqRetry, TypeOK, Threads, shared, history
  <2> QED
    BY <1>0, <1>1, <2>1 DEF CursorsOrdered, ConsumerInv
<1>8. CASE DeqRead(c)
  <2>1. /\ pc[c] = "read" /\ pc'[c] = "release" /\ item'[c] = slot[SlotOf(head[c])]
        /\ UNCHANGED <<consHead, consTail, head, got>>
    BY <1>8 DEF DeqRead, TypeOK, Threads, shared, history
  <2>2. slot[SlotOf(consTail)] = claims[consTail + 1]
    BY <1>0, <2>1 DEF CursorsOrdered, PublishedIntact, ConsumerInv
  <2>3. head[c] = consTail /\ item'[c] = claims[consTail + 1]
    BY <1>0, <2>1, <2>2 DEF ConsumerInv
  <2>4. CursorsOrdered'
    BY <1>0, <1>1, <2>1 DEF CursorsOrdered
  <2>5. ConsumerInv(c)'
    BY <1>0, <1>1, <2>1, <2>3 DEF ConsumerInv
  <2> QED
    BY <1>0, <2>1, <2>4, <2>5
<1>9. CASE DeqRelease(c)
  <2>1. /\ pc[c] = "release" /\ pc'[c] = "idle" /\ consTail' = consTail + 1
        /\ item'[c] = NoItem /\ got'[c] = Append(got[c], item[c]) /\ UNCHANGED consHead
    BY <1>9 DEF DeqRelease, TypeOK, Threads
  <2>2. consHead = consTail + 1 /\ item[c] = claims[consTail + 1] /\ Len(got[c]) = consTail
    BY <1>0, <2>1 DEF ConsumerInv
  <2>3. /\ Len(got'[c]) = consTail + 1 /\ got'[c][consTail + 1] = claims[consTail + 1]
        /\ \A i \in 1 .. consTail : got'[c][i] = got[c][i]
    BY <1>0, <2>1, <2>2, AppendProperties
  <2>4. \A i \in 1 .. consTail + 1 : got'[c][i] = claims[i]
    BY <1>0, <2>3 DEF ConsumerInv
  <2> QED
    BY <1>0, <1>1, <2>1, <2>2, <2>3, <2>4 DEF CursorsOrdered, ConsumerInv
<1> QED
  BY <1>3, <1>4, <1>5, <1>6, <1>7, <1>8, <1>9 DEF Dequeue

LEMMA StutterInv ==
  ASSUME RingInv, UNCHANGED vars
  PROVE  RingInv'
BY DEF RingInv, CursorsOrdered, PublishedIntact, ClaimsDistinct, ProducerInv, ConsumerInv,
       SlotOf, U32, ItemOf, vars, shared, locals, history

-----------------------------------------------------------------------------
(* With one consumer, any number of producers and a ring and counters of   *)
(* any size the inductive invariant of the ring holds.                     *)
THEOREM RingInvariant ==
  ASSUME SingleConsumer
  PROVE  Spec => [](TypeOK /\ RingInv)
<1>1. Init => TypeOK /\ RingInv
  BY InitTypeOK, InitRingInv
<1>2. TypeOK /\ RingInv /\ [Next]_vars => TypeOK' /\ RingInv'
  BY EnqueueTypeOK, DequeueTypeOK, StutterTypeOK, EnqueueInv, DequeueInv, StutterInv DEF Next
<1> QED
  BY <1>1, <1>2, PTL DEF Spec

(* The cursors stay in order and within the capacity of one another        *)
(* although producers read them at different moments.                      *)
THEOREM RingCursorsOrdered ==
  ASSUME SingleConsumer
  PROVE  Spec => []CursorsOrdered
BY RingInvariant, PTL DEF RingInv

(* No item that waits in the ring is ever overwritten or read too early.   *)
THEOREM RingPublishedIntact ==
  ASSUME SingleConsumer
  PROVE  Spec => []PublishedIntact
BY RingInvariant, PTL DEF RingInv

(* The consumer gets the items in the order of their claims, none lost,    *)
(* none twice.                                                             *)
THEOREM RingDeliversInOrder ==
  ASSUME SingleConsumer
  PROVE  Spec => []DeliveredInOrder
<1>1. TypeOK /\ RingInv => DeliveredInOrder
  <2> SUFFICES ASSUME TypeOK, RingInv, NEW c \in Consumers
               PROVE  Len(got[c]) <= Len(claims) /\ \A i \in 1 .. Len(got[c]) : got[c][i] = claims[i]
    BY DEF DeliveredInOrder
  <2>1. /\ Len(got[c]) = consTail /\ Len(claims) = prodHead /\ CursorsOrdered
        /\ \A i \in 1 .. consTail : got[c][i] = claims[i]
    BY DEF RingInv, ConsumerInv
  <2> QED
    BY <2>1 DEF TypeOK, CursorsOrdered
<1> QED
  BY <1>1, RingInvariant, PTL

(* Two producers never spin for the same turn, so load and store of the    *)
(* spin loop are as good as one step.                                      *)
THEOREM RingProducersTurn ==
  ASSUME SingleConsumer
  PROVE  Spec => []ProducersTurn
<1>1. TypeOK /\ RingInv => ProducersTurn
  <2> SUFFICES ASSUME TypeOK, RingInv, NEW p \in Producers, NEW q \in Producers,
                      pc[p] \in {"store", "publish"}, pc[q] \in {"store", "publish"},
                      CmpSet(head[p], head[q])
               PROVE  p = q
    BY DEF ProducersTurn
  <2>1. /\ head[p] \in Nat /\ head[q] \in Nat /\ prodTail \in Nat /\ prodHead \in Nat
        /\ consTail \in Nat /\ consHead \in Nat /\ Mask \in Nat /\ Size = Mask + 1
        /\ CounterMod \in Nat /\ CounterMod >= 2 * Size /\ CursorsOrdered
        /\ ProducerInv(p) /\ ProducerInv(q)
    BY ConstantFacts DEF TypeOK, RingInv, Threads
  <2>2. head[p] - head[q] < CounterMod /\ head[q] - head[p] < CounterMod
    BY <2>1 DEF ProducerInv, CursorsOrdered
  <2>3. head[p] = head[q]
    BY <2>1, <2>2, CmpSetExact
  <2> QED
    BY <2>3 DEF RingInv, ClaimsDistinct
<1> QED
  BY <1>1, RingInvariant, PTL

(* A refusal is never a mistake: at the moment an enqueue gives up every    *)
(* slot of the capacity is claimed and not yet released.                   *)
THEOREM RingRefusesOnlyWhenFull ==
  ASSUME SingleConsumer
  PROVE  Spec => RefusedOnlyWhenFull
<1> DEFINE OnlyWhenFull == \A p \in Producers : Refused(p) => prodHead - consTail = Mask
<1>1. TypeOK /\ RingInv /\ TypeOK' /\ [Next]_vars => [OnlyWhenFull]_vars
  <2> SUFFICES ASSUME TypeOK, RingInv, Next, NEW p \in Producers, Refused(p)
               PROVE  prodHead - consTail = Mask
    BY DEF Refused
  <2>1. EnqRefuse(p)
    <3>1. pc[p] = "readTail" /\ pc'[p] = "idle"
      BY DEF Refused
    <3>2. \A c \in Consumers : ~Dequeue(c)
      BY <3>1, RingAssumption, DequeueFrame DEF Threads
    <3>3. \A q \in Producers : Enqueue(q) => q = p
      BY <3>1, EnqueueFrame DEF Threads
    <3>4. Enqueue(p)
      BY <3>2, <3>3 DEF Next
    <3> QED
      BY <3>1, <3>4 DEF Enqueue, EnqReadHead, EnqRoom, EnqClaim, EnqRetry, EnqStore,
                        EnqPublish, TypeOK, Threads
  <2>2. /\ head[p] \in Nat /\ prodHead \in Nat /\ consTail \in Nat /\ consHead \in Nat
        /\ prodTail \in Nat /\ Mask \in Nat /\ Size = Mask + 1 /\ Size \in Nat
        /\ CounterMod \in Nat /\ CounterMod >= 2 * Size /\ CursorsOrdered
    BY ConstantFacts DEF TypeOK, RingInv, Threads
  <2>3. head[p] <= prodHead /\ prodHead - head[p] <= CounterMod - Size
    BY <2>1 DEF EnqRefuse, RingInv, ProducerInv
  <2>4. consTail - head[p] + Mask \in 0 .. (CounterMod - 1)
    BY <2>2, <2>3 DEF CursorsOrdered
  <2>5. consTail - head[p] + Mask = 0
    BY <2>1, <2>4, U32Zero DEF EnqRefuse, FreeEntries
  <2> QED
    BY <2>2, <2>3, <2>5 DEF CursorsOrdered
<1> QED
  BY <1>1, RingInvariant, PTL DEF RefusedOnlyWhenFull, Spec

(* A ring has room for what its creator asked for, as soon as the rounding *)
(* gives it more slots than that: the slot that is never used is extra.    *)
THEOREM RingRoomAsRequested ==
  ASSUME SingleConsumer, Requested \in Nat, Requested < Size
  PROVE  Spec => RoomAsRequested
<1> DEFINE OnlyWhenFull == \A p \in Producers : Refused(p) => prodHead - consTail = Mask
           Room == \A p \in Producers : Refused(p) => prodHead - consTail >= Requested
<1>1. [OnlyWhenFull]_vars => [Room]_vars
  <2>1. Mask >= Requested
    BY ConstantFacts DEF Mask
  <2> QED
    BY <2>1
<1>2. Spec => [][OnlyWhenFull]_vars
  BY RingRefusesOnlyWhenFull DEF RefusedOnlyWhenFull
<1> QED
  BY <1>1, <1>2, PTL DEF RoomAsRequested
-----------------------------------------------------------------------------
(* Several consumers.  The stale cursors they read say nothing any more,   *)
(* so what is left of the invariant counts: the slots between cons.tail    *)
(* and cons.head are as many as the consumers that hold one, and each of   *)
(* these holds one of those slots.                                         *)

Holding == {c \in Consumers : pc[c] \in {"read", "release"}}

HoldingInv ==
  /\ consHead = consTail + Cardinality(Holding)
  /\ \A c \in Holding : \E n \in consTail .. consHead - 1 : CmpSet(n, head[c])
  /\ ConsumersTurn

LEMMA InitHoldingInv == Init => HoldingInv
<1> SUFFICES ASSUME Init PROVE HoldingInv
  OBVIOUS
<1>1. \A c \in Consumers : pc[c] = "idle"
  BY DEF Init, Threads
<1>2. Holding = {}
  BY <1>1 DEF Holding
<1>3. Cardinality(Holding) = 0
  BY <1>2, FS_EmptySet
<1>4. consHead = 0 /\ consTail = 0
  BY DEF Init
<1> QED
  BY <1>1, <1>2, <1>3, <1>4 DEF HoldingInv, ConsumersTurn

(* A step that moves neither cursor, gives no consumer a slot and takes    *)
(* none away.                                                              *)
LEMMA HoldingKept ==
  ASSUME HoldingInv, consHead' = consHead, consTail' = consTail, Holding' = Holding,
         \A c \in Holding : head'[c] = head[c]
  PROVE  HoldingInv'
<1>1. Cardinality(Holding)' = Cardinality(Holding)
  OBVIOUS
<1>2. \A c \in Consumers : pc'[c] \in {"read", "release"} <=> pc[c] \in {"read", "release"}
  BY DEF Holding
<1>3. ConsumersTurn'
  BY <1>2 DEF HoldingInv, ConsumersTurn, CmpSet, U32, Holding
<1>4. \A c \in Holding' : \E n \in consTail' .. consHead' - 1 : CmpSet(n, head'[c])
  BY DEF HoldingInv
<1> QED
  BY <1>1, <1>3, <1>4 DEF HoldingInv, CmpSet, U32

(* The cmpset on cons.head gives a consumer the next slot: the slots that  *)
(* are held are at most as many as the consumers, fewer than a lap.        *)
LEMMA DeqClaimHolding ==
  ASSUME IsFiniteSet(Consumers), Cardinality(Consumers) <= CounterMod,
         TypeOK, HoldingInv, NEW c \in Consumers, DeqClaim(c)
  PROVE  HoldingInv'
<1>0. /\ pc[c] = "cas" /\ CmpSet(consHead, head[c]) /\ consHead' = consHead + 1
      /\ consTail' = consTail /\ head' = head
      /\ pc' = [pc EXCEPT ![c] = "read"]
  BY DEF DeqClaim
<1>1. /\ consHead \in Nat /\ consTail \in Nat /\ CounterMod \in Nat \ {0}
      /\ \A d \in Consumers : head[d] \in Nat
      /\ pc \in [Threads -> PcValues] /\ Consumers \subseteq Threads
  BY ConstantFacts DEF TypeOK, Threads
<1>2. c \notin Holding /\ Holding' = Holding \cup {c}
  BY <1>0, <1>1 DEF Holding
<1>3. IsFiniteSet(Holding) /\ Cardinality(Holding) \in Nat /\ Holding \cup {c} \in SUBSET Consumers
  <2>1. Holding \in SUBSET Consumers
    BY DEF Holding
  <2> QED
    BY <2>1, FS_Subset, FS_CardinalityType
<1>4. Cardinality(Holding') = Cardinality(Holding) + 1
  BY <1>2, <1>3, FS_AddElement
<1>5. Cardinality(Holding') <= CounterMod
  <2>1. Cardinality(Holding \cup {c}) <= Cardinality(Consumers)
    BY <1>3, FS_Subset
  <2>2. Cardinality(Consumers) \in Nat
    BY FS_CardinalityType
  <2> QED
    BY <1>1, <1>2, <1>3, <1>4, <2>1, <2>2
<1>6. consHead = consTail + Cardinality(Holding)
  BY DEF HoldingInv
<1>7. ASSUME NEW d \in Holding PROVE ~CmpSet(head[c], head[d])
  <2>1. PICK n \in consTail .. consHead - 1 : CmpSet(n, head[d])
    BY DEF HoldingInv
  <2>2. n \in Nat /\ n # consHead /\ n - consHead < CounterMod /\ consHead - n < CounterMod
    BY <1>1, <1>3, <1>4, <1>5, <1>6
  <2>3. ~CmpSet(consHead, n)
    BY <1>1, <2>2, CmpSetExact
  <2> QED
    BY <1>0, <2>1, <2>3 DEF CmpSet
<1>8. ConsumersTurn'
  <2> SUFFICES ASSUME NEW d \in Consumers, NEW e \in Consumers, d \in Holding', e \in Holding',
                      CmpSet(head[d], head[e])
               PROVE  d = e
    BY <1>0 DEF ConsumersTurn, Holding, CmpSet, U32
  <2>1. CASE d \in Holding /\ e \in Holding
    BY <2>1 DEF HoldingInv, ConsumersTurn, Holding
  <2>2. CASE d = c /\ e \in Holding
    BY <1>7, <2>2
  <2>3. CASE d \in Holding /\ e = c
    BY <1>7, <2>3 DEF CmpSet
  <2> QED
    BY <1>2, <2>1, <2>2, <2>3
<1>9. ASSUME NEW d \in Holding' PROVE \E n \in consTail .. consHead : CmpSet(n, head[d])
  <2>1. CASE d = c
    <3>1. consHead \in consTail .. consHead
      BY <1>1, <1>3, <1>6
    <3> QED
      BY <1>0, <2>1, <3>1
  <2>2. CASE d \in Holding
    <3>1. PICK n \in consTail .. consHead - 1 : CmpSet(n, head[d])
      BY <2>2 DEF HoldingInv
    <3>2. n \in consTail .. consHead
      BY <1>1
    <3> QED
      BY <3>1, <3>2
  <2> QED
    BY <1>2, <2>1, <2>2
<1>10. consHead' - 1 = consHead
  BY <1>0, <1>1
<1>11. \A d \in Holding' : \E n \in consTail' .. consHead' - 1 : CmpSet(n, head'[d])
  BY <1>0, <1>9, <1>10
<1>12. consHead' = consTail' + Cardinality(Holding')
  BY <1>0, <1>1, <1>3, <1>4, <1>6
<1> QED
  BY <1>8, <1>11, <1>12 DEF HoldingInv, CmpSet, U32

(* A release takes the slot at cons.tail from the consumer that holds it,  *)
(* so the slots of the others lie further on.                              *)
LEMMA DeqReleaseHolding ==
  ASSUME IsFiniteSet(Consumers), TypeOK, HoldingInv, NEW c \in Consumers, DeqRelease(c)
  PROVE  HoldingInv'
<1>0. /\ pc[c] = "release" /\ CmpSet(consTail, head[c]) /\ consTail' = consTail + 1
      /\ consHead' = consHead /\ head' = [head EXCEPT ![c] = 0]
      /\ pc' = [pc EXCEPT ![c] = "idle"]
  BY DEF DeqRelease
<1>1. /\ consHead \in Nat /\ consTail \in Nat
      /\ pc \in [Threads -> PcValues] /\ head \in [Threads -> Nat] /\ Consumers \subseteq Threads
  BY DEF TypeOK, Threads
<1>2. c \in Holding /\ Holding' = Holding \ {c}
  BY <1>0, <1>1 DEF Holding
<1>3. IsFiniteSet(Holding) /\ Cardinality(Holding) \in Nat
  <2>1. Holding \in SUBSET Consumers
    BY DEF Holding
  <2> QED
    BY <2>1, FS_Subset, FS_CardinalityType
<1>4. Cardinality(Holding') = Cardinality(Holding) - 1
  BY <1>2, <1>3, FS_RemoveElement
<1>5. \A d \in Holding' : d \in Holding /\ d # c /\ head'[d] = head[d]
  BY <1>0, <1>1, <1>2 DEF Holding
<1>6. ConsumersTurn'
  <2> SUFFICES ASSUME NEW d \in Holding', NEW e \in Holding', CmpSet(head[d], head[e])
               PROVE  d = e
    BY <1>5 DEF ConsumersTurn, Holding, CmpSet, U32
  <2> QED
    BY <1>5 DEF HoldingInv, ConsumersTurn, Holding
<1>7. ASSUME NEW d \in Holding' PROVE \E n \in consTail + 1 .. consHead - 1 : CmpSet(n, head[d])
  <2>1. PICK n \in consTail .. consHead - 1 : CmpSet(n, head[d])
    BY <1>5 DEF HoldingInv
  <2>2. n # consTail
    <3>1. SUFFICES ASSUME n = consTail PROVE FALSE
      OBVIOUS
    <3>2. CmpSet(head[c], head[d])
      BY <1>0, <2>1, <3>1 DEF CmpSet
    <3> QED
      BY <1>2, <1>5, <3>2 DEF HoldingInv, ConsumersTurn, Holding
  <2>3. n \in consTail + 1 .. consHead - 1
    BY <1>1, <2>2
  <2> QED
    BY <2>1, <2>3
<1>8. \A d \in Holding' : \E n \in consTail' .. consHead' - 1 : CmpSet(n, head'[d])
  BY <1>0, <1>5, <1>7
<1>9. consHead' = consTail' + Cardinality(Holding')
  BY <1>0, <1>1, <1>3, <1>4 DEF HoldingInv
<1> QED
  BY <1>6, <1>8, <1>9 DEF HoldingInv, CmpSet, U32

LEMMA NextHoldingInv ==
  ASSUME IsFiniteSet(Consumers), Cardinality(Consumers) <= CounterMod, TypeOK, HoldingInv, Next
  PROVE  HoldingInv'
<1>1. ASSUME NEW p \in Producers, Enqueue(p) PROVE HoldingInv'
  <2>1. \A c \in Consumers : pc'[c] = pc[c] /\ head'[c] = head[c]
    BY <1>1, EnqueueFrame, RingAssumption DEF Threads
  <2>2. Holding' = Holding
    BY <2>1 DEF Holding
  <2>3. consHead' = consHead /\ consTail' = consTail
    BY <1>1, EnqueueFrame
  <2> QED
    BY <2>1, <2>2, <2>3, HoldingKept DEF Holding
<1>2. ASSUME NEW c \in Consumers, Dequeue(c) PROVE HoldingInv'
  <2>0. /\ pc \in [Threads -> PcValues] /\ head \in [Threads -> Nat] /\ Consumers \subseteq Threads
    BY DEF TypeOK, Threads
  <2>1. CASE DeqClaim(c)
    BY <2>1, DeqClaimHolding
  <2>2. CASE DeqRelease(c)
    BY <2>2, DeqReleaseHolding
  <2>3. CASE ~DeqClaim(c) /\ ~DeqRelease(c)
    <3>1. /\ consHead' = consHead /\ consTail' = consTail
          /\ pc'[c] \in {"read", "release"} <=> pc[c] \in {"read", "release"}
          /\ pc[c] \in {"read", "release"} => head'[c] = head[c]
      BY <1>2, <2>0, <2>3
         DEF Dequeue, DeqReadTail, DeqEmpty, DeqBusy, DeqRetry, DeqRead, shared
    <3>2. \A d \in Consumers : d # c => pc'[d] = pc[d] /\ head'[d] = head[d]
      BY <1>2, DequeueFrame DEF Threads
    <3>3. Holding' = Holding /\ \A d \in Holding : head'[d] = head[d]
      BY <3>1, <3>2 DEF Holding
    <3> QED
      BY <3>1, <3>3, HoldingKept
  <2> QED
    BY <2>1, <2>2, <2>3
<1> QED
  BY <1>1, <1>2 DEF Next

(* However many consumers race and whatever stale cursors they read, the   *)
(* cmpset of net_ring_common_module_dequeue gives no slot to two of them,  *)
(* as long as there are no more consumers than values of a cursor.         *)
THEOREM RingConsumersTurn ==
  ASSUME IsFiniteSet(Consumers), Cardinality(Consumers) <= CounterMod
  PROVE  Spec => []ConsumersTurn
<1>1. TypeOK /\ HoldingInv /\ [Next]_vars => HoldingInv'
  <2> SUFFICES ASSUME TypeOK, HoldingInv, [Next]_vars PROVE HoldingInv'
    OBVIOUS
  <2>1. CASE Next
    BY <2>1, NextHoldingInv
  <2>2. CASE UNCHANGED vars
    <3>1. consHead' = consHead /\ consTail' = consTail /\ pc' = pc /\ head' = head
      BY <2>2 DEF vars, shared, locals
    <3>2. Holding' = Holding
      BY <3>1 DEF Holding
    <3> QED
      BY <3>1, <3>2, HoldingKept
  <2> QED
    BY <2>1, <2>2
<1>2. HoldingInv => ConsumersTurn
  BY DEF HoldingInv
<1> QED
  BY InitHoldingInv, <1>1, <1>2, RingTypeOK, PTL DEF Spec
-----------------------------------------------------------------------------
(* The ring with one consumer implements BoundedFifo: every step maps to a *)
(* step of the bounded queue or leaves what it sees of the ring alone.     *)

(* The mapped variables, read off the claims: the queue is the stretch of  *)
(* claims between cons.head and prod.tail, the hand the claim at cons.tail *)
(* while the consumer is between its cmpset and its return.                *)

QueuedClaims == [i \in 1 .. (prodTail - consHead) |-> claims[consHead + i]]
HeldClaim ==
  [c \in Consumers |-> IF pc[c] \in {"read", "release"} THEN claims[consTail + 1] ELSE NoItem]

LEMMA MappedQueue == TypeOK /\ RingInv => StoredItems = QueuedClaims
<1> SUFFICES ASSUME TypeOK, RingInv PROVE StoredItems = QueuedClaims
  OBVIOUS
<1>1. /\ prodTail \in Nat /\ consHead \in Nat /\ consTail \in Nat
      /\ CursorsOrdered /\ PublishedIntact
  BY DEF TypeOK, RingInv
<1>2. \A i \in 1 .. (prodTail - consHead) : slot[SlotOf(consHead + i - 1)] = claims[consHead + i]
  <2> TAKE i \in 1 .. (prodTail - consHead)
  <2>1. consHead + i - 1 \in consTail .. prodTail - 1 /\ (consHead + i - 1) + 1 = consHead + i
    BY <1>1 DEF CursorsOrdered
  <2> QED
    BY <1>1, <2>1 DEF PublishedIntact
<1> QED
  BY <1>2 DEF StoredItems, QueuedClaims

LEMMA MappedHand == TypeOK /\ RingInv => InHand = HeldClaim
<1> SUFFICES ASSUME TypeOK, RingInv, NEW c \in Consumers PROVE InHand[c] = HeldClaim[c]
  BY DEF InHand, HeldClaim
<1>1. /\ prodTail \in Nat /\ consHead \in Nat /\ consTail \in Nat
      /\ CursorsOrdered /\ PublishedIntact /\ ConsumerInv(c)
  BY DEF TypeOK, RingInv
<1>2. CASE pc[c] = "read"
  <2>1. head[c] = consTail /\ consTail \in consTail .. prodTail - 1
    BY <1>1, <1>2 DEF ConsumerInv, CursorsOrdered
  <2>2. slot[SlotOf(head[c])] = claims[consTail + 1]
    BY <1>1, <2>1 DEF PublishedIntact
  <2> QED
    BY <1>2, <2>2 DEF InHand, HeldClaim
<1>3. CASE pc[c] # "read"
  BY <1>1, <1>3 DEF InHand, HeldClaim, ConsumerInv
<1> QED
  BY <1>2, <1>3

(* A state and its successor, both seen through the claims. *)
LEMMA MappedStep ==
  TypeOK /\ RingInv /\ TypeOK' /\ RingInv' =>
    /\ StoredItems = QueuedClaims /\ StoredItems' = QueuedClaims'
    /\ InHand = HeldClaim /\ InHand' = HeldClaim'
<1>1. (TypeOK /\ RingInv => StoredItems = QueuedClaims)'
  BY MappedQueue, PTL
<1>2. (TypeOK /\ RingInv => InHand = HeldClaim)'
  BY MappedHand, PTL
<1> QED
  BY <1>1, <1>2, MappedQueue, MappedHand

-----------------------------------------------------------------------------
(* Steps *)

(* The claims already made never change. *)
LEMMA ClaimsGrow ==
  ASSUME TypeOK, RingInv, Next
  PROVE  \A i \in 1 .. prodHead : claims'[i] = claims[i]
<1>0. claims \in Seq(Item) /\ Len(claims) = prodHead
  BY DEF TypeOK, RingInv
<1>1. ASSUME NEW p \in Producers, Enqueue(p) PROVE \A i \in 1 .. prodHead : claims'[i] = claims[i]
  <2>1. CASE EnqClaim(p)
    <3>1. claims' = Append(claims, ItemOf(p)) /\ ItemOf(p) \in Item
      BY <2>1, ItemOfType DEF EnqClaim
    <3> QED
      BY <1>0, <3>1, AppendProperties
  <2>2. CASE ~EnqClaim(p)
    <3>1. claims' = claims
      BY <1>1, <2>2 DEF Enqueue, EnqReadHead, EnqRefuse, EnqRoom, EnqRetry, EnqStore,
                        EnqPublish, history
    <3> QED
      BY <3>1
  <2> QED
    BY <2>1, <2>2
<1>2. ASSUME NEW c \in Consumers, Dequeue(c) PROVE claims' = claims
  BY <1>2, DequeueFrame
<1> QED
  BY <1>1, <1>2 DEF Next

(* Where neither the queued stretch nor the consumer's place moves, nothing*)
(* the bounded queue can see has changed.                                  *)
LEMMA MappedStutter ==
  ASSUME TypeOK, RingInv, TypeOK', RingInv', Next,
         UNCHANGED <<consHead, consTail, prodTail>>,
         \A c \in Consumers : pc'[c] \in {"read", "release"} <=> pc[c] \in {"read", "release"}
  PROVE  StoredItems' = StoredItems /\ InHand' = InHand
<1>0. /\ prodHead \in Nat /\ prodTail \in Nat /\ consHead \in Nat /\ consTail \in Nat
      /\ CursorsOrdered
  BY DEF TypeOK, RingInv
<1>1. \A i \in 1 .. (prodTail - consHead) : claims'[consHead + i] = claims[consHead + i]
  BY <1>0, ClaimsGrow DEF CursorsOrdered
<1>2. QueuedClaims' = QueuedClaims
  BY <1>1 DEF QueuedClaims
<1>3. ASSUME NEW c \in Consumers, pc[c] \in {"read", "release"}
      PROVE  claims'[consTail + 1] = claims[consTail + 1]
  <2>1. ConsumerInv(c)
    BY DEF RingInv
  <2> QED
    BY <1>0, <1>3, <2>1, ClaimsGrow DEF CursorsOrdered, ConsumerInv
<1>4. HeldClaim' = HeldClaim
  BY <1>3 DEF HeldClaim
<1> QED
  BY <1>2, <1>4, MappedStep

(* prod.tail passes the item: the queue grows by it. *)
LEMMA PublishIsPut ==
  ASSUME TypeOK, RingInv, TypeOK', RingInv', NEW p \in Producers, EnqPublish(p)
  PROVE  \E x \in Item : Fifo!Put(x)
<1> DEFINE x == ItemOf(p)
<1>0. /\ prodHead \in Nat /\ prodTail \in Nat /\ consHead \in Nat /\ consTail \in Nat
      /\ Mask \in Nat /\ Size = Mask + 1 /\ CounterMod \in Nat /\ CounterMod >= 2 * Size
      /\ head[p] \in Nat /\ CursorsOrdered /\ claims \in Seq(Item) /\ Len(claims) = prodHead
  BY ConstantFacts DEF TypeOK, RingInv, Threads
<1>1. /\ pc[p] = "publish" /\ prodTail' = prodTail + 1
      /\ UNCHANGED <<consHead, consTail, item, claims>>
  BY DEF EnqPublish, history
<1>2. /\ prodTail <= head[p] /\ head[p] < prodHead /\ claims[head[p] + 1] = x /\ x \in Item
  BY <1>0, <1>1, ItemOfType DEF RingInv, ProducerInv
<1>3. head[p] = prodTail
  <2>1. prodTail - head[p] < CounterMod /\ head[p] - prodTail < CounterMod
    BY <1>0, <1>2 DEF CursorsOrdered
  <2> QED
    BY <1>0, <1>2, <2>1, CmpSetExact DEF EnqPublish
<1> DEFINE n == prodTail - consHead
<1>4. n \in Nat /\ n < Mask /\ prodTail' - consHead' = n + 1
  BY SMTT(60), <1>0, <1>1, <1>2, <1>3 DEF CursorsOrdered
<1>5. QueuedClaims \in Seq(Item) /\ Len(QueuedClaims) = n
  <2>1. \A i \in 1 .. n : claims[consHead + i] \in Item
    BY <1>0, <1>4, ElementOfSeq DEF CursorsOrdered
  <2> QED
    BY <1>4, <2>1 DEF QueuedClaims
<1>6. QueuedClaims' = Append(QueuedClaims, x)
  <2>1. QueuedClaims' = [i \in 1 .. n + 1 |-> claims[consHead + i]]
    BY <1>1, <1>4 DEF QueuedClaims
  <2>2. \A i \in 1 .. n + 1 : claims[consHead + i] \in Item
    BY <1>0, <1>2, <1>3, <1>4, ElementOfSeq DEF CursorsOrdered
  <2>3. QueuedClaims' \in Seq(Item) /\ Len(QueuedClaims') = n + 1
    BY <1>4, <2>1, <2>2
  <2>4. /\ Append(QueuedClaims, x) \in Seq(Item) /\ Len(Append(QueuedClaims, x)) = n + 1
        /\ \A i \in 1 .. n : Append(QueuedClaims, x)[i] = QueuedClaims[i]
        /\ Append(QueuedClaims, x)[n + 1] = x
    BY <1>2, <1>5, AppendProperties
  <2>5. claims[consHead + (n + 1)] = x
    BY <1>0, <1>2, <1>3
  <2>6. ASSUME NEW i \in 1 .. n + 1 PROVE QueuedClaims'[i] = Append(QueuedClaims, x)[i]
    <3>1. CASE i = n + 1
      <4>1. QueuedClaims'[n + 1] = claims[consHead + (n + 1)]
        BY <1>4, <2>1
      <4>2. QueuedClaims'[n + 1] = Append(QueuedClaims, x)[n + 1]
        BY <2>4, <2>5, <4>1
      <4> QED
        BY <3>1, <4>2
    <3>2. CASE i \in 1 .. n
      <4>1. QueuedClaims'[i] = claims[consHead + i]
        BY <2>1
      <4>2. QueuedClaims[i] = claims[consHead + i]
        BY <3>2 DEF QueuedClaims
      <4> QED
        BY <2>4, <3>2, <4>1, <4>2
    <3>3. i = n + 1 \/ i \in 1 .. n
      BY <1>4
    <3> QED
      BY <3>1, <3>2, <3>3
  <2> QED
    BY <2>3, <2>4, <2>6, SeqEqual
<1>7. HeldClaim' = HeldClaim
  <2>1. \A c \in Consumers : pc'[c] = pc[c]
    BY RingAssumption, EnqueueFrame DEF Enqueue, Threads
  <2> QED
    BY <1>1, <2>1 DEF HeldClaim
<1> QED
  BY <1>2, <1>4, <1>5, <1>6, <1>7, MappedStep DEF Fifo!Put

(* The cmpset on cons.head takes the oldest item. *)
LEMMA ClaimIsTake ==
  ASSUME SingleConsumer, TypeOK, RingInv, TypeOK', RingInv', NEW c \in Consumers, DeqClaim(c)
  PROVE  Fifo!Take(c)
<1>0. /\ prodHead \in Nat /\ prodTail \in Nat /\ consHead \in Nat /\ consTail \in Nat
      /\ tail[c] \in Nat /\ CursorsOrdered /\ ConsumerInv(c)
      /\ claims \in Seq(Item) /\ Len(claims) = prodHead
  BY DEF TypeOK, RingInv
<1>1. /\ pc[c] = "cas" /\ pc'[c] = "read" /\ consHead' = consHead + 1
      /\ UNCHANGED <<prodTail, consTail, claims>>
  BY DEF DeqClaim, TypeOK, Threads, history
<1>2. consHead = consTail /\ consHead < prodTail
  BY <1>0, <1>1 DEF ConsumerInv
<1> DEFINE n == prodTail - consHead
<1>3. n \in Nat /\ n >= 1 /\ prodTail' - consHead' = n - 1
  BY <1>0, <1>1, <1>2
<1>4. QueuedClaims \in Seq(Item) /\ Len(QueuedClaims) = n
  <2>1. \A i \in 1 .. n : claims[consHead + i] \in Item
    BY <1>0, <1>3, ElementOfSeq DEF CursorsOrdered
  <2> QED
    BY <1>3, <2>1 DEF QueuedClaims
<1>5. QueuedClaims # << >> /\ Head(QueuedClaims) = claims[consTail + 1]
  BY <1>2, <1>3, <1>4 DEF QueuedClaims
<1>6. QueuedClaims' = Tail(QueuedClaims)
  <2>1. QueuedClaims' = [i \in 1 .. n - 1 |-> claims[(consHead + 1) + i]]
    BY <1>1, <1>3 DEF QueuedClaims
  <2>2. \A i \in 1 .. n - 1 :
          i + 1 \in 1 .. n /\ claims[(consHead + 1) + i] = claims[consHead + (i + 1)]
    BY <1>0, <1>3
  <2>3. QueuedClaims' \in Seq(Item) /\ Len(QueuedClaims') = n - 1
    <3>1. \A i \in 1 .. n : claims[consHead + i] \in Item
      BY <1>0, <1>3, ElementOfSeq DEF CursorsOrdered
    <3> QED
      BY <1>3, <2>1, <2>2, <3>1
  <2>4. /\ Tail(QueuedClaims) \in Seq(Item) /\ Len(Tail(QueuedClaims)) = n - 1
        /\ \A i \in 1 .. n - 1 : Tail(QueuedClaims)[i] = QueuedClaims[i + 1]
    BY <1>3, <1>4, <1>5, HeadTailProperties
  <2>5. ASSUME NEW i \in 1 .. n - 1 PROVE QueuedClaims'[i] = Tail(QueuedClaims)[i]
    <3>1. QueuedClaims[i + 1] = claims[consHead + (i + 1)]
      BY <2>2 DEF QueuedClaims
    <3> QED
      BY <2>1, <2>2, <2>4, <3>1
  <2> QED
    BY <2>3, <2>4, <2>5, SeqEqual
<1>7. HeldClaim[c] = NoItem /\ HeldClaim' = [HeldClaim EXCEPT ![c] = claims[consTail + 1]]
  BY <1>1 DEF HeldClaim, SingleConsumer
<1> QED
  BY <1>5, <1>6, <1>7, MappedStep DEF Fifo!Take

(* The release hands the item to the caller. *)
LEMMA ReleaseIsReturn ==
  ASSUME SingleConsumer, TypeOK, RingInv, TypeOK', RingInv', NEW c \in Consumers, DeqRelease(c)
  PROVE  Fifo!Return(c)
<1>0. /\ prodHead \in Nat /\ prodTail \in Nat /\ consHead \in Nat /\ consTail \in Nat
      /\ CursorsOrdered /\ ConsumerInv(c) /\ claims \in Seq(Item) /\ Len(claims) = prodHead
  BY DEF TypeOK, RingInv
<1>1. /\ pc[c] = "release" /\ pc'[c] = "idle"
      /\ UNCHANGED <<prodTail, consHead, claims>>
  BY DEF DeqRelease, TypeOK, Threads, history
<1>2. claims[consTail + 1] # NoItem
  <2>1. consTail + 1 \in 1 .. Len(claims)
    BY <1>0, <1>1 DEF ConsumerInv, CursorsOrdered
  <2> QED
    BY <1>0, <2>1, ElementOfSeq, RingAssumption
<1>3. QueuedClaims' = QueuedClaims
  BY <1>1 DEF QueuedClaims
<1>4. HeldClaim[c] = claims[consTail + 1] /\ HeldClaim' = [HeldClaim EXCEPT ![c] = NoItem]
  BY <1>1 DEF HeldClaim, SingleConsumer
<1> QED
  BY <1>2, <1>3, <1>4, MappedStep DEF Fifo!Return

LEMMA StepRefines ==
  ASSUME SingleConsumer, TypeOK, RingInv, TypeOK', RingInv', Next
  PROVE  [Fifo!Next]_Fifo!vars
<1>1. SUFFICES Fifo!Next \/ (StoredItems' = StoredItems /\ InHand' = InHand)
  BY DEF Fifo!vars
<1>2. ASSUME NEW p \in Producers, Enqueue(p)
      PROVE  Fifo!Next \/ (StoredItems' = StoredItems /\ InHand' = InHand)
  <2>1. CASE EnqPublish(p)
    BY <2>1, PublishIsPut DEF Fifo!Next
  <2>2. CASE ~EnqPublish(p)
    <3>1. prodTail' = prodTail
      BY <1>2, <2>2 DEF Enqueue, EnqReadHead, EnqRefuse, EnqRoom, EnqClaim, EnqRetry,
                        EnqStore, shared
    <3>2. \A c \in Consumers : pc'[c] = pc[c]
      BY <1>2, RingAssumption, EnqueueFrame DEF Threads
    <3> QED
      BY <1>2, <3>1, <3>2, EnqueueFrame, MappedStutter
  <2> QED
    BY <2>1, <2>2
<1>3. ASSUME NEW c \in Consumers, Dequeue(c)
      PROVE  Fifo!Next \/ (StoredItems' = StoredItems /\ InHand' = InHand)
  <2>1. CASE DeqClaim(c)
    BY <2>1, ClaimIsTake DEF Fifo!Next
  <2>2. CASE DeqRelease(c)
    BY <2>2, ReleaseIsReturn DEF Fifo!Next
  <2>3. CASE ~DeqClaim(c) /\ ~DeqRelease(c)
    <3>1. /\ UNCHANGED <<consHead, consTail, prodTail>>
          /\ pc'[c] \in {"read", "release"} <=> pc[c] \in {"read", "release"}
      BY <1>3, <2>3 DEF Dequeue, DeqReadTail, DeqEmpty, DeqBusy, DeqRetry, DeqRead, shared,
                        TypeOK, Threads
    <3> QED
      BY <3>1, MappedStutter DEF SingleConsumer
  <2> QED
    BY <2>1, <2>2, <2>3
<1> QED
  BY <1>2, <1>3 DEF Next

(* The lock-free ring with one consumer is a bounded FIFO queue of Size-1   *)
(* items: what the worker, the forwarder and the responder rely on.        *)
THEOREM RingImplementsFifo ==
  ASSUME SingleConsumer
  PROVE  Spec => ImplementsFifo
<1>1. Init => Fifo!Init
  <2> SUFFICES ASSUME Init PROVE StoredItems = << >> /\ InHand = [c \in Consumers |-> NoItem]
    BY DEF Fifo!Init
  <2>1. InHand = [c \in Consumers |-> NoItem]
    BY DEF Init, InHand, Threads
  <2>2. StoredItems = << >>
    BY DEF Init, StoredItems
  <2> QED
    BY <2>1, <2>2
<1>2. UNCHANGED vars => UNCHANGED Fifo!vars
  BY DEF vars, shared, locals, Fifo!vars, StoredItems, InHand, SlotOf, U32
<1>3. TypeOK /\ RingInv /\ TypeOK' /\ RingInv' /\ [Next]_vars => [Fifo!Next]_Fifo!vars
  BY <1>2, StepRefines
<1> QED
  BY <1>1, <1>3, RingInvariant, PTL DEF Spec, ImplementsFifo, Fifo!Spec
=============================================================================
