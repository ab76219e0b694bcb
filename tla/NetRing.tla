------------------------------ MODULE NetRing ------------------------------
(***************************************************************************)
(* The lock-free ring of net_ring/net_ring_common.c, one action per access *)
(* to shared memory, so that TLC interleaves the threads between any two   *)
(* of them.                                                                *)
(*                                                                         *)
(* The four cursors are uint32_t fields that wrap.  A variable here holds  *)
(* the number of steps a cursor has made, and U32 is what the field holds: *)
(* every subtraction and comparison the code makes goes through U32.       *)
(***************************************************************************)
EXTENDS Integers, Sequences

CONSTANTS
  Producers,   \* threads that enqueue
  Consumers,   \* threads that dequeue
  Requested,   \* the number of items the creator asks room for
  Size,        \* slots of the ring: what create makes of the request
  CounterMod,  \* number of values of a cursor: 2^32 in the code
  MaxCalls,    \* bound: for each producer, the enqueue calls it makes
  MaxTakes,    \* bound: dequeue calls of each consumer that succeed
  NoItem       \* the NULL a fresh slot holds

Threads == Producers \cup Consumers
Item == UNION {{p} \X (0 .. MaxCalls[p] - 1) : p \in Producers}

ASSUME RingAssumption ==
  /\ Size \in Nat /\ Size >= 2
  /\ CounterMod \in Nat /\ CounterMod >= 2 * Size /\ CounterMod % Size = 0
  /\ MaxCalls \in [Producers -> Nat] /\ MaxTakes \in Nat
  /\ Producers \cap Consumers = {}
  /\ NoItem \notin Item

(* Seeded fault: the loop also stops at the number itself. *)
AlignPow2AtLeast(num) ==
  LET offset == CHOOSE o \in 1 .. 31 : num <= 2 ^ o /\ \A lower \in 1 .. o - 1 : num > 2 ^ lower
  IN  2 ^ offset

(* The first power of two above num, from 2 on: a power of two is doubled, *)
(* so that the one slot a full ring leaves unused is there on top.         *)
AlignPow2(num) ==
  LET offset == CHOOSE o \in 1 .. 31 : num < 2 ^ o /\ \A lower \in 1 .. o - 1 : num >= 2 ^ lower
  IN  2 ^ offset

VARIABLES
  prodHead,  \* prod.head: slots claimed by producers
  prodTail,  \* prod.tail: slots published
  consHead,  \* cons.head: slots claimed by consumers
  consTail,  \* cons.tail: slots released for reuse
  slot,      \* ring[]
  pc,        \* where each thread is in its call ("idle" between calls)
  head,      \* local prod_head / cons_head of each thread
  tail,      \* local prod_tail of each consumer
  item,      \* local *item of each consumer
  calls,     \* enqueue calls each producer has finished
  claims,    \* history: the items in the order their slots were claimed
  got        \* history: what the dequeue calls of each consumer returned

shared == <<prodHead, prodTail, consHead, consTail, slot>>
locals == <<pc, head, tail, item, calls>>
history == <<claims, got>>
vars == <<shared, locals, history>>

Mask == Size - 1

(* What a 32-bit field holds, and the outcome of lock cmpxchg on it. *)
U32(n) == n % CounterMod
CmpSet(cursor, exp) == U32(cursor) = U32(exp)

SlotOf(n) == U32(n) % Size

(* The item of the call producer p is in: each call brings a new one. *)
ItemOf(p) == <<p, calls[p]>>

PcValues == {"idle", "readTail", "readHead", "cas", "store", "publish", "read", "release"}

TypeOK ==
  /\ prodHead \in Nat /\ prodTail \in Nat /\ consHead \in Nat /\ consTail \in Nat
  /\ slot \in [0 .. Mask -> Item \cup {NoItem}]
  /\ pc \in [Threads -> PcValues]
  /\ \A p \in Producers : pc[p] \in {"idle", "readTail", "cas", "store", "publish"}
  /\ \A c \in Consumers : pc[c] \in {"idle", "readHead", "cas", "read", "release"}
  /\ head \in [Threads -> Nat]
  /\ tail \in [Consumers -> Nat]
  /\ item \in [Consumers -> Item \cup {NoItem}]
  /\ calls \in [Producers -> Nat]
  /\ \A p \in Producers : calls[p] <= MaxCalls[p]
  /\ \A p \in Producers : pc[p] # "idle" => calls[p] < MaxCalls[p]
  /\ claims \in Seq(Item)
  /\ got \in [Consumers -> Seq(Item \cup {NoItem})]

Init ==
  /\ prodHead = 0 /\ prodTail = 0 /\ consHead = 0 /\ consTail = 0
  /\ slot = [i \in 0 .. Mask |-> NoItem]
  /\ pc = [t \in Threads |-> "idle"]
  /\ head = [t \in Threads |-> 0]
  /\ tail = [c \in Consumers |-> 0]
  /\ item = [c \in Consumers |-> NoItem]
  /\ calls = [p \in Producers |-> 0]
  /\ claims = << >>
  /\ got = [c \in Consumers |-> << >>]

-----------------------------------------------------------------------------
(* net_ring_common_module_enqueue *)

(* Seeded fault: the snapshot is one behind the cursor. *)
EnqReadHeadOneBehind(p) ==
  /\ pc[p] = "idle" /\ calls[p] < MaxCalls[p]
  /\ head' = [head EXCEPT ![p] = prodHead - 1]
  /\ pc' = [pc EXCEPT ![p] = "readTail"]
  /\ UNCHANGED <<shared, tail, item, calls, history>>

(* prod_head = ring->prod.head *)
EnqReadHead(p) ==
  /\ pc[p] = "idle" /\ calls[p] < MaxCalls[p]
  /\ head' = [head EXCEPT ![p] = prodHead]
  /\ pc' = [pc EXCEPT ![p] = "readTail"]
  /\ UNCHANGED <<shared, tail, item, calls, history>>

(* Seeded faults: the size for the mask, and one slot held back. *)
FreeEntriesBySize(p) == U32(consTail - head[p] + Size)
FreeEntriesOneShort(p) == U32(consTail - head[p] + Mask - 1)

(* free_entries = (cons_tail - prod_head + mask), in uint32_t *)
FreeEntries(p) == U32(consTail - head[p] + Mask)

(* A call returns to its caller, which brings another item next time. *)
EnqReturn(p) ==
  /\ pc' = [pc EXCEPT ![p] = "idle"]
  /\ head' = [head EXCEPT ![p] = 0]
  /\ calls' = [calls EXCEPT ![p] = @ + 1]

(* cons_tail = ring->cons.tail; the ring looks full and the call fails *)
EnqRefuse(p) ==
  /\ pc[p] = "readTail"
  /\ FreeEntries(p) = 0
  /\ EnqReturn(p)
  /\ UNCHANGED <<shared, tail, item, history>>

(* cons_tail = ring->cons.tail; there is room *)
EnqRoom(p) ==
  /\ pc[p] = "readTail"
  /\ FreeEntries(p) # 0
  /\ pc' = [pc EXCEPT ![p] = "cas"]
  /\ UNCHANGED <<shared, head, tail, item, calls, history>>

(* The 32-bit cursor is safe only while no producer sleeps between its     *)
(* load of prod.head and its cmpset for as long as prod.head takes to come *)
(* round to the loaded value: the timing assumption of the algorithm.      *)
NoLap ==
  \A q \in Producers :
    pc[q] \in {"readTail", "cas"} => prodHead + 1 - head[q] <= CounterMod - Size

(* Seeded fault: prod.head is stored, not compared and exchanged. *)
EnqClaimUnchecked(p) ==
  /\ pc[p] = "cas"
  /\ NoLap
  /\ prodHead' = head[p] + 1
  /\ claims' = Append(claims, ItemOf(p))
  /\ pc' = [pc EXCEPT ![p] = "store"]
  /\ UNCHANGED <<prodTail, consHead, consTail, slot, head, tail, item, calls, got>>

(* cmpset(&ring->prod.head, prod_head, prod_next) succeeds: slot claimed *)
EnqClaim(p) ==
  /\ pc[p] = "cas"
  /\ CmpSet(prodHead, head[p])
  /\ NoLap
  /\ prodHead' = prodHead + 1
  /\ claims' = Append(claims, ItemOf(p))
  /\ pc' = [pc EXCEPT ![p] = "store"]
  /\ UNCHANGED <<prodTail, consHead, consTail, slot, head, tail, item, calls, got>>

(* cmpset fails: the do-while loop starts over *)
EnqRetry(p) ==
  /\ pc[p] = "cas"
  /\ ~CmpSet(prodHead, head[p])
  /\ pc' = [pc EXCEPT ![p] = "idle"]
  /\ head' = [head EXCEPT ![p] = 0]
  /\ UNCHANGED <<shared, tail, item, calls, history>>

(* Seeded fault: the slot is found from prod.head, read again. *)
EnqStoreReread(p) ==
  /\ pc[p] = "store"
  /\ slot' = [slot EXCEPT ![SlotOf(prodHead - 1)] = ItemOf(p)]
  /\ pc' = [pc EXCEPT ![p] = "publish"]
  /\ UNCHANGED <<prodHead, prodTail, consHead, consTail, head, tail, item, calls, history>>

(* ring->ring[prod_head & mask] = item *)
EnqStore(p) ==
  /\ pc[p] = "store"
  /\ slot' = [slot EXCEPT ![SlotOf(head[p])] = ItemOf(p)]
  /\ pc' = [pc EXCEPT ![p] = "publish"]
  /\ UNCHANGED <<prodHead, prodTail, consHead, consTail, head, tail, item, calls, history>>

(* Seeded fault: a producer publishes without waiting for its turn. *)
EnqPublishAtOnce(p) ==
  /\ pc[p] = "publish"
  /\ prodTail' = prodTail + 1
  /\ EnqReturn(p)
  /\ UNCHANGED <<prodHead, consHead, consTail, slot, tail, item, history>>

(* while(ring->prod.tail != prod_head); ring->prod.tail = prod_next        *)
(* Once the loop has seen prod.tail = prod_head no other producer writes   *)
(* the field (ProducersTurn), so the load and the store are one step.      *)
EnqPublish(p) ==
  /\ pc[p] = "publish"
  /\ CmpSet(prodTail, head[p])
  /\ prodTail' = prodTail + 1
  /\ EnqReturn(p)
  /\ UNCHANGED <<prodHead, consHead, consTail, slot, tail, item, history>>

-----------------------------------------------------------------------------
(* net_ring_common_module_dequeue *)

(* prod_tail = ring->prod.tail, before cons.head is read *)
DeqReadTail(c) ==
  /\ pc[c] = "idle" /\ Len(got[c]) < MaxTakes
  /\ tail' = [tail EXCEPT ![c] = prodTail]
  /\ pc' = [pc EXCEPT ![c] = "readHead"]
  /\ UNCHANGED <<shared, head, item, calls, history>>

(* Seeded fault: the difference is one too large. *)
BusyEntriesOneMore(c) == U32(tail[c] - consHead + 1)

(* busy_entries = (prod_tail - cons_head), in uint32_t *)
BusyEntries(c) == U32(tail[c] - consHead)

(* cons_head = ring->cons.head; nothing to take: the call fails *)
DeqEmpty(c) ==
  /\ pc[c] = "readHead"
  /\ BusyEntries(c) = 0
  /\ pc' = [pc EXCEPT ![c] = "idle"]
  /\ tail' = [tail EXCEPT ![c] = 0]
  /\ UNCHANGED <<shared, head, item, calls, history>>

(* Seeded fault: a ring that holds a single item counts as empty. *)
DeqBusyKeepsOne(c) ==
  /\ pc[c] = "readHead"
  /\ BusyEntries(c) > 1
  /\ head' = [head EXCEPT ![c] = consHead]
  /\ pc' = [pc EXCEPT ![c] = "cas"]
  /\ UNCHANGED <<shared, tail, item, calls, history>>

(* cons_head = ring->cons.head; something to take *)
DeqBusy(c) ==
  /\ pc[c] = "readHead"
  /\ BusyEntries(c) # 0
  /\ head' = [head EXCEPT ![c] = consHead]
  /\ pc' = [pc EXCEPT ![c] = "cas"]
  /\ UNCHANGED <<shared, tail, item, calls, history>>

(* Seeded fault: cons.head is stored, not compared and exchanged. *)
DeqClaimUnchecked(c) ==
  /\ pc[c] = "cas"
  /\ consHead' = head[c] + 1
  /\ pc' = [pc EXCEPT ![c] = "read"]
  /\ tail' = [tail EXCEPT ![c] = 0]
  /\ UNCHANGED <<prodHead, prodTail, consTail, slot, head, item, calls, history>>

(* cmpset(&ring->cons.head, cons_head, cons_next) succeeds *)
DeqClaim(c) ==
  /\ pc[c] = "cas"
  /\ CmpSet(consHead, head[c])
  /\ consHead' = consHead + 1
  /\ pc' = [pc EXCEPT ![c] = "read"]
  /\ tail' = [tail EXCEPT ![c] = 0]
  /\ UNCHANGED <<prodHead, prodTail, consTail, slot, head, item, calls, history>>

(* cmpset fails: the do-while loop starts over *)
DeqRetry(c) ==
  /\ pc[c] = "cas"
  /\ ~CmpSet(consHead, head[c])
  /\ pc' = [pc EXCEPT ![c] = "idle"]
  /\ head' = [head EXCEPT ![c] = 0]
  /\ tail' = [tail EXCEPT ![c] = 0]
  /\ UNCHANGED <<shared, item, calls, history>>

(* *item = ring->ring[cons_head & mask] *)
DeqRead(c) ==
  /\ pc[c] = "read"
  /\ item' = [item EXCEPT ![c] = slot[SlotOf(head[c])]]
  /\ pc' = [pc EXCEPT ![c] = "release"]
  /\ UNCHANGED <<shared, head, tail, calls, history>>

(* while(ring->cons.tail != cons_head); ring->cons.tail = cons_next        *)
(* One step, as in EnqPublish, because of ConsumersTurn.                   *)
DeqRelease(c) ==
  /\ pc[c] = "release"
  /\ CmpSet(consTail, head[c])
  /\ consTail' = consTail + 1
  /\ got' = [got EXCEPT ![c] = Append(@, item[c])]
  /\ pc' = [pc EXCEPT ![c] = "idle"]
  /\ head' = [head EXCEPT ![c] = 0]
  /\ item' = [item EXCEPT ![c] = NoItem]
  /\ UNCHANGED <<prodHead, prodTail, consHead, slot, tail, calls, claims>>

-----------------------------------------------------------------------------
Enqueue(p) ==
  \/ EnqReadHead(p) \/ EnqRefuse(p) \/ EnqRoom(p)
  \/ EnqClaim(p) \/ EnqRetry(p) \/ EnqStore(p) \/ EnqPublish(p)

Dequeue(c) ==
  \/ DeqReadTail(c) \/ DeqEmpty(c) \/ DeqBusy(c)
  \/ DeqClaim(c) \/ DeqRetry(c) \/ DeqRead(c) \/ DeqRelease(c)

Next ==
  \/ \E p \in Producers : Enqueue(p)
  \/ \E c \in Consumers : Dequeue(c)

Spec == Init /\ [][Next]_vars

(* Every thread of the server is an endless loop the kernel schedules: it  *)
(* is never stopped for ever in front of an instruction it can execute.    *)
Fairness ==
  /\ \A p \in Producers : WF_vars(Enqueue(p))
  /\ \A c \in Consumers : WF_vars(Dequeue(c))

FairSpec == Spec /\ Fairness

-----------------------------------------------------------------------------
(* Each ring of the server has one consuming thread: worker, forwarder or  *)
(* responder.                                                              *)
SingleConsumer == \A c, d \in Consumers : c = d

(* The cursors never overtake one another, and the distance between the    *)
(* first and the last of them never exceeds the capacity.                  *)
CursorsOrdered ==
  /\ consTail <= consHead /\ consHead <= prodTail /\ prodTail <= prodHead
  /\ prodHead <= consTail + Mask

(* A slot that is published and not yet released holds the item for which  *)
(* it was claimed: no producer that comes round the ring overwrites it, and*)
(* prod.tail never covers a slot that is still to be written.              *)
PublishedIntact ==
  \A i \in consTail .. prodTail - 1 : slot[SlotOf(i)] = claims[i + 1]

(* While a producer spins on prod.tail with its turn come, nobody else is  *)
(* about to publish: the spin and the store cannot be torn apart.          *)
ProducersTurn ==
  \A p, q \in Producers :
    /\ pc[p] \in {"store", "publish"} /\ pc[q] \in {"store", "publish"}
    /\ CmpSet(head[p], head[q])
    => p = q

(* The same for consumers, however many: whatever stale cursors they read, *)
(* the cmpset gives no slot to two of them.                                *)
ConsumersTurn ==
  \A c, d \in Consumers :
    /\ pc[c] \in {"read", "release"} /\ pc[d] \in {"read", "release"}
    /\ CmpSet(head[c], head[d])
    => c = d

(* The dequeue calls return the enqueued items in the order in which their *)
(* slots were claimed: none lost, repeated or made up.                     *)
DeliveredInOrder ==
  \A c \in Consumers :
    /\ Len(got[c]) <= Len(claims)
    /\ \A i \in 1 .. Len(got[c]) : got[c][i] = claims[i]

(* The inductive invariant of a ring with one consumer.  What a thread      *)
(* knows of the cursors depends on where it is in its call:                *)
(*  - a producer in front of its cmpset has seen room that consumers can   *)
(*    only add to; once it has claimed a slot, the slot is its own until   *)
(*    it publishes it;                                                     *)
(*  - a consumer in front of its cmpset has seen an item that nobody else  *)
(*    can take; between its cmpset and its release it holds the oldest     *)
(*    slot, and outside cons.head and cons.tail are equal.                 *)
ProducerInv(p) ==
  /\ pc[p] \in {"readTail", "cas"} =>
       head[p] <= prodHead /\ prodHead - head[p] <= CounterMod - Size
  /\ pc[p] = "cas" => head[p] < consTail + Mask
  /\ pc[p] \in {"store", "publish"} =>
       prodTail <= head[p] /\ head[p] < prodHead /\ claims[head[p] + 1] = ItemOf(p)
  /\ pc[p] = "publish" => slot[SlotOf(head[p])] = ItemOf(p)

ConsumerInv(c) ==
  /\ pc[c] \in {"idle", "readHead", "cas"} => consHead = consTail
  /\ pc[c] \in {"readHead", "cas"} => consHead <= tail[c] /\ tail[c] <= prodTail
  /\ pc[c] = "cas" => head[c] = consHead /\ consHead < tail[c]
  /\ pc[c] \in {"read", "release"} => head[c] = consTail /\ consHead = consTail + 1
  /\ item[c] = IF pc[c] = "release" THEN claims[consTail + 1] ELSE NoItem
  /\ Len(got[c]) = consTail
  /\ \A i \in 1 .. consTail : got[c][i] = claims[i]

(* No two producers hold a claim on the same slot. *)
ClaimsDistinct ==
  \A p, q \in Producers :
    pc[p] \in {"store", "publish"} /\ pc[q] \in {"store", "publish"} /\ head[p] = head[q]
    => p = q

RingInv ==
  /\ CursorsOrdered
  /\ Len(claims) = prodHead
  /\ PublishedIntact
  /\ ClaimsDistinct
  /\ \A p \in Producers : ProducerInv(p)
  /\ \A c \in Consumers : ConsumerInv(c)

(* What "multi-cores safe" (net_ring_common.c:81, :117) has to mean at the *)
(* least: whatever the number of threads, two dequeue calls never return   *)
(* the same item, and every item returned was enqueued.                    *)
MultiCoreSafe ==
  \A c, d \in Consumers : \A i \in 1 .. Len(got[c]), j \in 1 .. Len(got[d]) :
    /\ got[c][i] # NoItem
    /\ got[c][i] = got[d][j] => c = d /\ i = j

(* An enqueue fails only at a moment when the ring really is full: stale   *)
(* reads of the two cursors never make a producer give up with room left.  *)
Refused(p) == pc[p] = "readTail" /\ pc'[p] = "idle"
RefusedOnlyWhenFull ==
  [][\A p \in Producers : Refused(p) => prodHead - consTail = Mask]_vars

(* A ring takes as many items as its creator asked for, although one slot  *)
(* is never used: no enqueue fails with fewer of them in it.               *)
RoomAsRequested ==
  [][\A p \in Producers : Refused(p) => prodHead - consTail >= Requested]_vars

(* The ring implements the bounded queue.  An item joins the queue when    *)
(* prod.tail passes it and leaves it when cons.head does.                  *)
StoredItems == [i \in 1 .. (prodTail - consHead) |-> slot[SlotOf(consHead + i - 1)]]
InHand == [c \in Consumers |-> IF pc[c] = "read" THEN slot[SlotOf(head[c])] ELSE item[c]]
Fifo == INSTANCE BoundedFifo WITH Capacity <- Mask, queue <- StoredItems, hand <- InHand
ImplementsFifo == Fifo!Spec

(* Nobody waits for ever for a turn: a claimed slot is published by its    *)
(* owner although publication is in claim order, and its item is returned. *)
(* Once the producers pause the ring has nothing left in it.               *)
RingDrains == []<>(consTail = prodHead)
=============================================================================
