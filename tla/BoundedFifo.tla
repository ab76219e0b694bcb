---------------------------- MODULE BoundedFifo ----------------------------
(***************************************************************************)
(* What a ring of net_ring promises its callers: a first-in first-out      *)
(* queue of bounded capacity.  An accepted item is stored once, a          *)
(* successful dequeue takes the oldest stored item, and the item a         *)
(* consumer took stays with that consumer until its call returns.          *)
(***************************************************************************)
EXTENDS Naturals, Sequences

CONSTANTS
  Item,       \* what may be enqueued
  NoItem,     \* "nothing": not an item
  Consumers,  \* the threads that dequeue
  Capacity    \* how many items fit

VARIABLES
  queue,      \* stored items, oldest first
  hand        \* the item each consumer has taken and not yet returned

vars == <<queue, hand>>

Init ==
  /\ queue = << >>
  /\ hand = [c \in Consumers |-> NoItem]

(* An enqueue that succeeds. *)
Put(x) ==
  /\ Len(queue) < Capacity
  /\ queue' = Append(queue, x)
  /\ UNCHANGED hand

(* A dequeue that succeeds takes the oldest item ... *)
Take(c) ==
  /\ queue # << >>
  /\ hand[c] = NoItem
  /\ hand' = [hand EXCEPT ![c] = Head(queue)]
  /\ queue' = Tail(queue)

(* ... and returns it to its caller. *)
Return(c) ==
  /\ hand[c] # NoItem
  /\ hand' = [hand EXCEPT ![c] = NoItem]
  /\ UNCHANGED queue

Next ==
  \/ \E x \in Item : Put(x)
  \/ \E c \in Consumers : Take(c) \/ Return(c)

Spec == Init /\ [][Next]_vars
=============================================================================
