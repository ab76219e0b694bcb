------------------------------ MODULE ListHead ------------------------------
(***************************************************************************)
(* The circular doubly-linked lists of net_common/net_common_list.h, at    *)
(* the level of their pointers.  An operator takes the memory, which is    *)
(* the two pointers of every list_head, and returns the memory after the   *)
(* call; within one EXCEPT the stores come in the order of the code.       *)
(***************************************************************************)
EXTENDS Integers, Sequences, SequencesExt, FiniteSets

CONSTANTS
  Ptr,   \* every list_head there is: list heads and nodes
  Null   \* NULL

ASSUME PointerAssumption == IsFiniteSet(Ptr) /\ Null \notin Ptr

Memory == [next : [Ptr -> Ptr \cup {Null}], prev : [Ptr -> Ptr \cup {Null}]]

InitListHead(m, l) == [m EXCEPT !.next[l] = l, !.prev[l] = l]

(* __list_add: new goes between two neighbours. *)
AddBetween(m, new, prev, next) ==
  [m EXCEPT !.prev[next] = new, !.next[new] = next, !.prev[new] = prev, !.next[prev] = new]

ListAdd(m, new, head) == AddBetween(m, new, head, m.next[head])
ListAddTail(m, new, head) == AddBetween(m, new, m.prev[head], head)

(* __list_del and __list_del_entry *)
Join(m, prev, next) == [m EXCEPT !.prev[next] = prev, !.next[prev] = next]
Unlink(m, entry) == Join(m, m.prev[entry], m.next[entry])

ListDel(m, entry) == [Unlink(m, entry) EXCEPT !.next[entry] = Null, !.prev[entry] = Null]
ListDelInit(m, entry) == InitListHead(Unlink(m, entry), entry)

(* The second pair of stores reads old->prev after the first has been done,*)
(* which matters when old is an empty list.                                *)
ListReplace(m, old, new) ==
  LET ahead == [m EXCEPT !.next[new] = m.next[old], !.prev[m.next[old]] = new]
  IN  [ahead EXCEPT !.prev[new] = ahead.prev[old], !.next[ahead.prev[old]] = new]
ListReplaceInit(m, old, new) == InitListHead(ListReplace(m, old, new), old)

ListMove(m, entry, head) == ListAdd(Unlink(m, entry), entry, head)
ListMoveTail(m, entry, head) == ListAddTail(Unlink(m, entry), entry, head)

ListIsLast(m, entry, head) == m.next[entry] = head
ListEmpty(m, head) == m.next[head] = head
ListEmptyCareful(m, head) == m.next[head] = head /\ m.next[head] = m.prev[head]
ListIsSingular(m, head) == ~ListEmpty(m, head) /\ m.next[head] = m.prev[head]

ListRotateLeft(m, head) ==
  IF ListEmpty(m, head) THEN m ELSE ListMoveTail(m, m.next[head], head)

(* __list_cut_position and list_cut_position *)
CutAfter(m, list, head, entry) ==
  LET first == m.next[head]
      rest  == m.next[entry]
  IN  [m EXCEPT !.next[list] = first, !.prev[first] = list, !.prev[list] = entry,
                !.next[entry] = list, !.next[head] = rest, !.prev[rest] = head]
ListCutPosition(m, list, head, entry) ==
  CASE ListEmpty(m, head) -> m
    [] ListIsSingular(m, head) /\ entry \notin {m.next[head], head} -> m
    [] ~ListEmpty(m, head) /\ entry = head -> InitListHead(m, list)
    [] OTHER -> CutAfter(m, list, head, entry)

(* Seeded fault: the last node keeps pointing at the head it came from.    *)
SpliceBetweenOpen(m, list, prev, next) ==
  [m EXCEPT !.prev[m.next[list]] = prev, !.next[prev] = m.next[list],
            !.prev[next] = m.prev[list]]

(* __list_splice: the nodes of list go between two neighbours. *)
SpliceBetween(m, list, prev, next) ==
  [m EXCEPT !.prev[m.next[list]] = prev, !.next[prev] = m.next[list],
            !.next[m.prev[list]] = next, !.prev[next] = m.prev[list]]

ListSplice(m, list, head) ==
  IF ListEmpty(m, list) THEN m ELSE SpliceBetween(m, list, head, m.next[head])
ListSpliceTail(m, list, head) ==
  IF ListEmpty(m, list) THEN m ELSE SpliceBetween(m, list, m.prev[head], head)
ListSpliceInit(m, list, head) ==
  IF ListEmpty(m, list) THEN m ELSE InitListHead(ListSplice(m, list, head), list)
ListSpliceTailInit(m, list, head) ==
  IF ListEmpty(m, list) THEN m ELSE InitListHead(ListSpliceTail(m, list, head), list)

(* list_for_each and list_for_each_prev: the loops visit the nodes on the  *)
(* way from the head until it comes round again.                           *)
Visited(link, head) ==
  LET at[i \in Nat] == IF i = 0 THEN head ELSE link[at[i - 1]]
      last == CHOOSE n \in 0 .. Cardinality(Ptr) :
                at[n + 1] = head /\ \A i \in 1 .. n : at[i] # head
  IN  [i \in 1 .. last |-> at[i]]
ForEach(m, head) == Visited(m.next, head)
ForEachPrev(m, head) == Visited(m.prev, head)

(* list_for_each_entry_safe with a break at the first of the hits: where   *)
(* the cursor stands then.  When nothing stops the loop that is the head   *)
(* itself, never NULL.                                                     *)
FindEntry(m, head, hits) ==
  LET visited == ForEach(m, head)
      found   == SelectInSeq(visited, LAMBDA p : p \in hits)
  IN  IF found = 0 THEN head ELSE visited[found]

(* list_for_each_safe and list_for_each_prev_safe, with list_del of every  *)
(* node: the next one is read before the loop's body, and the body takes   *)
(* the way on from the node it visits.  On a circle the loop is back at    *)
(* the head after no more turns than there are pointers.                   *)
Ahead(m, p, back) == IF back THEN m.prev[p] ELSE m.next[p]
DeleteAlong(m, head, back) ==
  LET first == Ahead(m, head, back)
      turn  == [s \in [m : Memory, pos : Ptr, n : Ptr \cup {Null}] |->
                  IF s.pos = head THEN s
                  ELSE LET del == ListDel(s.m, s.pos)
                       IN  [m |-> del, pos |-> s.n, n |-> Ahead(del, s.n, back)]]
      at[i \in Nat] ==
        IF i = 0 THEN [m |-> m, pos |-> first, n |-> Ahead(m, first, back)] ELSE turn[at[i - 1]]
  IN  at[Cardinality(Ptr)].m
DeleteEach(m, head) == DeleteAlong(m, head, FALSE)
DeleteEachPrev(m, head) == DeleteAlong(m, head, TRUE)

-----------------------------------------------------------------------------
(* What the lists are to hold, stated without the pointers: the sequence   *)
(* of the nodes of each head, and how a call changes it.                   *)

(* The pointers of head h form one circle through the nodes of s. *)
IsCircle(m, h, s) ==
  LET ring == <<h>> \o s \o <<h>> IN
  \A i \in 1 .. Len(s) + 1 : m.next[ring[i]] = ring[i + 1] /\ m.prev[ring[i + 1]] = ring[i]

(* Every head in the domain of lists has the nodes that lists gives it.    *)
Holds(m, lists) == \A h \in DOMAIN lists : IsCircle(m, h, lists[h])

UpTo(s, e) == SelectInSeq(s, LAMBDA x : x = e)
Without(s, e) == RemoveAt(s, UpTo(s, e))
PutFor(s, e, x) == [i \in DOMAIN s |-> IF s[i] = e THEN x ELSE s[i]]

(* What moving, deleting and replacing a node e of list h has to do.       *)
NodeOpsSound(m, lists, h, e, spare) ==
  /\ \A g \in DOMAIN lists :
       LET rest == [lists EXCEPT ![h] = Without(@, e)] IN
       /\ Holds(ListMove(m, e, g), [rest EXCEPT ![g] = <<e>> \o @])
       /\ Holds(ListMoveTail(m, e, g), [rest EXCEPT ![g] = Append(@, e)])
  /\ Holds(ListDelInit(m, e), [lists EXCEPT ![h] = Without(@, e)])
  /\ ListEmpty(ListDelInit(m, e), e)
  /\ \A x \in spare :
       Holds(ListReplace(m, e, x), [lists EXCEPT ![h] = PutFor(@, e, x)])
  /\ ListIsLast(m, e, h) <=> e = Last(lists[h])

(* What the operations on whole lists have to do: h is a head, and x a     *)
(* list_head that is in no list.                                           *)
HeadOpsSound(m, lists, h, x) ==
  LET s == lists[h]
      taken == [g \in (DOMAIN lists \ {h}) \cup {x} |-> IF g = x THEN s ELSE lists[g]]
  IN  /\ ListEmpty(m, h) <=> s = << >>
      /\ ListEmptyCareful(m, h) <=> s = << >>
      /\ ListIsSingular(m, h) <=> Len(s) = 1
      /\ Holds(ListRotateLeft(m, h),
               [lists EXCEPT ![h] = IF @ = << >> THEN @ ELSE Append(Tail(@), Head(@))])
      /\ Holds(ListReplaceInit(m, h, x), taken) /\ ListEmpty(ListReplaceInit(m, h, x), h)
      /\ \A e \in ToSet(s) :
           LET cut == ListCutPosition(m, x, h, e) IN
           /\ Holds(cut, [lists EXCEPT ![h] = SubSeq(@, UpTo(s, e) + 1, Len(s))])
           /\ IsCircle(cut, x, SubSeq(s, 1, UpTo(s, e)))
      /\ s # << >> => ListEmpty(ListCutPosition(m, x, h, h), x)
      /\ Holds(DeleteEach(m, h), [lists EXCEPT ![h] = << >>])
      /\ Holds(DeleteEachPrev(m, h), [lists EXCEPT ![h] = << >>])

(* What joining list h to list g has to do. *)
SpliceSound(m, lists, h, g) ==
  LET front == [lists EXCEPT ![h] = << >>, ![g] = lists[h] \o @]
      back  == [lists EXCEPT ![h] = << >>, ![g] = @ \o lists[h]]
      rest(all) == [f \in DOMAIN lists \ {h} |-> all[f]]
  IN  /\ Holds(ListSpliceInit(m, h, g), front)
      /\ Holds(ListSpliceTailInit(m, h, g), back)
      /\ Holds(ListSplice(m, h, g), rest(front))
      /\ Holds(ListSpliceTail(m, h, g), rest(back))
=============================================================================
