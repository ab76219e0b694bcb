------------------------------ MODULE RbErase ------------------------------
(***************************************************************************)
(* The rest of net_hashmap/net_hashmap_rbtree.c: taking a node out of a    *)
(* tree, putting another in its place, and walking over the tree.  The     *)
(* server never calls these; its trees are what they are checked on.       *)
(***************************************************************************)
EXTENDS RbTree, Sequences, SequencesExt

BlackOrNil(t, n) == n \notin t.red

(* One turn of the loop in __rb_erase_color: node, which may be NULL, lacks *)
(* a black node above it, and its sibling is called other.                 *)

(* A red sibling first changes places with the parent. *)
BlackSibling(t, parent, side) ==
  LET other == t.child[Other(side)][parent]
  IN  IF other \in t.red
      THEN Rotate([t EXCEPT !.red = (@ \ {other}) \cup {parent}], parent, side)
      ELSE t

(* Then the nephew on the far side is made red, if it is not. *)
RedFarNephew(t, parent, side) ==
  LET other == t.child[Other(side)][parent]
      near  == t.child[side][other]
  IN  IF BlackOrNil(t, t.child[Other(side)][other])
      THEN Rotate([t EXCEPT !.red = (@ \ {near}) \cup {other}], other, Other(side))
      ELSE t

(* Seeded fault: the nephew on the far side keeps its colour. *)
RaiseSiblingUndyed(t, parent, side) ==
  LET other == t.child[Other(side)][parent]
      dyed  == IF parent \in t.red THEN t.red \cup {other} ELSE t.red \ {other}
  IN  Rotate([t EXCEPT !.red = dyed \ {parent}], parent, side)

(* Last the sibling takes the place and the colour of the parent. *)
RaiseSibling(t, parent, side) ==
  LET other == t.child[Other(side)][parent]
      dyed  == IF parent \in t.red THEN t.red \cup {other} ELSE t.red \ {other}
  IN  Rotate([t EXCEPT !.red = dyed \ {parent, t.child[Other(side)][other]}], parent, side)

EraseTurn(s) ==
  LET side  == SideOf(s.tree, s.node, s.parent)
      t     == BlackSibling(s.tree, s.parent, side)
      other == t.child[Other(side)][s.parent]
      done  == RaiseSibling(RedFarNephew(t, s.parent, side), s.parent, side)
  IN  IF \A u \in Side : BlackOrNil(t, t.child[u][other])
      THEN [tree |-> [t EXCEPT !.red = @ \cup {other}], node |-> s.parent, parent |-> t.parent[s.parent]]
      ELSE [tree |-> done, node |-> done.root, parent |-> Nil]

EraseColor(tree, node, parent) ==
  LET fix[s \in [tree : Tree, node : Key \cup {Nil}, parent : Key \cup {Nil}]] ==
        IF BlackOrNil(s.tree, s.node) /\ s.node # s.tree.root
        THEN fix[EraseTurn(s)]
        ELSE [s.tree EXCEPT !.red = @ \ {s.node}]
  IN  fix[[tree |-> tree, node |-> node, parent |-> parent]]

(* The end of the way down on one side. *)
Outermost(t, n, side) ==
  LET down[k \in Key] == IF t.child[side][k] = Nil THEN k ELSE down[t.child[side][k]]
  IN  down[n]

(* node has at most one child, which takes its place. *)
EraseOuter(t, node) ==
  LET child  == IF t.child["left"][node] = Nil THEN t.child["right"][node] ELSE t.child["left"][node]
      parent == t.parent[node]
      cut    == Redirect(SetParent(t, child, parent), parent, node, child)
  IN  IF node \in t.red THEN cut ELSE EraseColor(cut, child, parent)

(* old has two children: the node that follows it takes its place.         *)
EraseInner(t, old) ==
  LET right  == t.child["right"][old]
      left   == t.child["left"][old]
      node   == Outermost(t, right, "left")
      child  == t.child["right"][node]
      parent == IF t.parent[node] = old THEN node ELSE t.parent[node]
      put    == Redirect(t, t.parent[old], old, node)
      apart  == IF parent = node THEN put
                ELSE [SetParent(put, child, parent) EXCEPT
                        !.child["left"][parent] = child,
                        !.child["right"][node] = right, !.parent[right] = node]
      dyed   == IF old \in t.red THEN t.red \cup {node} ELSE t.red \ {node}
      moved  == [apart EXCEPT !.parent[node] = t.parent[old], !.child["left"][node] = left,
                              !.parent[left] = node, !.red = dyed]
  IN  IF node \in t.red THEN moved ELSE EraseColor(moved, child, parent)

Erase(t, node) ==
  IF \E s \in Side : t.child[s][node] = Nil THEN EraseOuter(t, node) ELSE EraseInner(t, node)

(* rb_replace_node *)
ReplaceNode(t, victim, new) ==
  LET up   == Redirect(t, t.parent[victim], victim, new)
      down == SetParent(SetParent(up, t.child["left"][victim], new), t.child["right"][victim], new)
  IN  [down EXCEPT !.child["left"][new] = t.child["left"][victim],
                   !.child["right"][new] = t.child["right"][victim],
                   !.parent[new] = t.parent[victim],
                   !.red = IF victim \in @ THEN @ \cup {new} ELSE @ \ {new}]

-----------------------------------------------------------------------------
(* Walking.  Each operation comes in two mirror images: side is where the  *)
(* walk comes from, "left" for rb_first and rb_next.                       *)

EndOf(t, side) == IF t.root = Nil THEN Nil ELSE Outermost(t, t.root, side)

(* Seeded fault: below the other child the walk does not go back out.      *)
StepOneDown(t, n, side) ==
  LET climb[k \in Key] ==
        LET parent == t.parent[k]
        IN  IF parent # Nil /\ k = t.child[Other(side)][parent] THEN climb[parent] ELSE parent
  IN  IF t.child[Other(side)][n] # Nil THEN t.child[Other(side)][n] ELSE climb[n]

Step(t, n, side) ==
  LET climb[k \in Key] ==
        LET parent == t.parent[k]
        IN  IF parent # Nil /\ k = t.child[Other(side)][parent] THEN climb[parent] ELSE parent
  IN  CASE t.parent[n] = n -> Nil
        [] t.parent[n] # n /\ t.child[Other(side)][n] # Nil -> Outermost(t, t.child[Other(side)][n], side)
        [] OTHER -> climb[n]

Walk(t, side) ==
  LET from[k \in Key \cup {Nil}] == IF k = Nil THEN << >> ELSE <<k>> \o from[Step(t, k, side)]
  IN  from[EndOf(t, side)]

-----------------------------------------------------------------------------
(* What erasing, walking and replacing have to do to a sound tree.         *)

ErasesSoundly(t) ==
  \A n \in Stored(t) : LET u == Erase(t, n) IN RedBlack(u) /\ Stored(u) = Stored(t) \ {n}

(* Every node once, the larger names first, or last when walked backwards. *)
WalksInOrder(t) ==
  LET walk == Walk(t, "left") IN
  /\ ToSet(walk) = Stored(t) /\ \A i \in 2 .. Len(walk) : walk[i - 1] > walk[i]
  /\ Walk(t, "right") = Reverse(walk)

(* A node that takes another's place is met where that was.                *)
ReplacesInPlace(t) ==
  \A n \in Stored(t), k \in Key \ Stored(t) :
    LET u == ReplaceNode(t, n, k) IN
    /\ ParentsAgree(u) /\ Balanced(u)
    /\ Walk(u, "left") = [i \in DOMAIN Walk(t, "left") |-> IF Walk(t, "left")[i] = n THEN k ELSE Walk(t, "left")[i]]
=============================================================================
