------------------------------- MODULE RbTree -------------------------------
(***************************************************************************)
(* The red-black tree of net_hashmap/net_hashmap_rbtree.c as far as        *)
(* insertion needs it: linking, rotating, recolouring.  A tree is a record *)
(* of the pointers in its nodes, and a node stands for the key it holds.   *)
(* The code has each operation twice, once for either side: here the side  *)
(* is a parameter.                                                         *)
(***************************************************************************)
EXTENDS Integers

CONSTANTS
  Key,   \* the host names, numbered in the order of strcmp
  Nil    \* NULL

ASSUME KeyAssumption == Key \subseteq Int /\ Nil \notin Key

Side == {"left", "right"}
Other(s) == IF s = "left" THEN "right" ELSE "left"

Tree == [root : Key \cup {Nil},
         child : [Side -> [Key -> Key \cup {Nil}]],
         parent : [Key -> Key \cup {Nil}],
         red : SUBSET Key]

EmptyTree ==
  [root |-> Nil,
   child |-> [s \in Side |-> [k \in Key |-> Nil]],
   parent |-> [k \in Key |-> Nil],
   red |-> {}]

SideOf(t, n, p) == IF t.child["left"][p] = n THEN "left" ELSE "right"

(* Whatever pointed down at n, in p or the root, points at m.              *)
Redirect(t, p, n, m) ==
  IF p = Nil THEN [t EXCEPT !.root = m]
             ELSE [t EXCEPT !.child[SideOf(t, n, p)][p] = m]

SetParent(t, n, p) == IF n = Nil THEN t ELSE [t EXCEPT !.parent[n] = p]

(* rb_link_node: a new leaf, red because its color bit is clear.           *)
Link(t, n, p, s) ==
  LET leaf == [t EXCEPT !.child["left"][n] = Nil, !.child["right"][n] = Nil,
                        !.parent[n] = p, !.red = @ \cup {n}]
  IN  IF p = Nil THEN [leaf EXCEPT !.root = n] ELSE [leaf EXCEPT !.child[s][p] = n]

(* Seeded fault: the subtree that changes sides keeps its old parent.      *)
RotateKeepsInner(t, n, s) ==
  LET up == t.child[Other(s)][n]
      moved == [t EXCEPT !.child[Other(s)][n] = t.child[s][up], !.child[s][up] = n]
  IN  SetParent(SetParent(Redirect(moved, t.parent[n], n, up), up, t.parent[n]), n, up)

(* __rb_rotate_left, __rb_rotate_right: n goes down on side s, its child   *)
(* on the other side comes up, and the subtree between them changes over.  *)
Rotate(t, n, s) ==
  LET up    == t.child[Other(s)][n]
      inner == t.child[s][up]
      moved == [t EXCEPT !.child[Other(s)][n] = inner, !.child[s][up] = n]
      tied  == SetParent(moved, inner, n)
  IN  SetParent(SetParent(Redirect(tied, t.parent[n], n, up), up, t.parent[n]), n, up)

(* The condition of the loop in rb_insert_color. *)
RedUnderRed(t, n) == t.parent[n] # Nil /\ t.parent[n] \in t.red

Uncle(t, n) ==
  LET p == t.parent[n]
      g == t.parent[p]
  IN  t.child[Other(SideOf(t, p, g))][g]

(* A red uncle: parent and uncle turn black, the trouble moves up.         *)
Recolour(t, n) ==
  LET p == t.parent[n]
      g == t.parent[p]
  IN  [tree |-> [t EXCEPT !.red = (@ \ {p, Uncle(t, n)}) \cup {g}], node |-> g]

(* A black uncle or none: n is first brought to the outside, if it is not  *)
(* there, and then its parent into the grandparent's place.                *)
Straighten(t, n) ==
  LET p    == t.parent[n]
      g    == t.parent[p]
      s    == SideOf(t, p, g)
      out  == IF t.child[Other(s)][p] = n
              THEN [tree |-> Rotate(t, p, s), upper |-> n, lower |-> p]
              ELSE [tree |-> t, upper |-> p, lower |-> n]
      dyed == [out.tree EXCEPT !.red = (@ \ {out.upper}) \cup {g}]
  IN  [tree |-> Rotate(dyed, g, Other(s)), node |-> out.lower]

(* One turn of the loop: the tree and the node to go on with.              *)
FixTurn(t, n) ==
  IF Uncle(t, n) # Nil /\ Uncle(t, n) \in t.red THEN Recolour(t, n) ELSE Straighten(t, n)

BlackRoot(t) == [t EXCEPT !.red = @ \ {t.root}]

-----------------------------------------------------------------------------
(* What a red-black tree is, stated without the algorithm.                 *)

(* The nodes of the subtree at n. *)
Below(t, n) ==
  LET nodes[k \in Key \cup {Nil}] ==
        IF k = Nil THEN {} ELSE {k} \cup nodes[t.child["left"][k]] \cup nodes[t.child["right"][k]]
  IN  nodes[n]

Stored(t) == Below(t, t.root)

(* strcmp > 0 goes left: the larger key is on the left.                    *)
Ordered(t) ==
  \A n \in Stored(t) :
    /\ \A k \in Below(t, t.child["left"][n]) : k > n
    /\ \A k \in Below(t, t.child["right"][n]) : k < n

ParentsAgree(t) ==
  /\ t.root # Nil => t.parent[t.root] = Nil
  /\ \A n \in Stored(t), s \in Side : t.child[s][n] # Nil => t.parent[t.child[s][n]] = n

(* Every way from the root down to a missing child passes as many black    *)
(* nodes: their number is counted upwards from the node above the gap.     *)
BlackDepth(t, n) ==
  LET up[k \in Key \cup {Nil}] ==
        IF k = Nil THEN 0 ELSE up[t.parent[k]] + (IF k \in t.red THEN 0 ELSE 1)
  IN  up[n]
Gaps(t) == {n \in Stored(t) : \E s \in Side : t.child[s][n] = Nil}

Balanced(t) ==
  /\ t.root \notin t.red
  /\ \A n \in Stored(t) : ~(n \in t.red /\ RedUnderRed(t, n))
  /\ \A m, n \in Gaps(t) : BlackDepth(t, m) = BlackDepth(t, n)

RedBlack(t) == Ordered(t) /\ ParentsAgree(t) /\ Balanced(t)
=============================================================================
