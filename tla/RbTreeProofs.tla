---------------------------- MODULE RbTreeProofs ----------------------------
(***************************************************************************)
(* Insertion into the red-black tree, for any set of keys and a tree of    *)
(* any shape: linking keeps the order, a rotation changes no subtree but   *)
(* the two it turns, and the rebalancing keeps the black heights.          *)
(***************************************************************************)
EXTENDS RbTree, FiniteSetTheorems, TLAPS

Nodes == Key \cup {Nil}

(* A key on side s of another. *)
OnSide(s, m, k) == IF s = "left" THEN m > k ELSE m < k

(* sub gives for every node the nodes of its subtree. *)
IsBelow(t, sub) ==
  /\ sub \in [Nodes -> SUBSET Key]
  /\ sub[Nil] = {}
  /\ \A k \in Key : sub[k] = {k} \cup sub[t.child["left"][k]] \cup sub[t.child["right"][k]]

Sorted(t, sub) ==
  \A k \in Key, s \in Side : \A m \in sub[t.child[s][k]] : OnSide(s, m, k)

(* The nodes below the root are closed under the pointers, and the pointers*)
(* up undo those down.  A key that has no node yet has no pointers.        *)
Tied(t, sub) ==
  /\ IsFiniteSet(sub[t.root])
  /\ \A k \in sub[t.root] : sub[k] \subseteq sub[t.root]
  /\ \A k \in Key \ sub[t.root] : t.parent[k] = Nil /\ \A s \in Side : t.child[s][k] = Nil
  /\ \A k \in sub[t.root], s \in Side : t.child[s][k] # Nil => t.parent[t.child[s][k]] = k
  /\ t.root # Nil => t.parent[t.root] = Nil
  /\ \A k \in sub[t.root] \ {t.root} :
       t.parent[k] \in sub[t.root] /\ \E s \in Side : t.child[s][t.parent[k]] = k

SearchTree(t, sub) == t \in Tree /\ IsBelow(t, sub) /\ Sorted(t, sub) /\ Tied(t, sub)

-----------------------------------------------------------------------------
(* Single stores into a tree *)

LEMMA Sides == Side = {"left", "right"} /\ \A s \in Side : Other(s) \in Side /\ Other(s) # s /\ Other(Other(s)) = s
BY DEF Side, Other

LEMMA SetChildFields ==
  ASSUME NEW t \in Tree, NEW d \in Side, NEW k \in Key, NEW v \in Nodes
  PROVE  LET r == [t EXCEPT !.child[d][k] = v] IN
         /\ r \in Tree
         /\ r.root = t.root /\ r.parent = t.parent /\ r.red = t.red
         /\ \A e \in Side, j \in Key :
              r.child[e][j] = IF e = d /\ j = k THEN v ELSE t.child[e][j]
BY DEF Tree, Nodes

LEMMA SetParentFields ==
  ASSUME NEW t \in Tree, NEW n \in Nodes, NEW p \in Nodes, NEW r, r = SetParent(t, n, p)
  PROVE  /\ r \in Tree
         /\ r.root = t.root /\ r.child = t.child /\ r.red = t.red
         /\ \A j \in Key : r.parent[j] = IF j = n THEN p ELSE t.parent[j]
BY KeyAssumption DEF Tree, Nodes, SetParent

LEMMA SetRootFields ==
  ASSUME NEW t \in Tree, NEW m \in Nodes
  PROVE  LET r == [t EXCEPT !.root = m] IN
         /\ r \in Tree
         /\ r.root = m /\ r.child = t.child /\ r.parent = t.parent /\ r.red = t.red
BY DEF Tree, Nodes

LEMMA SetRedFields ==
  ASSUME NEW t \in Tree, NEW reds \in SUBSET Key
  PROVE  LET r == [t EXCEPT !.red = reds] IN
         /\ r \in Tree
         /\ r.root = t.root /\ r.child = t.child /\ r.parent = t.parent /\ r.red = reds
BY DEF Tree

LEMMA TreeFields ==
  ASSUME NEW t \in Tree
  PROVE  /\ t.root \in Nodes /\ t.red \in SUBSET Key
         /\ \A s \in Side, k \in Key : t.child[s][k] \in Nodes
         /\ \A k \in Key : t.parent[k] \in Nodes
BY DEF Tree, Nodes

-----------------------------------------------------------------------------
(* Below is the only way to assign subtrees *)

LEMMA BelowUnique ==
  ASSUME NEW t, NEW sub, SearchTree(t, sub), NEW n \in Nodes
  PROVE  Below(t, n) = sub[n]
<1> DEFINE Subtrees(nodes) ==
      nodes = [k \in Key \cup {Nil} |->
                 IF k = Nil THEN {} ELSE {k} \cup nodes[t.child["left"][k]] \cup nodes[t.child["right"][k]]]
    G == CHOOSE nodes : Subtrees(nodes)
<1>1. Below(t, n) = G[n]
  BY DEF Below
<1>0. t \in Tree /\ IsBelow(t, sub) /\ Sorted(t, sub) /\ Tied(t, sub)
  BY DEF SearchTree
<1>2. Subtrees(sub)
  <2>1. \A k \in Key : k # Nil /\ sub[k] = {k} \cup sub[t.child["left"][k]] \cup sub[t.child["right"][k]]
    BY <1>0, KeyAssumption DEF IsBelow
  <2>2. sub = [k \in Nodes |-> sub[k]] /\ sub[Nil] = {}
    BY <1>0 DEF IsBelow
  <2>3. \A k \in Nodes :
          sub[k] = IF k = Nil THEN {} ELSE {k} \cup sub[t.child["left"][k]] \cup sub[t.child["right"][k]]
    BY <2>1, <2>2 DEF Nodes
  <2> QED
    BY <2>2, <2>3 DEF Nodes
<1>3. Subtrees(G)
  <2> HIDE DEF Subtrees
  <2> QED
    BY <1>2
<1> HIDE DEF G
<1>4. G[Nil] = {} /\ \A k \in Key : G[k] = {k} \cup G[t.child["left"][k]] \cup G[t.child["right"][k]]
  BY <1>3, KeyAssumption
<1>a. \A s \in Side, k \in Key : t.child[s][k] \in Nodes
  BY <1>0, TreeFields
<1> DEFINE S == sub[t.root]
           Bad == {k \in Key : G[k] # sub[k]}
<1>5. Bad \subseteq S
  <2>1. ASSUME NEW k \in Key, k \notin S PROVE G[k] = sub[k]
    <3>1. t.child["left"][k] = Nil /\ t.child["right"][k] = Nil
      BY <1>0, <2>1 DEF Tied, Side
    <3>2. G[k] = {k} \cup {} \cup {}
      BY <1>4, <3>1
    <3>3. sub[k] = {k} \cup {} \cup {}
      BY <1>0, <3>1 DEF IsBelow
    <3> QED
      BY <3>2, <3>3
  <2> QED
    BY <2>1
<1>6. SUFFICES ASSUME Bad # {} PROVE FALSE
  BY <1>0, <1>1, <1>4 DEF IsBelow, Nodes
<1> DEFINE Family == {sub[k] : k \in Bad}
<1>7. Family # {} /\ Family \subseteq FiniteSubsetsOf(S)
  <2>1. ASSUME NEW k \in Bad PROVE sub[k] \in FiniteSubsetsOf(S)
    <3>1. sub[k] \subseteq S /\ IsFiniteSet(S)
      BY <1>0, <1>5 DEF Tied
    <3> QED
      BY <3>1, FS_Subset DEF FiniteSubsetsOf
  <2> QED
    BY <1>6, <2>1
<1>8. PICK b \in Family : \A c \in Family : ~ (<<c, b>> \in StrictSubsetOrdering(S))
  <2> HIDE DEF Family, S
  <2> QED
    BY <1>7, FS_StrictSubsetOrderingWellFounded, WFMin
<1>9. PICK k \in Bad : b = sub[k]
  OBVIOUS
<1>10. k \in Key /\ k \in S
  BY <1>5
<1>11. ASSUME NEW s \in Side PROVE G[t.child[s][k]] = sub[t.child[s][k]]
  <2> DEFINE c == t.child[s][k]
  <2>1. CASE c = Nil
    BY <1>0, <1>4, <2>1 DEF IsBelow
  <2>2. CASE c \in Key
    <3>1. sub[c] \subseteq sub[k]
      BY <1>0, <1>10 DEF IsBelow, Side
    <3>2. k \in sub[k]
      BY <1>0, <1>10 DEF IsBelow
    <3>3. k \notin sub[c]
      <4>1. SUFFICES ASSUME k \in sub[c] PROVE FALSE
        OBVIOUS
      <4>2. OnSide(s, k, k)
        BY <1>0, <1>10, <4>1 DEF Sorted
      <4> QED
        BY <1>10, <4>2, KeyAssumption DEF OnSide
    <3>4. sub[k] \subseteq S /\ sub[c] # sub[k]
      BY <1>0, <1>10, <3>2, <3>3 DEF Tied
    <3>5. <<sub[c], b>> \in StrictSubsetOrdering(S)
      <4> HIDE DEF S, c
      <4> QED
        BY <1>9, <3>1, <3>4 DEF StrictSubsetOrdering
    <3>6. sub[c] \notin Family
      BY <1>8, <3>5
    <3> QED
      BY <2>2, <3>6
  <2> QED
    BY <1>a, <1>10, <2>1, <2>2 DEF Nodes
<1>12. G[k] = sub[k]
  <2>1. G[t.child["left"][k]] = sub[t.child["left"][k]]
    BY <1>11 DEF Side
  <2>2. G[t.child["right"][k]] = sub[t.child["right"][k]]
    BY <1>11 DEF Side
  <2>3. sub[k] = {k} \cup sub[t.child["left"][k]] \cup sub[t.child["right"][k]]
    BY <1>0, <1>10 DEF IsBelow
  <2> QED
    BY <1>4, <1>10, <2>1, <2>2, <2>3
<1> QED
  BY <1>12
-----------------------------------------------------------------------------
(* Rotation *)

LEMMA TreeFacts ==
  ASSUME NEW t, NEW sub, SearchTree(t, sub)
  PROVE  /\ \A k \in Nodes : sub[k] \in SUBSET Key
         /\ sub[Nil] = {}
         /\ \A k \in Key : k \in sub[k]
         /\ \A k \in Key, s \in Side : sub[t.child[s][k]] \subseteq sub[k] /\ k \notin sub[t.child[s][k]]
         /\ \A k \in Key, s \in Side : t.child[s][k] # k
         /\ \A k \in Key : t.child["left"][k] = t.child["right"][k] => t.child["left"][k] = Nil
         /\ sub[t.root] \in SUBSET Key
         /\ \A k \in sub[t.root], s \in Side : t.child[s][k] \in sub[t.root] \cup {Nil}
<1>0. t \in Tree /\ IsBelow(t, sub) /\ Sorted(t, sub) /\ Tied(t, sub) /\ Nil \notin Key /\ Key \subseteq Int
  BY KeyAssumption DEF SearchTree
<1>1. \A s \in Side, k \in Key : t.child[s][k] \in Nodes
  BY <1>0, TreeFields
<1>2. /\ \A k \in Nodes : sub[k] \in SUBSET Key
      /\ sub[Nil] = {}
      /\ \A k \in Key : k \in sub[k]
      /\ \A k \in Key, s \in Side : sub[t.child[s][k]] \subseteq sub[k]
  BY <1>0 DEF IsBelow, Side
<1>3. ASSUME NEW k \in Key, NEW s \in Side PROVE k \notin sub[t.child[s][k]]
  <2>1. SUFFICES ASSUME k \in sub[t.child[s][k]] PROVE FALSE
    OBVIOUS
  <2>2. OnSide(s, k, k)
    BY <1>0, <2>1 DEF Sorted
  <2> QED
    BY <1>0, <2>2 DEF OnSide
<1>4. ASSUME NEW k \in Key, NEW s \in Side PROVE t.child[s][k] # k
  BY <1>2, <1>3
<1>5. ASSUME NEW k \in Key, t.child["left"][k] = t.child["right"][k] PROVE t.child["left"][k] = Nil
  <2> DEFINE c == t.child["left"][k]
  <2>1. SUFFICES ASSUME c \in Key PROVE FALSE
    BY <1>1 DEF Nodes, Side
  <2>2. c \in sub[t.child["left"][k]] /\ c \in sub[t.child["right"][k]]
    BY <1>2, <1>5, <2>1
  <2>3. OnSide("left", c, k) /\ OnSide("right", c, k)
    BY <1>0, <2>2 DEF Sorted, Side
  <2>4. c > k /\ c < k
    BY <2>3 DEF OnSide
  <2> HIDE DEF c
  <2> QED
    BY <1>0, <2>1, <2>4
<1>6. sub[t.root] \in SUBSET Key
  BY <1>0, <1>2, TreeFields
<1>7. ASSUME NEW k \in sub[t.root], NEW s \in Side PROVE t.child[s][k] \in sub[t.root] \cup {Nil}
  <2>1. k \in Key
    BY <1>6
  <2>2. CASE t.child[s][k] \in Key
    BY <1>0, <1>2, <2>1, <2>2 DEF Tied
  <2> QED
    BY <1>1, <2>1, <2>2 DEF Nodes
<1> QED
  BY <1>2, <1>3, <1>4, <1>5, <1>6, <1>7

(* What a rotation of n towards side s stores: the child from the other    *)
(* side takes its place, and the subtree between them changes over.        *)
LEMMA RotateFields ==
  ASSUME NEW t, NEW sub, SearchTree(t, sub), NEW n \in sub[t.root], NEW s \in Side,
         NEW u, u = t.child[Other(s)][n], u # Nil,
         NEW inner, inner = t.child[s][u], NEW p, p = t.parent[n],
         NEW r, r = Rotate(t, n, s)
  PROVE  /\ r \in Tree /\ r.red = t.red
         /\ r.root = IF p = Nil THEN u ELSE t.root
         /\ \A d \in Side, k \in Key :
              r.child[d][k] = IF d = Other(s) /\ k = n THEN inner
                              ELSE IF d = s /\ k = u THEN n
                              ELSE IF p # Nil /\ k = p /\ t.child[d][p] = n THEN u
                              ELSE t.child[d][k]
         /\ \A k \in Key :
              r.parent[k] = IF k = n THEN u ELSE IF k = u THEN p ELSE IF k = inner THEN n
                            ELSE t.parent[k]
         /\ n # u /\ p # n /\ p # u /\ inner # n /\ inner # u /\ (p # Nil => inner # p)
         /\ n \in Key /\ u \in Key /\ inner \in Nodes /\ p \in Nodes
<1>0. t \in Tree /\ Tied(t, sub) /\ IsBelow(t, sub) /\ Nil \notin Key
  BY KeyAssumption DEF SearchTree
<1>1. n \in Key /\ u \in sub[t.root] /\ u \in Key /\ inner \in sub[t.root] \cup {Nil} /\ p \in Nodes
  BY <1>0, TreeFacts, TreeFields, Sides DEF Nodes
<1>2. inner \in Nodes
  BY <1>1, TreeFacts DEF Nodes
<1>3. n # u /\ inner # u /\ t.parent[u] = n /\ (inner # Nil => t.parent[inner] = u)
  BY SMTT(60), <1>0, <1>1, TreeFacts, Sides DEF Tied
<1>4. inner # n
  <2>1. u \notin sub[inner] /\ sub[inner] \subseteq sub[u] /\ u \in sub[n]
    BY <1>1, TreeFacts, Sides
  <2> QED
    BY <2>1
<1>5. p # Nil => p \in sub[t.root] /\ \E d \in Side : t.child[d][p] = n
  <2>1. p # Nil => n # t.root
    BY <1>0, <1>1 DEF Tied
  <2> QED
    BY <1>0, <2>1 DEF Tied
<1>6. p # n /\ p # u
  <2>1. n # Nil /\ n \in sub[n] /\ u \in sub[u]
    BY <1>0, <1>1, TreeFacts
  <2>2. p # n
    BY <1>1, <1>5, <2>1, TreeFacts
  <2>3. SUFFICES ASSUME p = u PROVE FALSE
    BY <2>2
  <2>4. PICK d \in Side : t.child[d][u] = n
    BY <1>0, <1>1, <1>5, <2>3
  <2>5. sub[n] \subseteq sub[u] /\ u \notin sub[n]
    BY <1>1, <2>4, TreeFacts
  <2>6. u \in sub[n]
    BY <1>1, <2>1, TreeFacts, Sides
  <2> QED
    BY <2>5, <2>6
<1>7. ASSUME p # Nil PROVE inner # p
  <2>1. SUFFICES ASSUME inner = p PROVE FALSE
    OBVIOUS
  <2>2. PICK d \in Side : t.child[d][p] = n
    BY <1>5, <1>7
  <2>3. p \in Key /\ sub[n] \subseteq sub[p] /\ p \notin sub[n]
    BY <1>5, <1>7, <2>2, TreeFacts
  <2>4. p \in sub[p] /\ sub[t.child[s][u]] \subseteq sub[u] /\ sub[t.child[Other(s)][n]] \subseteq sub[n]
    BY <1>1, <2>3, TreeFacts, Sides
  <2>5. p \in sub[n]
    BY <2>1, <2>4
  <2> QED
    BY <2>3, <2>5
<1>n. n \in Nodes /\ u \in Nodes
  BY <1>1 DEF Nodes
<1> DEFINE m1 == [t EXCEPT !.child[Other(s)][n] = inner]
           m2 == [m1 EXCEPT !.child[s][u] = n]
           m3 == SetParent(m2, inner, n)
           m4 == Redirect(m3, p, n, u)
           m5 == SetParent(m4, u, p)
           m6 == SetParent(m5, n, u)
<1>8. r = m6
  BY DEF Rotate
<1>9. /\ m1 \in Tree /\ m1.root = t.root /\ m1.parent = t.parent /\ m1.red = t.red
      /\ \A d \in Side, k \in Key :
           m1.child[d][k] = IF d = Other(s) /\ k = n THEN inner ELSE t.child[d][k]
  BY ONLY <1>0, <1>1, <1>2, SetChildFields, Sides
<1> HIDE DEF m1
<1>10. /\ m2 \in Tree /\ m2.root = t.root /\ m2.parent = t.parent /\ m2.red = t.red
       /\ \A d \in Side, k \in Key : m2.child[d][k] = IF d = s /\ k = u THEN n ELSE m1.child[d][k]
  BY <1>1, <1>9, SetChildFields DEF Nodes
<1> HIDE DEF m2
<1>11. /\ m3 \in Tree /\ m3.root = t.root /\ m3.child = m2.child /\ m3.red = t.red
       /\ \A k \in Key : m3.parent[k] = IF k = inner THEN n ELSE t.parent[k]
  <2>1. n \in Nodes /\ inner \in Nodes /\ m2 \in Tree
    BY <1>n, <1>2, <1>10
  <2>2. /\ m3 \in Tree /\ m3.root = m2.root /\ m3.child = m2.child /\ m3.red = m2.red
        /\ \A k \in Key : m3.parent[k] = IF k = inner THEN n ELSE m2.parent[k]
    BY ONLY <2>1, SetParentFields
  <2> QED
    BY <1>10, <2>2
<1> HIDE DEF m3
<1>12. \A d \in Side, k \in Key :
         m3.child[d][k] = IF d = Other(s) /\ k = n THEN inner
                          ELSE IF d = s /\ k = u THEN n ELSE t.child[d][k]
  <2> TAKE d \in Side, k \in Key
  <2>1. m3.child[d][k] = IF d = s /\ k = u THEN n ELSE m1.child[d][k]
    BY <1>10, <1>11
  <2>2. m1.child[d][k] = IF d = Other(s) /\ k = n THEN inner ELSE t.child[d][k]
    BY <1>9
  <2> QED
    BY <1>3, <2>1, <2>2
<1>13. /\ m4 \in Tree /\ m4.red = t.red /\ m4.parent = m3.parent
       /\ m4.root = IF p = Nil THEN u ELSE t.root
       /\ \A d \in Side, k \in Key :
            m4.child[d][k] = IF p # Nil /\ k = p /\ t.child[d][p] = n THEN u ELSE m3.child[d][k]
  <2>1. CASE p = Nil
    <3>1. m4 = [m3 EXCEPT !.root = u]
      BY <2>1 DEF Redirect
    <3> QED
      BY <1>1, <1>11, <2>1, <3>1, SetRootFields DEF Nodes
  <2>2. CASE p # Nil
    <3> DEFINE d0 == SideOf(m3, n, p)
    <3>1. p \in Key /\ d0 \in Side
      BY <1>1, <2>2 DEF Nodes, SideOf, Side
    <3>2. m4 = [m3 EXCEPT !.child[d0][p] = u]
      BY <2>2 DEF Redirect
    <3>3. \A d \in Side : m3.child[d][p] = t.child[d][p]
      BY <1>6, <1>12, <3>1
    <3>4. \A d \in Side : t.child[d][p] = n <=> d = d0
      <4>1. PICK d \in Side : t.child[d][p] = n
        BY ONLY <1>5, <2>2
      <4>2. ~ (t.child["left"][p] = n /\ t.child["right"][p] = n)
        BY <1>0, <1>1, <3>1, TreeFacts
      <4>3. m3.child["left"][p] = t.child["left"][p]
        BY <3>3, Sides
      <4> QED
        BY <4>1, <4>2, <4>3, Sides DEF SideOf
    <3> HIDE DEF d0
    <3>5. /\ m4 \in Tree /\ m4.root = m3.root /\ m4.parent = m3.parent /\ m4.red = m3.red
          /\ \A d \in Side, k \in Key :
               m4.child[d][k] = IF d = d0 /\ k = p THEN u ELSE m3.child[d][k]
      BY <1>1, <1>11, <3>1, <3>2, SetChildFields DEF Nodes
    <3> QED
      BY <1>11, <2>2, <3>4, <3>5
  <2> QED
    BY <2>1, <2>2
<1> HIDE DEF m4
<1>14. /\ m5 \in Tree /\ m5.root = m4.root /\ m5.child = m4.child /\ m5.red = m4.red
       /\ \A k \in Key : m5.parent[k] = IF k = u THEN p ELSE m4.parent[k]
  <2>1. u \in Nodes /\ p \in Nodes /\ m4 \in Tree
    BY <1>n, <1>1, <1>13
  <2>2. m5 = SetParent(m4, u, p)
    OBVIOUS
  <2> HIDE DEF m5
  <2> QED
    BY ONLY <2>1, <2>2, SetParentFields
<1> HIDE DEF m5
<1>15. /\ m6 \in Tree /\ m6.root = m5.root /\ m6.child = m5.child /\ m6.red = m5.red
       /\ \A k \in Key : m6.parent[k] = IF k = n THEN u ELSE m5.parent[k]
  <2>1. u \in Nodes /\ n \in Nodes /\ m5 \in Tree
    BY <1>n, <1>14
  <2>2. m6 = SetParent(m5, n, u)
    OBVIOUS
  <2> HIDE DEF m6
  <2> QED
    BY ONLY <2>1, <2>2, SetParentFields
<1> HIDE DEF m6
<1>16. \A d \in Side, k \in Key :
         r.child[d][k] = IF d = Other(s) /\ k = n THEN inner
                         ELSE IF d = s /\ k = u THEN n
                         ELSE IF p # Nil /\ k = p /\ t.child[d][p] = n THEN u
                         ELSE t.child[d][k]
  <2> TAKE d \in Side, k \in Key
  <2>1. r.child[d][k] = IF p # Nil /\ k = p /\ t.child[d][p] = n THEN u ELSE m3.child[d][k]
    BY <1>8, <1>13, <1>14, <1>15
  <2>2. m3.child[d][k] = IF d = Other(s) /\ k = n THEN inner
                          ELSE IF d = s /\ k = u THEN n ELSE t.child[d][k]
    BY <1>12
  <2> QED
    BY <1>6, <2>1, <2>2
<1>17. \A k \in Key :
         r.parent[k] = IF k = n THEN u ELSE IF k = u THEN p ELSE IF k = inner THEN n
                       ELSE t.parent[k]
  <2> TAKE k \in Key
  <2>1. r.parent[k] = IF k = n THEN u ELSE m5.parent[k]
    BY <1>8, <1>15
  <2>2. m5.parent[k] = IF k = u THEN p ELSE m3.parent[k]
    BY <1>13, <1>14
  <2>3. m3.parent[k] = IF k = inner THEN n ELSE t.parent[k]
    BY <1>11
  <2> QED
    BY <2>1, <2>2, <2>3
<1>18. r \in Tree /\ r.red = t.red
  BY ONLY <1>8, <1>11, <1>13, <1>14, <1>15
<1>19. r.root = IF p = Nil THEN u ELSE t.root
  BY ONLY <1>8, <1>13, <1>14, <1>15
<1>20. n # u /\ p # n /\ p # u /\ inner # n /\ inner # u /\ (p # Nil => inner # p)
  BY ONLY <1>3, <1>4, <1>6, <1>7
<1>21. n \in Key /\ u \in Key /\ inner \in Nodes /\ p \in Nodes
  BY ONLY <1>1, <1>2
<1> QED
  BY ONLY <1>16, <1>17, <1>18, <1>19, <1>20, <1>21
LEMMA SubtreeSides ==
  ASSUME NEW t, NEW sub, IsBelow(t, sub), NEW k \in Key, NEW s \in Side
  PROVE  sub[k] = {k} \cup sub[t.child[s][k]] \cup sub[t.child[Other(s)][k]]
<1>1. sub[k] = {k} \cup sub[t.child["left"][k]] \cup sub[t.child["right"][k]]
  BY DEF IsBelow
<1>2. CASE s = "left"
  BY <1>1, <1>2 DEF Other
<1>3. CASE s = "right"
  BY <1>1, <1>3 DEF Other
<1> QED
  BY <1>2, <1>3, Sides

LEMMA OnSideOrder ==
  ASSUME NEW s \in Side, NEW a \in Int, NEW b \in Int, NEW c \in Int
  PROVE  /\ OnSide(Other(s), a, b) <=> OnSide(s, b, a)
         /\ OnSide(s, a, b) /\ OnSide(s, b, c) => OnSide(s, a, c)
         /\ ~ OnSide(s, a, a)
<1>1. CASE s = "left"
  BY <1>1 DEF OnSide, Other
<1>2. CASE s = "right"
  BY <1>2 DEF OnSide, Other
<1> QED
  BY <1>1, <1>2, Sides

(* The subtrees after a rotation: those of n and u change.                 *)
Turned(t, sub, n, s) ==
  LET u == t.child[Other(s)][n]
  IN  [sub EXCEPT ![n] = {n} \cup sub[t.child[s][n]] \cup sub[t.child[s][u]], ![u] = sub[n]]

(* A rotation keeps the order and the pointers up: the subtrees of n and u *)
(* change, the others do not.                                              *)
LEMMA RotateTree ==
  ASSUME NEW t, NEW sub, SearchTree(t, sub), NEW n \in sub[t.root], NEW s \in Side,
         NEW u, u = t.child[Other(s)][n], u # Nil,
         NEW r, r = Rotate(t, n, s),
         NEW turned, turned = Turned(t, sub, n, s)
  PROVE  SearchTree(r, turned) /\ turned[r.root] = sub[t.root]
<1>tu. turned = [sub EXCEPT ![n] = {n} \cup sub[t.child[s][n]] \cup sub[t.child[s][u]],
                            ![u] = sub[n]]
  BY DEF Turned
<1> DEFINE o == Other(s)
           S == sub[t.root]
<1>1. PICK inner : inner = t.child[s][u]
  OBVIOUS
<1>2. PICK p : p = t.parent[n]
  OBVIOUS
<1>3. PICK out : out = t.child[s][n]
  OBVIOUS
<1>o. o \in Side /\ o # s /\ Other(o) = s /\ \A d \in Side : d = s \/ d = o
  BY Sides
<1>ut. u = t.child[o][n]
  OBVIOUS
<1> HIDE DEF o
<1>4. t \in Tree /\ IsBelow(t, sub) /\ Sorted(t, sub) /\ Tied(t, sub) /\ Nil \notin Key /\ Key \subseteq Int
  BY KeyAssumption DEF SearchTree
<1>5. /\ r \in Tree /\ r.red = t.red
      /\ r.root = IF p = Nil THEN u ELSE t.root
      /\ \A d \in Side, k \in Key :
           r.child[d][k] = IF d = o /\ k = n THEN inner
                           ELSE IF d = s /\ k = u THEN n
                           ELSE IF p # Nil /\ k = p /\ t.child[d][p] = n THEN u
                           ELSE t.child[d][k]
      /\ \A k \in Key :
           r.parent[k] = IF k = n THEN u ELSE IF k = u THEN p ELSE IF k = inner THEN n
                         ELSE t.parent[k]
      /\ n # u /\ p # n /\ p # u /\ inner # n /\ inner # u /\ (p # Nil => inner # p)
      /\ n \in Key /\ u \in Key /\ inner \in Nodes /\ p \in Nodes
  BY <1>1, <1>2, RotateFields DEF o
<1>6. /\ S \in SUBSET Key
      /\ \A k \in Nodes : sub[k] \in SUBSET Key
      /\ sub[Nil] = {}
      /\ \A k \in Key : k \in sub[k]
      /\ \A k \in Key, d \in Side : sub[t.child[d][k]] \subseteq sub[k] /\ k \notin sub[t.child[d][k]]
      /\ \A k \in Key, d \in Side : t.child[d][k] # k
      /\ \A k \in S, d \in Side : t.child[d][k] \in S \cup {Nil}
  BY <1>4, TreeFacts
<1>7. u \in S /\ inner \in S \cup {Nil} /\ out \in S \cup {Nil} /\ n \in S
  BY <1>1, <1>3, <1>6, <1>o, <1>ut
<1>8. /\ t.parent[u] = n /\ (inner # Nil => t.parent[inner] = u)
      /\ (out # Nil => t.parent[out] = n)
  BY <1>1, <1>3, <1>4, <1>7, <1>o, <1>ut DEF Tied
<1>9. out # n /\ out # u /\ (out # Nil => out # inner)
  <2>1. t.child["left"][n] = t.child["right"][n] => t.child["left"][n] = Nil
    BY <1>5, TreeFacts
  <2>2. out # u
    BY <1>3, <1>o, <1>ut, <2>1, Sides
  <2> QED
    BY <1>3, <1>5, <1>6, <1>8, <2>2
<1>10. p = Nil => n = t.root
  BY <1>2, <1>4, <1>6 DEF Tied
<1>11. p # Nil => p \in S /\ t.root # n /\ t.root # u /\ t.root # inner
  <2>1. t.root # Nil
    BY <1>4, <1>6 DEF IsBelow
  <2>2. t.parent[t.root] = Nil
    BY <1>4, <2>1 DEF Tied
  <2>3. n # Nil /\ u # Nil
    BY <1>4, <1>5
  <2>4. n # t.root => p \in S
    BY <1>2, <1>4 DEF Tied
  <2>5. p # Nil => t.root # n
    BY <1>2, <2>2
  <2>6. t.root # u
    BY <1>8, <2>2, <2>3
  <2>7. t.root # inner
    BY <1>8, <2>1, <2>2, <2>3
  <2> QED
    BY <2>4, <2>5, <2>6, <2>7
<1>12. t.root \in Nodes /\ n \in Nodes /\ u \in Nodes /\ out \in Nodes
  BY <1>3, <1>4, <1>5, <1>o, TreeFields DEF Nodes
(* the subtrees after the rotation *)
<1> DEFINE N == {n} \cup sub[out] \cup sub[inner]
<1>13. /\ turned \in [Nodes -> SUBSET Key]
       /\ turned[n] = N /\ turned[u] = sub[n]
       /\ \A k \in Nodes : k # n /\ k # u => turned[k] = sub[k]
  <2>1. turned = [sub EXCEPT ![n] = N, ![u] = sub[n]]
    BY <1>1, <1>3, <1>tu
  <2>2. N \in SUBSET Key /\ sub[n] \in SUBSET Key /\ sub \in [Nodes -> SUBSET Key]
    BY <1>4, <1>5, <1>6, <1>12 DEF IsBelow
  <2> HIDE DEF N
  <2> QED
    BY <1>5, <1>12, <2>1, <2>2
<1>14. /\ r.child[o][n] = inner /\ r.child[s][n] = out
       /\ r.child[s][u] = n /\ r.child[o][u] = t.child[o][u]
  BY <1>3, <1>5, <1>o
<1>15. /\ t.child[o][u] \in S \cup {Nil} /\ t.child[o][u] # u /\ t.child[o][u] # n
       /\ (t.child[o][u] # Nil => t.parent[t.child[o][u]] = u /\ t.child[o][u] # inner)
  <2>1. t.child[o][u] \in S \cup {Nil} /\ t.child[o][u] # u
    BY <1>5, <1>6, <1>7, <1>o
  <2>2. t.child[o][u] # Nil => t.parent[t.child[o][u]] = u
    BY <1>4, <1>7, <1>o DEF Tied
  <2>3. t.child[o][u] # n
    BY <1>2, <1>4, <1>5, <2>2
  <2>4. t.child["left"][u] = t.child["right"][u] => t.child["left"][u] = Nil
    BY <1>5, TreeFacts
  <2>5. t.child[o][u] # Nil => t.child[o][u] # inner
    BY <1>1, <1>o, <2>4, Sides
  <2> QED
    BY <2>1, <2>2, <2>3, <2>5
<1>16. ASSUME NEW k \in Key, k # n, k # u, NEW d \in Side
       PROVE  turned[r.child[d][k]] = sub[t.child[d][k]]
  <2>0. t.child[d][k] \in Nodes
    BY <1>4, TreeFields
  <2>1. t.child[d][k] = n => p = k
    <3>1. t.child[d][k] = n => k \in S
      BY <1>4, <1>5 DEF Tied
    <3> QED
      BY <1>2, <1>4, <1>5, <3>1 DEF Tied
  <2>2. t.child[d][k] # u
    <3>1. t.child[d][k] = u => k \in S
      BY <1>4, <1>5 DEF Tied
    <3>2. k \in S /\ t.child[d][k] = u => t.parent[u] = k
      BY <1>4, <1>5 DEF Tied
    <3> QED
      BY <1>8, <1>16, <3>1, <3>2
  <2>3. CASE t.child[d][k] = n
    <3>1. p = k /\ p # Nil
      BY <1>4, <2>1, <2>3
    <3>2. r.child[d][k] = u
      BY <1>5, <1>16, <2>3, <3>1
    <3> QED
      BY <1>13, <2>3, <3>2
  <2>4. CASE t.child[d][k] # n
    <3>1. r.child[d][k] = t.child[d][k]
      BY <1>5, <1>16, <2>4
    <3> QED
      BY <1>13, <2>0, <2>2, <2>4, <3>1
  <2> QED
    BY <2>3, <2>4
<1>17. turned[inner] = sub[inner] /\ turned[out] = sub[out] /\ turned[t.child[o][u]] = sub[t.child[o][u]]
  <2>1. t.child[o][u] \in Nodes
    BY <1>6, <1>15 DEF Nodes
  <2> QED
    BY <1>5, <1>9, <1>12, <1>13, <1>15, <2>1
<1>18. sub[n] = {n} \cup sub[out] \cup sub[u] /\ sub[u] = {u} \cup sub[inner] \cup sub[t.child[o][u]]
  <2>1. sub[n] = {n} \cup sub[t.child[s][n]] \cup sub[t.child[Other(s)][n]]
    BY <1>4, <1>5, SubtreeSides
  <2>2. sub[u] = {u} \cup sub[t.child[s][u]] \cup sub[t.child[Other(s)][u]]
    BY <1>4, <1>5, SubtreeSides
  <2> QED
    BY <1>1, <1>3, <2>1, <2>2 DEF o
<1>19. IsBelow(r, turned)
  <2>1. turned[Nil] = {}
    BY <1>4, <1>5, <1>6, <1>13 DEF Nodes
  <2>2. ASSUME NEW k \in Key
        PROVE  turned[k] = {k} \cup turned[r.child[s][k]] \cup turned[r.child[o][k]]
    <3>1. CASE k = n
      BY <1>13, <1>14, <1>17, <3>1
    <3>2. CASE k = u
      <4>1. turned[r.child[s][u]] = N /\ turned[r.child[o][u]] = sub[t.child[o][u]]
        BY <1>13, <1>14, <1>17
      <4>2. sub[n] = {u} \cup N \cup sub[t.child[o][u]]
        BY <1>18
      <4> QED
        BY <1>13, <3>2, <4>1, <4>2
    <3>3. CASE k # n /\ k # u
      <4>1. turned[k] = sub[k]
        BY <1>13, <3>3 DEF Nodes
      <4>2. turned[r.child[s][k]] = sub[t.child[s][k]] /\ turned[r.child[o][k]] = sub[t.child[o][k]]
        BY <1>16, <1>o, <3>3
      <4>3. sub[k] = {k} \cup sub[t.child[s][k]] \cup sub[t.child[Other(s)][k]]
        BY <1>4, SubtreeSides
      <4> QED
        BY <4>1, <4>2, <4>3 DEF o
    <3> QED
      BY <3>1, <3>2, <3>3
  <2>3. ASSUME NEW k \in Key
        PROVE  turned[k] = {k} \cup turned[r.child["left"][k]] \cup turned[r.child["right"][k]]
    <3>1. turned[k] = {k} \cup turned[r.child[s][k]] \cup turned[r.child[o][k]]
      BY <2>2
    <3>2. CASE s = "left" /\ o = "right"
      BY <3>1, <3>2
    <3>3. CASE s = "right" /\ o = "left"
      BY <3>1, <3>3
    <3> QED
      BY <1>o, <3>2, <3>3, Sides
  <2> QED
    BY <1>13, <2>1, <2>3 DEF IsBelow
<1>20. Sorted(r, turned)
  <2> SUFFICES ASSUME NEW k \in Key, NEW d \in Side, NEW m \in turned[r.child[d][k]]
               PROVE  OnSide(d, m, k)
    BY DEF Sorted
  <2>1. CASE k # n /\ k # u
    BY <1>4, <1>16, <2>1 DEF Sorted
  <2>2. CASE k = n /\ d = s
    BY <1>3, <1>4, <1>14, <1>17, <2>2 DEF Sorted
  <2>3. CASE k = n /\ d = o
    <3>1. m \in sub[t.child[o][n]]
      BY <1>14, <1>17, <1>18, <1>ut, <2>3
    <3> QED
      BY <1>4, <2>3, <3>1 DEF Sorted
  <2>4. CASE k = u /\ d = o
    BY <1>4, <1>14, <1>17, <2>4 DEF Sorted
  <2>5. CASE k = u /\ d = s
    <3>1. m \in N
      BY <1>13, <1>14, <2>5
    <3>2. OnSide(o, u, n)
      BY <1>4, <1>5, <1>6, <1>o, <1>ut DEF Sorted
    <3>3. n \in Int /\ u \in Int
      BY <1>4, <1>5
    <3>4. OnSide(s, n, u)
      BY <3>2, <3>3, OnSideOrder DEF o
    <3>5. CASE m = n
      BY <2>5, <3>4, <3>5
    <3>6. CASE m \in sub[out]
      <4>1. OnSide(s, m, n)
        BY <1>3, <1>4, <1>5, <3>6 DEF Sorted
      <4>2. m \in Int
        BY <1>4, <1>6, <1>12, <3>6
      <4>3. OnSide(s, m, u)
        BY ONLY s \in Side, <3>3, <3>4, <4>1, <4>2, OnSideOrder
      <4> QED
        BY <2>5, <4>3
    <3>7. CASE m \in sub[inner]
      BY <1>1, <1>4, <1>5, <2>5, <3>7 DEF Sorted
    <3> QED
      BY <3>1, <3>5, <3>6, <3>7
  <2> QED
    BY <1>o, <2>1, <2>2, <2>3, <2>4, <2>5
<1>21. turned[r.root] = S
  <2>1. CASE p = Nil
    BY <1>5, <1>10, <1>13, <2>1
  <2>2. CASE p # Nil
    BY <1>5, <1>11, <1>12, <1>13, <2>2
  <2> QED
    BY <2>1, <2>2
<1> HIDE DEF N, S
<1>22. \A k \in S : turned[k] \subseteq S
  <2> TAKE k \in S
  <2>1. sub[k] \subseteq S /\ sub[n] \subseteq S
    BY <1>4, <1>7 DEF Tied, S
  <2>2. N \subseteq sub[n]
    BY <1>18 DEF N
  <2>3. k \in Nodes
    BY <1>6 DEF Nodes
  <2> QED
    BY <1>13, <2>1, <2>2, <2>3
<1>23. ASSUME NEW k \in Key, k \notin S, NEW d \in Side
       PROVE  r.parent[k] = Nil /\ r.child[d][k] = Nil
  <2>1. t.parent[k] = Nil /\ t.child[d][k] = Nil
    BY <1>4, <1>23 DEF Tied, S
  <2>2. k # n /\ k # u /\ k # inner /\ k # p
    BY <1>4, <1>7, <1>11, <1>23
  <2> QED
    BY <1>5, <2>1, <2>2
<1>24. ASSUME NEW k \in S, NEW d \in Side, r.child[d][k] # Nil
       PROVE  r.parent[r.child[d][k]] = k
  <2>0. k \in Key
    BY <1>6
  <2>1. CASE k = n /\ d = o
    <3>1. inner \in Key /\ inner # n /\ inner # u
      BY <1>4, <1>5, <1>14, <1>24, <2>1 DEF Nodes
    <3> QED
      BY <1>5, <1>14, <2>1, <3>1
  <2>2. CASE k = n /\ d = s
    <3>1. out \in Key /\ t.parent[out] = n /\ out # inner
      BY <1>8, <1>9, <1>12, <1>14, <1>24, <2>2 DEF Nodes
    <3> QED
      BY <1>5, <1>9, <1>14, <2>2, <3>1
  <2>3. CASE k = u /\ d = s
    BY <1>5, <1>14, <2>3
  <2>4. CASE k = u /\ d = o
    <3>1. PICK c : c = t.child[o][u]
      OBVIOUS
    <3>2. c \in Key /\ t.parent[c] = u /\ c # inner /\ c # n /\ c # u /\ r.child[d][k] = c
      BY <1>6, <1>14, <1>15, <1>24, <2>4, <3>1
    <3> QED
      BY <1>5, <2>4, <3>2
  <2>5. CASE k # n /\ k # u
    <3>1. CASE k = p /\ t.child[d][k] = n
      <4>1. r.child[d][k] = u
        BY <1>4, <1>5, <2>0, <2>5, <3>1
      <4> QED
        BY <1>5, <3>1, <4>1
    <3>2. CASE ~ (k = p /\ t.child[d][k] = n)
      <4>1. PICK c : c = t.child[d][k]
        OBVIOUS
      <4>2. r.child[d][k] = c /\ c # Nil
        BY <1>5, <1>24, <2>0, <2>5, <3>2, <4>1
      <4>3. c \in Key /\ t.parent[c] = k
        <5>1. c \in Nodes
          BY <1>4, <2>0, <4>1, TreeFields
        <5>2. t.parent[t.child[d][k]] = k
          BY <1>4, <4>1, <4>2 DEF Tied, S
        <5> QED
          BY <4>1, <4>2, <5>1, <5>2 DEF Nodes
      <4>4. c # n /\ c # u /\ c # inner
        BY <1>2, <1>8, <2>5, <3>2, <4>1, <4>2, <4>3
      <4> QED
        BY <1>5, <4>2, <4>3, <4>4
    <3> QED
      BY <3>1, <3>2
  <2> QED
    BY <1>o, <2>1, <2>2, <2>3, <2>4, <2>5
<1>25. r.root # Nil => r.parent[r.root] = Nil
  <2>1. CASE p = Nil
    BY <1>5, <2>1
  <2>2. CASE p # Nil
    <3>1. t.root # n /\ t.root # u /\ t.root # inner /\ t.root # Nil /\ r.root = t.root
      BY <1>5, <1>6, <1>7, <1>11, <2>2 DEF S
    <3>2. t.root \in Key /\ t.parent[t.root] = Nil
      BY <1>4, <1>12, <3>1 DEF Nodes, Tied
    <3> QED
      BY <1>5, <3>1, <3>2
  <2> QED
    BY <2>1, <2>2
<1>26. ASSUME NEW k \in S, k # r.root
       PROVE  r.parent[k] \in S /\ \E d \in Side : r.child[d][r.parent[k]] = k
  <2>0. k \in Key
    BY <1>6
  <2>1. CASE k = n
    BY <1>5, <1>7, <1>14, <2>1
  <2>2. CASE k = u
    <3>1. p # Nil /\ p \in S /\ r.parent[u] = p
      BY <1>5, <1>11, <1>26, <2>2
    <3>2. p \in Key /\ p # n /\ p # u
      BY <1>5, <1>6, <3>1
    <3>3. PICK d \in Side : t.child[d][p] = n
      BY <1>2, <1>4, <1>7, <1>11, <3>1 DEF Tied, S
    <3>4. r.child[d][p] = u
      BY <1>5, <3>1, <3>2, <3>3
    <3> QED
      BY <2>2, <3>1, <3>4
  <2>3. CASE k = inner
    <3>1. r.parent[k] = n
      BY <1>5, <2>0, <2>3
    <3> QED
      BY <1>7, <1>14, <1>o, <2>3, <3>1
  <2>4. CASE k # n /\ k # u /\ k # inner
    <3>1. r.parent[k] = t.parent[k]
      BY <1>5, <2>0, <2>4
    <3>2. k # t.root
      BY <1>5, <1>10, <1>26, <2>4
    <3>3. t.parent[k] \in S
      BY <1>4, <3>2 DEF Tied, S
    <3>4. PICK d \in Side : t.child[d][t.parent[k]] = k
      BY <1>4, <3>2 DEF Tied, S
    <3>5. PICK q : q = t.parent[k]
      OBVIOUS
    <3>6. q \in Key /\ t.child[d][q] = k
      BY <1>6, <3>3, <3>4, <3>5
    <3>7. ~ (d = o /\ q = n) /\ ~ (d = s /\ q = u)
      BY <1>1, <1>ut, <2>4, <3>6
    <3>8. r.child[d][q] = k
      BY <1>5, <2>4, <3>6, <3>7
    <3> QED
      BY <3>1, <3>3, <3>5, <3>8
  <2> QED
    BY <2>1, <2>2, <2>3, <2>4
<1>27. IsFiniteSet(S)
  BY <1>4 DEF Tied, S
<1>28. Tied(r, turned)
  BY <1>21, <1>22, <1>23, <1>24, <1>25, <1>26, <1>27 DEF Tied
<1> QED
  BY <1>5, <1>19, <1>20, <1>21, <1>28 DEF SearchTree, S
-----------------------------------------------------------------------------
(* Colours *)

Black(t, k) == IF k \in t.red THEN 0 ELSE 1

(* ht gives for every node how many black nodes any way down from it meets.*)
Heights(t, sub, ht) ==
  /\ ht \in [Nodes -> Nat]
  /\ ht[Nil] = 0
  /\ \A k \in sub[t.root], s \in Side : ht[k] = ht[t.child[s][k]] + Black(t, k)

(* No red node but n has a red parent.                                     *)
RedOnlyUnder(t, sub, n) ==
  \A k \in sub[t.root] : k \in t.red /\ k # n => t.parent[k] \notin t.red

(* A red-black tree, but for the red node n that may be under a red one or *)
(* be the root.                                                            *)
AlmostRedBlack(t, sub, n) ==
  /\ SearchTree(t, sub)
  /\ \E ht : Heights(t, sub, ht)
  /\ n \in sub[t.root] /\ n \in t.red
  /\ t.root \in t.red => t.root = n
  /\ RedOnlyUnder(t, sub, n)

RedBlackTree(t, sub) ==
  /\ SearchTree(t, sub)
  /\ \E ht : Heights(t, sub, ht)
  /\ t.root \notin t.red
  /\ RedOnlyUnder(t, sub, Nil)

LEMMA RotateSearchTree ==
  ASSUME NEW t, NEW sub, NEW n, NEW s, SearchTree(t, sub), n \in sub[t.root], s \in Side,
         t.child[Other(s)][n] # Nil
  PROVE  /\ SearchTree(Rotate(t, n, s), Turned(t, sub, n, s))
         /\ Turned(t, sub, n, s)[Rotate(t, n, s).root] = sub[t.root]
<1>1. PICK u : u = t.child[Other(s)][n]
  OBVIOUS
<1>2. PICK r : r = Rotate(t, n, s)
  OBVIOUS
<1>3. PICK turned : turned = Turned(t, sub, n, s)
  OBVIOUS
<1>4. SearchTree(t, sub) /\ n \in sub[t.root] /\ s \in Side /\ u # Nil
  BY <1>1
<1>5. SearchTree(r, turned) /\ turned[r.root] = sub[t.root]
  BY ONLY <1>1, <1>2, <1>3, <1>4, RotateTree
<1> QED
  BY <1>2, <1>3, <1>5

LEMMA OnlyParent ==
  ASSUME NEW t, NEW sub, SearchTree(t, sub), NEW k \in Key, NEW d \in Side,
         t.child[d][k] # Nil
  PROVE  /\ t.parent[t.child[d][k]] = k /\ t.child[d][k] \in sub[t.root]
         /\ k \in sub[t.root]
<1>0. Tied(t, sub)
  BY DEF SearchTree
<1>1. k \in sub[t.root]
  BY <1>0 DEF Tied
<1>2. t.child[d][k] \in sub[t.root] \cup {Nil}
  BY <1>1, TreeFacts
<1> QED
  BY <1>0, <1>1, <1>2 DEF Tied

LEMMA SearchTreeRed ==
  ASSUME NEW t, NEW sub, SearchTree(t, sub), NEW reds \in SUBSET Key, NEW r,
         r = [t EXCEPT !.red = reds]
  PROVE  /\ SearchTree(r, sub)
         /\ r.root = t.root /\ r.child = t.child /\ r.parent = t.parent /\ r.red = reds
<1>1. /\ r \in Tree
      /\ r.root = t.root /\ r.child = t.child /\ r.parent = t.parent /\ r.red = reds
  BY SetRedFields DEF SearchTree
<1>2. IsBelow(r, sub) /\ Sorted(r, sub) /\ Tied(r, sub)
  BY <1>1 DEF SearchTree, IsBelow, Sorted, Tied
<1> QED
  BY <1>1, <1>2 DEF SearchTree

(* A red node n comes down on side s with equal heights below: it has the  *)
(* height of its new subtrees, and the node that comes up has the height n *)
(* had.                                                                    *)
LEMMA RotateHeights ==
  ASSUME NEW t, NEW sub, SearchTree(t, sub), NEW n \in sub[t.root], NEW s \in Side,
         NEW u, u = t.child[Other(s)][n], u # Nil,
         NEW r, r = Rotate(t, n, s),
         NEW turned, turned[r.root] = sub[t.root],
         NEW ht \in [Nodes -> Nat], ht[Nil] = 0, NEW h \in Nat,
         ht[t.child[s][n]] = h, ht[t.child[s][u]] = h, ht[t.child[Other(s)][u]] = h,
         n \in t.red, ht[n] = h + Black(t, u),
         \A k \in sub[t.root], d \in Side :
           k # n /\ k # u => ht[k] = ht[t.child[d][k]] + Black(t, k)
  PROVE  \E new : Heights(r, turned, new)
<1> DEFINE o == Other(s)
           S == sub[t.root]
           new == [ht EXCEPT ![n] = h, ![u] = ht[n]]
<1>1. PICK inner : inner = t.child[s][u]
  OBVIOUS
<1>2. PICK p : p = t.parent[n]
  OBVIOUS
<1>o. o \in Side /\ o # s /\ Other(o) = s /\ \A d \in Side : d = s \/ d = o
  BY Sides
<1>ut. u = t.child[o][n]
  OBVIOUS
<1>3. ht[t.child[o][u]] = h
  OBVIOUS
<1> HIDE DEF o
<1>4. t \in Tree /\ Nil \notin Key
  BY KeyAssumption DEF SearchTree
<1>5. /\ r.red = t.red
      /\ \A d \in Side, k \in Key :
           r.child[d][k] = IF d = o /\ k = n THEN inner
                           ELSE IF d = s /\ k = u THEN n
                           ELSE IF p # Nil /\ k = p /\ t.child[d][p] = n THEN u
                           ELSE t.child[d][k]
      /\ n # u /\ p # n /\ p # u /\ inner # n /\ inner # u
      /\ n \in Key /\ u \in Key /\ inner \in Nodes
  BY <1>1, <1>2, RotateFields DEF o
<1>6. S \in SUBSET Key /\ \A d \in Side, k \in Key : t.child[d][k] \in Nodes
  BY <1>4, TreeFacts, TreeFields
<1>7. /\ new \in [Nodes -> Nat] /\ new[n] = h /\ new[u] = ht[n]
      /\ \A k \in Nodes : k # n /\ k # u => new[k] = ht[k]
  <2>1. n \in Nodes /\ u \in Nodes /\ ht[n] \in Nat
    BY <1>5 DEF Nodes
  <2> QED
    BY <1>5, <2>1
<1> HIDE DEF new
<1>8. new[Nil] = 0
  BY <1>4, <1>5, <1>7 DEF Nodes
<1>9. Black(t, n) = 0
  BY DEF Black
<1>10. Black(t, u) \in Nat /\ \A k : Black(r, k) = Black(t, k)
  BY <1>5 DEF Black
<1>11. ASSUME NEW k \in Key, NEW d \in Side, k # n, k # u PROVE new[r.child[d][k]] = ht[t.child[d][k]]
  <2>1. t.child[d][k] = n => p = k
    BY <1>2, <1>4, <1>5, OnlyParent
  <2>2. t.child[d][k] # u
    <3>1. t.parent[u] = n
      BY <1>5, <1>o, <1>ut, OnlyParent
    <3>2. t.child[d][k] = u => t.parent[u] = k
      BY OnlyParent
    <3> QED
      BY <1>11, <3>1, <3>2
  <2>3. CASE t.child[d][k] = n
    <3>1. p = k /\ p # Nil
      BY <1>4, <2>1, <2>3
    <3>2. r.child[d][k] = u
      BY <1>5, <1>11, <2>3, <3>1
    <3> QED
      BY <1>7, <2>3, <3>2
  <2>4. CASE t.child[d][k] # n
    <3>1. r.child[d][k] = t.child[d][k]
      BY <1>5, <1>11, <2>4
    <3> QED
      BY <1>6, <1>7, <2>2, <2>4, <3>1
  <2> QED
    BY <2>3, <2>4
<1>12. \A d \in Side : new[r.child[d][n]] = h
  <2>1. r.child[o][n] = inner /\ new[inner] = h
    BY <1>1, <1>5, <1>7, <1>o
  <2>2. r.child[s][n] = t.child[s][n]
    BY <1>5, <1>o
  <2>3. t.child[s][n] # n
    BY <1>5, TreeFacts
  <2>4. t.child[s][n] # u
    <3>1. t.child["left"][n] = t.child["right"][n] => t.child["left"][n] = Nil
      BY <1>5, TreeFacts
    <3> QED
      BY <1>o, <1>ut, <3>1, Sides
  <2>5. t.child[s][n] \in Nodes
    BY <1>5, <1>6
  <2>6. new[t.child[s][n]] = ht[t.child[s][n]]
    BY <1>7, <2>3, <2>4, <2>5
  <2>7. new[r.child[s][n]] = h
    BY <2>2, <2>6
  <2> QED
    BY <1>o, <2>1, <2>7
<1>13. \A d \in Side : new[r.child[d][u]] = h
  <2>1. r.child[s][u] = n /\ r.child[o][u] = t.child[o][u]
    BY <1>5, <1>o
  <2>2. t.child[o][u] # u /\ t.child[o][u] \in Nodes
    BY <1>5, <1>6, <1>o, TreeFacts
  <2>3. t.child[o][u] # n
    <3>1. t.child[o][u] = n => t.parent[n] = u
      BY <1>4, <1>5, <1>o, OnlyParent
    <3> QED
      BY <1>2, <1>5, <3>1
  <2>4. new[t.child[o][u]] = ht[t.child[o][u]]
    BY <1>7, <2>2, <2>3
  <2>5. new[r.child[s][u]] = h /\ new[r.child[o][u]] = h
    BY <1>3, <1>7, <2>1, <2>4
  <2> QED
    BY <1>o, <2>5
<1>14. ASSUME NEW k \in S, NEW d \in Side PROVE new[k] = new[r.child[d][k]] + Black(r, k)
  <2>0. k \in Key /\ k \in Nodes
    BY <1>6 DEF Nodes
  <2>1. CASE k = n
    BY <1>7, <1>9, <1>10, <1>12, <2>1
  <2>2. CASE k = u
    BY <1>7, <1>10, <1>13, <2>2
  <2>3. CASE k # n /\ k # u
    <3>1. new[k] = ht[k]
      BY <1>7, <2>0, <2>3
    <3>2. new[r.child[d][k]] = ht[t.child[d][k]]
      BY <1>11, <2>0, <2>3
    <3>3. ht[k] = ht[t.child[d][k]] + Black(t, k)
      BY <2>3
    <3> QED
      BY <1>10, <3>1, <3>2, <3>3
  <2> QED
    BY <2>1, <2>2, <2>3
<1>15. Heights(r, turned, new)
  BY <1>7, <1>8, <1>14 DEF Heights
<1> QED
  BY <1>15

(* The same, its hypotheses and its conclusion under a name each. *)
SameHeights(t, sub, n, s, ht, h) ==
  /\ SearchTree(t, sub) /\ n \in sub[t.root] /\ s \in Side
  /\ LET u == t.child[Other(s)][n] IN
     /\ u # Nil
     /\ ht \in [Nodes -> Nat] /\ ht[Nil] = 0 /\ h \in Nat
     /\ ht[t.child[s][n]] = h /\ ht[t.child[s][u]] = h /\ ht[t.child[Other(s)][u]] = h
     /\ n \in t.red /\ ht[n] = h + Black(t, u)
     /\ \A k \in sub[t.root], d \in Side :
          k # n /\ k # u => ht[k] = ht[t.child[d][k]] + Black(t, k)

HasHeights(t, sub) == \E ht : Heights(t, sub, ht)

LEMMA RotateSameHeights ==
  ASSUME NEW t, NEW sub, NEW n, NEW s, NEW ht, NEW h, NEW turned,
         SameHeights(t, sub, n, s, ht, h), turned[Rotate(t, n, s).root] = sub[t.root]
  PROVE  HasHeights(Rotate(t, n, s), turned)
<1>1. PICK u : u = t.child[Other(s)][n]
  OBVIOUS
<1>2. PICK r : r = Rotate(t, n, s)
  OBVIOUS
<1>3. /\ SearchTree(t, sub) /\ n \in sub[t.root] /\ s \in Side /\ u # Nil
      /\ ht \in [Nodes -> Nat] /\ ht[Nil] = 0 /\ h \in Nat
      /\ ht[t.child[s][n]] = h /\ ht[t.child[s][u]] = h /\ ht[t.child[Other(s)][u]] = h
      /\ n \in t.red /\ ht[n] = h + Black(t, u)
      /\ \A k \in sub[t.root], d \in Side :
           k # n /\ k # u => ht[k] = ht[t.child[d][k]] + Black(t, k)
  BY <1>1 DEF SameHeights
<1>4. turned[r.root] = sub[t.root]
  BY <1>2
<1>5. \E new : Heights(r, turned, new)
  BY ONLY <1>1, <1>2, <1>3, <1>4, RotateHeights
<1> QED
  BY <1>2, <1>5 DEF HasHeights
-----------------------------------------------------------------------------
(* rb_insert_color *)

(* Where the loop goes on: the parent is red, so there is a grandparent,   *)
(* which is black.                                                         *)
LEMMA Grandparent ==
  ASSUME NEW t, NEW sub, NEW n, AlmostRedBlack(t, sub, n), RedUnderRed(t, n),
         NEW p, p = t.parent[n], NEW g, g = t.parent[p], NEW s, s = SideOf(t, p, g)
  PROVE  /\ n \in Key /\ n \in sub[t.root]
         /\ p \in Key /\ p \in sub[t.root] /\ p \in t.red
         /\ g \in Key /\ g \in sub[t.root] /\ g \notin t.red
         /\ n # p /\ p # g /\ n # g /\ t.root \notin t.red
         /\ s \in Side /\ t.child[s][g] = p
         /\ t.child[s][p] = n \/ t.child[Other(s)][p] = n
         /\ Uncle(t, n) = t.child[Other(s)][g] /\ t.child[Other(s)][g] # p
<1>1. SearchTree(t, sub) /\ Tied(t, sub) /\ t \in Tree /\ Nil \notin Key
  BY KeyAssumption DEF AlmostRedBlack, SearchTree
<1>2. n \in sub[t.root] /\ n \in t.red /\ p # Nil /\ p \in t.red
  BY DEF AlmostRedBlack, RedUnderRed
<1>3. sub[t.root] \in SUBSET Key /\ t.root \in Nodes
  BY <1>1, TreeFacts, TreeFields
<1>4. n # t.root
  BY <1>1, <1>2, <1>3 DEF Tied
<1>5. t.root \notin t.red
  BY <1>4 DEF AlmostRedBlack
<1>6. p \in sub[t.root] /\ \E d \in Side : t.child[d][p] = n
  BY <1>1, <1>2, <1>4 DEF Tied
<1>7. p # t.root
  BY <1>2, <1>5
<1>8. g \in sub[t.root] /\ \E d \in Side : t.child[d][g] = p
  BY <1>1, <1>6, <1>7 DEF Tied
<1>9. n # p /\ p # g
  BY <1>1, <1>3, <1>6, <1>8, TreeFacts
<1>10. g \notin t.red
  BY <1>2, <1>6, <1>9 DEF AlmostRedBlack, RedOnlyUnder
<1>11. s \in Side /\ t.child[s][g] = p
  BY <1>8, Sides DEF SideOf
<1>12. t.child[s][p] = n \/ t.child[Other(s)][p] = n
  BY <1>6, <1>11, Sides
<1>13. Uncle(t, n) = t.child[Other(s)][g]
  BY DEF Uncle
<1>14. t.child[Other(s)][g] # p
  <2>1. t.child["left"][g] = t.child["right"][g] => t.child["left"][g] = Nil
    BY SMTT(60), <1>1, <1>3, <1>8, TreeFacts
  <2> QED
    BY <1>2, <1>11, <2>1, Sides
<1> QED
  BY <1>2, <1>3, <1>5, <1>6, <1>8, <1>9, <1>10, <1>11, <1>12, <1>13, <1>14

(* A red uncle: the trouble moves two levels up. *)
LEMMA RecolourKeeps ==
  ASSUME NEW t, NEW sub, NEW n, AlmostRedBlack(t, sub, n), RedUnderRed(t, n),
         Uncle(t, n) # Nil, Uncle(t, n) \in t.red,
         NEW r, r = Recolour(t, n)
  PROVE  AlmostRedBlack(r.tree, sub, r.node) /\ r.tree.root = t.root
<1>p. PICK p : p = t.parent[n]
  OBVIOUS
<1>g. PICK g : g = t.parent[p]
  OBVIOUS
<1>s. PICK s : s = SideOf(t, p, g)
  OBVIOUS
<1>y. PICK y : y = Uncle(t, n)
  OBVIOUS
<1>1. /\ n \in Key /\ n \in sub[t.root]
      /\ p \in Key /\ p \in sub[t.root] /\ p \in t.red
      /\ g \in Key /\ g \in sub[t.root] /\ g \notin t.red
      /\ n # p /\ p # g /\ n # g /\ t.root \notin t.red
      /\ s \in Side /\ t.child[s][g] = p
      /\ y = t.child[Other(s)][g] /\ y # p /\ y # Nil /\ y \in t.red
  BY <1>p, <1>g, <1>s, <1>y, Grandparent
<1>2. SearchTree(t, sub) /\ t \in Tree
  BY DEF AlmostRedBlack, SearchTree
<1> DEFINE S == sub[t.root]
           reds == (t.red \ {p, y}) \cup {g}
<1>3. S \in SUBSET Key /\ t.red \in SUBSET Key /\ y \in S /\ \A d \in Side, k \in Key : t.child[d][k] \in Nodes
  BY <1>1, <1>2, TreeFacts, TreeFields, Sides
<1>4. t.parent[y] = g /\ y # g
  BY <1>1, <1>2, OnlyParent, Sides
<1>5. PICK q : q = [t EXCEPT !.red = reds]
  OBVIOUS
<1>6. r.tree = q /\ r.node = g
  BY <1>p, <1>g, <1>y, <1>5 DEF Recolour
<1>7. /\ SearchTree(q, sub)
      /\ q.root = t.root /\ q.child = t.child /\ q.parent = t.parent /\ q.red = reds
  BY <1>1, <1>2, <1>3, <1>5, SearchTreeRed
<1>8. PICK ht : Heights(t, sub, ht)
  BY DEF AlmostRedBlack
<1>9. /\ ht \in [Nodes -> Nat] /\ ht[Nil] = 0
      /\ \A k \in S, d \in Side : ht[k] = ht[t.child[d][k]] + Black(t, k)
  BY <1>8 DEF Heights
<1>n. p \in Nodes /\ y \in Nodes /\ g \in Nodes /\ Nil \in Nodes /\ Nil # p /\ Nil # y
  BY <1>1, <1>3, KeyAssumption DEF Nodes
<1>10. PICK new : new = [ht EXCEPT ![p] = ht[p] + 1, ![y] = ht[y] + 1]
  OBVIOUS
<1>11. /\ new \in [Nodes -> Nat] /\ new[p] = ht[p] + 1 /\ new[y] = ht[y] + 1
       /\ \A k \in Nodes : k # p /\ k # y => new[k] = ht[k]
  BY <1>1, <1>9, <1>10, <1>n
<1>12. /\ Black(t, p) = 0 /\ Black(t, y) = 0 /\ Black(t, g) = 1
       /\ Black(q, p) = 1 /\ Black(q, y) = 1 /\ Black(q, g) = 0
       /\ \A k : k # p /\ k # y /\ k # g => Black(q, k) = Black(t, k)
       /\ \A k : Black(t, k) \in Nat
  BY <1>1, <1>4, <1>7 DEF Black
<1>13. ASSUME NEW k \in S, NEW d \in Side
       PROVE  new[k] = new[t.child[d][k]] + Black(q, k)
  <2>0. k \in Key /\ k \in Nodes /\ t.child[d][k] \in Nodes
    BY <1>3 DEF Nodes
  <2>1. ht[k] \in Nat /\ ht[t.child[d][k]] \in Nat /\ ht[k] = ht[t.child[d][k]] + Black(t, k)
    BY <1>9, <2>0
  <2>2. t.child[d][k] \in {p, y} => k = g
    <3>1. t.parent[p] = g /\ p # Nil
      BY <1>g, <1>n
    <3>2. t.child[d][k] # Nil => t.parent[t.child[d][k]] = k
      BY <1>2, <2>0, OnlyParent
    <3> QED
      BY <1>1, <1>4, <3>1, <3>2
  <2>3. CASE k = g
    <3>1. t.child[d][g] = p \/ t.child[d][g] = y
      BY <1>1, Sides
    <3>2. new[t.child[d][g]] = ht[t.child[d][g]] + 1
      BY <1>11, <3>1
    <3>3. new[g] = ht[g]
      BY <1>1, <1>4, <1>11, <1>n
    <3> QED
      BY <1>12, <2>1, <2>3, <3>2, <3>3
  <2>4. CASE k = p \/ k = y
    <3>1. new[k] = ht[k] + 1 /\ new[t.child[d][k]] = ht[t.child[d][k]]
      BY <1>1, <1>4, <1>11, <2>0, <2>2, <2>4
    <3>2. Black(t, k) = 0 /\ Black(q, k) = 1
      BY <1>12, <2>4
    <3> QED
      BY <2>1, <3>1, <3>2
  <2>5. CASE k # g /\ k # p /\ k # y
    <3>1. new[k] = ht[k] /\ new[t.child[d][k]] = ht[t.child[d][k]]
      BY <1>11, <2>0, <2>2, <2>5
    <3>2. Black(q, k) = Black(t, k)
      BY <1>12, <2>5
    <3> QED
      BY <2>1, <3>1, <3>2
  <2> QED
    BY <2>3, <2>4, <2>5
<1>14. Heights(q, sub, new)
  <2>1. new[Nil] = 0
    BY <1>9, <1>11, <1>n
  <2> QED
    BY <1>7, <1>11, <1>13, <2>1 DEF Heights
<1>15. g \in sub[q.root] /\ g \in q.red /\ (q.root \in q.red => q.root = g)
  BY <1>1, <1>7
<1>16. RedOnlyUnder(q, sub, g)
  <2> SUFFICES ASSUME NEW k \in S, k \in reds, k # g, t.parent[k] \in reds PROVE FALSE
    BY <1>7 DEF RedOnlyUnder
  <2>1. k \in t.red /\ k # p /\ k # y
    BY <1>1, <1>4
  <2>2. CASE k = n
    BY <1>1, <1>p, <2>2
  <2>3. CASE k # n
    <3>1. t.parent[k] \notin t.red
      BY <2>1, <2>3 DEF AlmostRedBlack, RedOnlyUnder
    <3>2. t.parent[k] = g
      BY <3>1
    <3>3. k # t.root
      BY <1>1, <2>1
    <3>4. PICK d \in Side : t.child[d][g] = k
      BY <1>2, <3>2, <3>3 DEF SearchTree, Tied
    <3> QED
      BY <1>1, <2>1, <3>4, Sides
  <2> QED
    BY <2>2, <2>3
<1> QED
  BY <1>6, <1>7, <1>14, <1>15, <1>16 DEF AlmostRedBlack

(* In r the red nodes p and n are in a line under g, with p the lower one. *)
InLine(t, sub, n, p, g, s, r) ==
  \E turned :
    /\ AlmostRedBlack(r, turned, p) /\ turned[r.root] = sub[t.root]
    /\ r.parent[p] = n /\ r.parent[n] = g
    /\ r.child[s][g] = n /\ r.child[s][n] = p
    /\ r.child[Other(s)][g] = t.child[Other(s)][g]
    /\ r.red = t.red

(* n lies between parent and grandparent: it changes places with its       *)
(* parent, and the two red nodes are in a line.                            *)
LEMMA InnerKeeps ==
  ASSUME NEW t, NEW sub, NEW n, AlmostRedBlack(t, sub, n), RedUnderRed(t, n),
         NEW p, p = t.parent[n], NEW g, g = t.parent[p], NEW s, s = SideOf(t, p, g),
         t.child[Other(s)][p] = n,
         NEW r, r = Rotate(t, p, s)
  PROVE  InLine(t, sub, n, p, g, s, r)
<1>1. /\ n \in Key /\ n \in sub[t.root] /\ n \in t.red
      /\ p \in Key /\ p \in sub[t.root] /\ p \in t.red
      /\ g \in Key /\ g \in sub[t.root] /\ g \notin t.red
      /\ n # p /\ p # g /\ n # g /\ t.root \notin t.red
      /\ s \in Side /\ t.child[s][g] = p /\ t.child[Other(s)][g] # p
  BY Grandparent DEF AlmostRedBlack
<1>2. SearchTree(t, sub) /\ t \in Tree /\ Nil \notin Key
  BY KeyAssumption DEF AlmostRedBlack, SearchTree
<1>3. PICK inner : inner = t.child[s][n]
  OBVIOUS
<1>4. PICK turned : turned = Turned(t, sub, p, s)
  OBVIOUS
<1>n. /\ SearchTree(t, sub) /\ p \in sub[t.root] /\ s \in Side
      /\ n = t.child[Other(s)][p] /\ n # Nil /\ r = Rotate(t, p, s)
  BY <1>1, <1>2
<1>5. SearchTree(r, turned) /\ turned[r.root] = sub[t.root]
  BY ONLY <1>4, <1>n, RotateTree
<1>6. /\ r \in Tree /\ r.red = t.red
      /\ r.root = IF g = Nil THEN n ELSE t.root
      /\ \A d \in Side, k \in Key :
           r.child[d][k] = IF d = Other(s) /\ k = p THEN inner
                           ELSE IF d = s /\ k = n THEN p
                           ELSE IF g # Nil /\ k = g /\ t.child[d][g] = p THEN n
                           ELSE t.child[d][k]
      /\ \A k \in Key :
           r.parent[k] = IF k = p THEN n ELSE IF k = n THEN g ELSE IF k = inner THEN p
                         ELSE t.parent[k]
      /\ p # n /\ inner # p /\ inner # n /\ inner \in Nodes
  <2>1. g = t.parent[p]
    OBVIOUS
  <2> QED
    BY ONLY SMTT(60), <1>3, <1>n, <2>1, RotateFields
<1>7. PICK ht : Heights(t, sub, ht)
  BY DEF AlmostRedBlack
<1>8. /\ ht \in [Nodes -> Nat] /\ ht[Nil] = 0
      /\ \A k \in sub[t.root], d \in Side : ht[k] = ht[t.child[d][k]] + Black(t, k)
  BY <1>7 DEF Heights
<1>9. Black(t, n) = 0 /\ Black(t, p) = 0
  BY <1>1 DEF Black
<1>10. PICK h \in Nat : h = ht[p]
  BY ONLY <1>1, <1>8 DEF Nodes
<1>11. \A d \in Side : t.child[d][p] \in Nodes /\ t.child[d][n] \in Nodes
  BY <1>1, <1>2, TreeFields
<1>12. \A d \in Side : ht[t.child[d][p]] = h
  <2> TAKE d \in Side
  <2>1. ht[t.child[d][p]] \in Nat /\ ht[p] = ht[t.child[d][p]] + 0
    BY ONLY <1>1, <1>8, <1>9, <1>11
  <2> QED
    BY SMTT(60), <1>10, <2>1
<1>13. ht[n] = h
  BY ONLY <1>1, <1>12, <1>n, Sides
<1>14. \A d \in Side : ht[t.child[d][n]] = h
  <2> TAKE d \in Side
  <2>1. ht[t.child[d][n]] \in Nat /\ ht[n] = ht[t.child[d][n]] + 0
    BY ONLY <1>1, <1>8, <1>9, <1>11
  <2> QED
    BY <1>13, <2>1
<1>15. \E new : Heights(r, turned, new)
  <2>1. ht[t.child[s][p]] = h /\ ht[t.child[s][n]] = h /\ ht[t.child[Other(s)][n]] = h
    BY <1>1, <1>12, <1>14, Sides
  <2>2. ht[p] = h + Black(t, n)
    BY <1>9, <1>10
  <2> QED
    <3>1. /\ ht \in [Nodes -> Nat] /\ ht[Nil] = 0 /\ h \in Nat /\ p \in t.red
          /\ \A k \in sub[t.root], d \in Side :
               k # p /\ k # n => ht[k] = ht[t.child[d][k]] + Black(t, k)
      BY <1>1, <1>8
    <3> QED
      BY ONLY <1>5, <1>n, <2>1, <2>2, <3>1, RotateHeights
<1>16. r.root = t.root
  BY <1>1, <1>2, <1>6
<1>17. RedOnlyUnder(r, turned, p)
  <2> SUFFICES ASSUME NEW k \in sub[t.root], k \in t.red, k # p, r.parent[k] \in t.red PROVE FALSE
    BY <1>5, <1>6 DEF RedOnlyUnder
  <2>0. k \in Key
    BY ONLY <1>2, TreeFacts
  <2>1. CASE k = n
    BY <1>1, <1>6, <2>1
  <2>2. CASE k = inner
    <3>0. t.child[s][n] # Nil /\ SearchTree(t, sub) /\ n \in Key /\ s \in Side
      BY ONLY <1>1, <1>2, <1>3, <2>0, <2>2
    <3>a. t.parent[t.child[s][n]] = n
      BY ONLY <3>0, OnlyParent
    <3>1. t.parent[k] = n
      BY ONLY <1>3, <2>2, <3>a
    <3>2. k # n
      BY <1>6, <2>2
    <3> QED
      BY <1>1, <3>1, <3>2 DEF AlmostRedBlack, RedOnlyUnder
  <2>3. CASE k # n /\ k # inner
    <3>1. r.parent[k] = t.parent[k]
      BY <1>6, <2>0, <2>3
    <3> QED
      BY <2>3, <3>1 DEF AlmostRedBlack, RedOnlyUnder
  <2> QED
    BY <2>1, <2>2, <2>3
<1>18. AlmostRedBlack(r, turned, p)
  BY <1>1, <1>5, <1>6, <1>15, <1>16, <1>17 DEF AlmostRedBlack
<1>19. /\ r.parent[p] = n /\ r.parent[n] = g
       /\ r.child[s][g] = n /\ r.child[s][n] = p
       /\ r.child[Other(s)][g] = t.child[Other(s)][g]
  <2>1. r.parent[p] = n /\ r.parent[n] = g
    BY <1>1, <1>6
  <2>2. s # Other(s) /\ Other(s) \in Side /\ g # Nil
    BY ONLY <1>1, <1>2, Sides
  <2>3. r.child[s][g] = n /\ r.child[s][n] = p
    BY <1>1, <1>6, <2>2
  <2>4. t.child[Other(s)][g] # p
    BY <1>1
  <2>5. r.child[Other(s)][g] = t.child[Other(s)][g]
    BY ZenonT(60), <1>1, <1>6, <2>2, <2>4
  <2> QED
    BY <2>1, <2>3, <2>5
<1> QED
  BY <1>5, <1>6, <1>18, <1>19 DEF InLine

Dyed(t, upper, g) == [t EXCEPT !.red = (@ \ {upper}) \cup {g}]

(* Two red nodes in a line under a black one, whose other child is black:  *)
(* the upper one comes up, black, and the grandparent goes down, red.      *)
LEMMA OuterKeeps ==
  ASSUME NEW t, NEW sub, NEW lower, AlmostRedBlack(t, sub, lower), RedUnderRed(t, lower),
         NEW upper, upper = t.parent[lower], NEW g, g = t.parent[upper],
         NEW s \in Side, t.child[s][g] = upper, t.child[s][upper] = lower,
         t.child[Other(s)][g] \notin t.red,
         NEW dyed, dyed = Dyed(t, upper, g),
         NEW r, r = Rotate(dyed, g, Other(s))
  PROVE  \E turned : AlmostRedBlack(r, turned, lower) /\ turned[r.root] = sub[t.root]
<1>1. /\ lower \in Key /\ lower \in sub[t.root] /\ lower \in t.red
      /\ upper \in Key /\ upper \in sub[t.root] /\ upper \in t.red
      /\ g \in Key /\ g \in sub[t.root] /\ g \notin t.red
      /\ lower # upper /\ upper # g /\ lower # g /\ t.root \notin t.red
  BY Grandparent DEF AlmostRedBlack
<1>2. SearchTree(t, sub) /\ t \in Tree /\ Nil \notin Key
  BY KeyAssumption DEF AlmostRedBlack, SearchTree
<1>o. PICK o \in Side : o = Other(s) /\ o # s /\ Other(o) = s /\ \A d \in Side : d = s \/ d = o
  BY Sides
<1>3. PICK inner : inner = t.child[o][upper]
  OBVIOUS
<1>q. PICK q : q = t.parent[g]
  OBVIOUS
<1>y. PICK y : y = t.child[o][g] /\ y \notin t.red
  BY <1>o
<1>4. /\ SearchTree(dyed, sub) /\ dyed.red = (t.red \ {upper}) \cup {g}
      /\ dyed.root = t.root /\ dyed.child = t.child /\ dyed.parent = t.parent
  <2>1. (t.red \ {upper}) \cup {g} \in SUBSET Key
    BY <1>1, <1>2, TreeFields
  <2>2. dyed = [t EXCEPT !.red = (t.red \ {upper}) \cup {g}]
    BY DEF Dyed
  <2> QED
    BY <1>2, <2>1, <2>2, SearchTreeRed
<1>u. upper = dyed.child[Other(o)][g] /\ upper # Nil
  BY <1>1, <1>2, <1>4, <1>o
<1>5. PICK turned : turned = Turned(dyed, sub, g, o)
  OBVIOUS
<1>r. r = Rotate(dyed, g, o) /\ g \in sub[dyed.root] /\ SearchTree(dyed, sub) /\ o \in Side
  BY <1>1, <1>4, <1>o
<1>6. SearchTree(r, turned) /\ turned[r.root] = sub[t.root]
  <2>1. SearchTree(r, turned) /\ turned[r.root] = sub[dyed.root]
    BY ONLY <1>5, <1>r, <1>u, RotateSearchTree
  <2> QED
    BY <1>4, <2>1
<1>7. /\ r \in Tree /\ r.red = dyed.red
      /\ r.root = IF q = Nil THEN upper ELSE t.root
      /\ \A k \in Key :
           r.parent[k] = IF k = g THEN upper ELSE IF k = upper THEN q ELSE IF k = inner THEN g
                         ELSE t.parent[k]
      /\ g # upper /\ inner # g /\ inner # upper /\ inner \in Nodes
  <2>1. q = dyed.parent[g] /\ inner = dyed.child[o][upper]
    BY <1>3, <1>4, <1>q
  <2>2. /\ r \in Tree /\ r.red = dyed.red
        /\ r.root = IF q = Nil THEN upper ELSE dyed.root
        /\ \A k \in Key :
             r.parent[k] = IF k = g THEN upper ELSE IF k = upper THEN q ELSE IF k = inner THEN g
                           ELSE dyed.parent[k]
        /\ g # upper /\ inner # g /\ inner # upper /\ inner \in Nodes
    BY ONLY <1>r, <1>u, <2>1, RotateFields
  <2>3. dyed.parent = t.parent /\ dyed.root = t.root
    BY <1>4
  <2> QED
    BY ONLY <2>2, <2>3
<1>8. PICK ht : Heights(t, sub, ht)
  BY DEF AlmostRedBlack
<1>9. /\ ht \in [Nodes -> Nat] /\ ht[Nil] = 0
      /\ \A k \in sub[t.root], d \in Side : ht[k] = ht[t.child[d][k]] + Black(t, k)
  BY ONLY <1>8 DEF Heights
<1>10. /\ Black(t, upper) = 0 /\ Black(t, g) = 1 /\ Black(dyed, upper) = 1
       /\ \A k : k # upper /\ k # g => Black(dyed, k) = Black(t, k)
  BY <1>1, <1>4 DEF Black
<1>11. PICK h \in Nat : h = ht[upper]
  BY <1>1, <1>9 DEF Nodes
<1>12. \A d \in Side : t.child[d][g] \in Nodes /\ t.child[d][upper] \in Nodes
  BY <1>1, <1>2, TreeFields
<1>13. \A d \in Side : ht[t.child[d][upper]] = h
  <2> TAKE d \in Side
  <2>1. ht[t.child[d][upper]] \in Nat /\ ht[upper] = ht[t.child[d][upper]] + 0
    BY ONLY <1>1, <1>9, <1>10, <1>12
  <2> QED
    BY SMTT(60), <1>11, <2>1
<1>14. ht[g] = h + 1 /\ ht[t.child[o][g]] = h
  <2>1. ht[g] = ht[t.child[s][g]] + 1 /\ ht[g] = ht[t.child[o][g]] + 1 /\ ht[t.child[o][g]] \in Nat
    BY ONLY <1>1, <1>9, <1>10, <1>12
  <2>2. ht[t.child[s][g]] = h
    BY <1>11
  <2>3. PICK m : m = ht[t.child[o][g]]
    OBVIOUS
  <2>4. ht[g] = h + 1 /\ ht[g] = m + 1 /\ m \in Nat
    BY <2>1, <2>2, <2>3
  <2>5. m = h
    BY ONLY <1>11, <2>4
  <2> QED
    BY <2>3, <2>4, <2>5
<1>15. \E new : Heights(r, turned, new)
  <2>1. /\ ht[dyed.child[o][g]] = h /\ ht[dyed.child[o][upper]] = h
        /\ ht[dyed.child[Other(o)][upper]] = h
    <3>1. ht[t.child[o][g]] = h /\ ht[t.child[o][upper]] = h /\ ht[t.child[s][upper]] = h
      BY <1>13, <1>14, <1>o
    <3> QED
      BY <1>4, <1>o, <3>1
  <2>2. ht[g] = h + Black(dyed, upper)
    BY <1>10, <1>14
  <2>3. \A k \in sub[dyed.root], d \in Side :
          k # g /\ k # upper => ht[k] = ht[dyed.child[d][k]] + Black(dyed, k)
    <3> SUFFICES ASSUME NEW k \in sub[dyed.root], NEW d \in Side, k # g, k # upper
                 PROVE  ht[k] = ht[dyed.child[d][k]] + Black(dyed, k)
      BY ZenonT(60)
    <3>1. Black(dyed, k) = Black(t, k)
      BY <1>10
    <3>2. ht[k] = ht[t.child[d][k]] + Black(t, k)
      BY <1>4, <1>9
    <3> QED
      BY <1>4, <3>1, <3>2
  <2>4. g \in dyed.red /\ turned[r.root] = sub[dyed.root]
    BY <1>4, <1>6
  <2> QED
    <3>1. ht \in [Nodes -> Nat] /\ ht[Nil] = 0 /\ h \in Nat
      BY <1>9
    <3>2. SameHeights(dyed, sub, g, o, ht, h)
      BY ONLY <1>r, <1>u, <2>1, <2>2, <2>3, <2>4, <3>1 DEF SameHeights
    <3>3. HasHeights(r, turned)
      BY ONLY <1>r, <2>4, <3>2, RotateSameHeights
    <3> QED
      BY <3>3 DEF HasHeights
<1>16. lower \in turned[r.root] /\ lower \in r.red
  BY <1>1, <1>4, <1>6, <1>7
<1>17. r.root \notin r.red
  <2>1. CASE q = Nil
    <3>1. r.root = upper /\ r.red = (t.red \ {upper}) \cup {g}
      BY <1>4, <1>7, <2>1
    <3> QED
      BY <1>1, <3>1
  <2>2. CASE q # Nil
    <3>1. t.root # g
      <4>1. t.root # Nil => t.parent[t.root] = Nil
        BY <1>2 DEF SearchTree, Tied
      <4> QED
        BY <1>1, <1>2, <1>q, <2>2, <4>1
    <3> QED
      BY ONLY <1>1, <1>4, <1>7, <2>2, <3>1
  <2> QED
    BY <2>1, <2>2
<1>18. RedOnlyUnder(r, turned, lower)
  <2> SUFFICES ASSUME NEW k \in sub[t.root], k \in dyed.red, k # lower, r.parent[k] \in dyed.red
               PROVE  FALSE
    BY <1>6, <1>7 DEF RedOnlyUnder
  <2>0. k \in Key
    BY ONLY <1>2, TreeFacts
  <2>1. CASE k = g
    BY <1>1, <1>4, <1>7, <2>1
  <2>2. CASE k # g
    <3>1. k \in t.red /\ k # upper
      BY <1>1, <1>4, <2>2
    <3>2. t.parent[k] \notin t.red
      BY <3>1 DEF AlmostRedBlack, RedOnlyUnder
    <3>3. k # inner
      <4>0. SearchTree(t, sub) /\ upper \in Key /\ o \in Side
        BY <1>1, <1>2
      <4>a. t.child[o][upper] # Nil => t.parent[t.child[o][upper]] = upper
        BY ONLY <4>0, OnlyParent
      <4>1. k = inner => t.parent[k] = upper
        BY <1>2, <1>3, <2>0, <4>a
      <4> QED
        BY <1>1, <3>2, <4>1
    <3>4. r.parent[k] = t.parent[k]
      BY <1>7, <2>0, <2>2, <3>1, <3>3
    <3>5. t.parent[k] = g
      BY <1>4, <3>2, <3>4
    <3>6. k # t.root
      BY <1>1, <3>1
    <3>7. PICK d \in Side : t.child[d][g] = k
      <4>1. Tied(t, sub)
        BY <1>2 DEF SearchTree
      <4>2. \E d \in Side : t.child[d][t.parent[k]] = k
        BY ONLY <4>1, k \in sub[t.root], <3>6 DEF Tied
      <4> QED
        BY <3>5, <4>2
    <3>8. k = upper \/ k = y
      BY <1>o, <1>y, <3>7
    <3> QED
      BY ONLY <1>y, <3>1, <3>8
  <2> QED
    BY <2>1, <2>2
<1>19. AlmostRedBlack(r, turned, lower)
  BY <1>6, <1>15, <1>16, <1>17, <1>18 DEF AlmostRedBlack
<1> QED
  BY <1>6, <1>19

(* One turn of the loop keeps the tree red-black but for the node the loop *)
(* goes on with, and the same nodes in it.                                 *)
LEMMA FixTurnKeeps ==
  ASSUME NEW t, NEW sub, NEW n, AlmostRedBlack(t, sub, n), RedUnderRed(t, n),
         NEW r, r = FixTurn(t, n)
  PROVE  \E turned : AlmostRedBlack(r.tree, turned, r.node) /\ turned[r.tree.root] = sub[t.root]
<1>1. CASE Uncle(t, n) # Nil /\ Uncle(t, n) \in t.red
  <2>1. r = Recolour(t, n)
    BY <1>1 DEF FixTurn
  <2> QED
    BY <1>1, <2>1, RecolourKeeps
<1>2. CASE ~ (Uncle(t, n) # Nil /\ Uncle(t, n) \in t.red)
  <2>p. PICK p : p = t.parent[n]
    OBVIOUS
  <2>g. PICK g : g = t.parent[p]
    OBVIOUS
  <2>s. PICK s : s = SideOf(t, p, g)
    OBVIOUS
  <2>1. /\ n \in Key /\ n \in t.red /\ p \in t.red /\ p \in Key /\ s \in Side /\ t.child[s][g] = p /\ Nil \notin Key
        /\ t.child[s][p] = n \/ t.child[Other(s)][p] = n
        /\ Uncle(t, n) = t.child[Other(s)][g]
    BY SMTT(60), <2>p, <2>g, <2>s, Grandparent, KeyAssumption DEF AlmostRedBlack
  <2>2. t.child[Other(s)][g] \notin t.red
    <3>1. t.red \in SUBSET Key
      BY TreeFields DEF AlmostRedBlack, SearchTree
    <3> QED
      BY <1>2, <2>1, <3>1
  <2>3. r = Straighten(t, n)
    BY <1>2 DEF FixTurn
  <2>4. CASE t.child[Other(s)][p] = n
    <3>1. PICK t1 : t1 = Rotate(t, p, s)
      OBVIOUS
    <3>2. PICK dyed : dyed = Dyed(t1, n, g)
      OBVIOUS
    <3>3. r.tree = Rotate(dyed, g, Other(s)) /\ r.node = p
      <4>1. Straighten(t, n) = [tree |-> Rotate(dyed, g, Other(s)), node |-> p]
        BY <2>4, <2>p, <2>g, <2>s, <3>1, <3>2 DEF Straighten, Dyed
      <4> QED
        BY <2>3, <4>1
    <3>4. PICK sub1 :
            /\ AlmostRedBlack(t1, sub1, p) /\ sub1[t1.root] = sub[t.root]
            /\ t1.parent[p] = n /\ t1.parent[n] = g
            /\ t1.child[s][g] = n /\ t1.child[s][n] = p
            /\ t1.child[Other(s)][g] = t.child[Other(s)][g]
            /\ t1.red = t.red
      <4>1. AlmostRedBlack(t, sub, n) /\ RedUnderRed(t, n)
        OBVIOUS
      <4>2. InLine(t, sub, n, p, g, s, t1)
        BY ONLY <2>4, <2>p, <2>g, <2>s, <3>1, <4>1, InnerKeeps
      <4> QED
        BY <4>2 DEF InLine
    <3>5. RedUnderRed(t1, p)
      BY <2>1, <3>4 DEF RedUnderRed
    <3>6. PICK q : q = Rotate(dyed, g, Other(s))
      OBVIOUS
    <3>7. \E turned : AlmostRedBlack(q, turned, p) /\ turned[q.root] = sub1[t1.root]
      BY ONLY <2>1, <2>2, <3>2, <3>4, <3>5, <3>6, OuterKeeps
    <3> QED
      BY <3>3, <3>4, <3>6, <3>7
  <2>5. CASE t.child[Other(s)][p] # n
    <3>2. PICK dyed : dyed = Dyed(t, p, g)
      OBVIOUS
    <3>3. r.tree = Rotate(dyed, g, Other(s)) /\ r.node = n
      <4>1. Straighten(t, n) = [tree |-> Rotate(dyed, g, Other(s)), node |-> n]
        BY <2>5, <2>p, <2>g, <2>s, <3>2 DEF Straighten, Dyed
      <4> QED
        BY <2>3, <4>1
    <3>4. t.child[s][p] = n
      BY <2>1, <2>5
    <3>6. PICK q : q = Rotate(dyed, g, Other(s))
      OBVIOUS
    <3>7. \E turned : AlmostRedBlack(q, turned, n) /\ turned[q.root] = sub[t.root]
      <4>1. AlmostRedBlack(t, sub, n) /\ RedUnderRed(t, n)
        OBVIOUS
      <4>2. s \in Side /\ t.child[s][g] = p /\ t.child[s][p] = n
        BY <2>1, <3>4
      <4> QED
        BY ONLY SMTT(30), <2>p, <2>g, <2>2, <3>2, <3>6, <4>1, <4>2, OuterKeeps
    <3> QED
      BY <3>3, <3>6, <3>7
  <2> QED
    BY <2>4, <2>5
<1> QED
  BY <1>1, <1>2
(* The loop ends: what red node is left is the root or has a black parent, *)
(* and with the root black the tree is a red-black tree.                   *)
LEMMA BlackRootKeeps ==
  ASSUME NEW t, NEW sub, NEW n, AlmostRedBlack(t, sub, n), ~ RedUnderRed(t, n),
         NEW r, r = BlackRoot(t)
  PROVE  RedBlackTree(r, sub) /\ r.root = t.root
<1>1. /\ SearchTree(t, sub) /\ t \in Tree /\ Nil \notin Key
      /\ n \in sub[t.root] /\ sub[t.root] \in SUBSET Key /\ sub[Nil] = {}
  BY TreeFacts, KeyAssumption DEF AlmostRedBlack, SearchTree
<1>2. t.root \in Key /\ t.red \in SUBSET Key /\ t.parent[t.root] = Nil
  <2>1. t.root # Nil /\ t.root \in Nodes /\ t.red \in SUBSET Key
    BY <1>1, TreeFields
  <2> QED
    BY <1>1, <2>1 DEF Nodes, SearchTree, Tied
<1>3. /\ SearchTree(r, sub)
      /\ r.root = t.root /\ r.child = t.child /\ r.parent = t.parent /\ r.red = t.red \ {t.root}
  <2>1. t.red \ {t.root} \in SUBSET Key
    BY <1>2
  <2>2. r = [t EXCEPT !.red = t.red \ {t.root}]
    BY DEF BlackRoot
  <2> QED
    BY ONLY <1>1, <2>1, <2>2, SearchTreeRed
<1>4. RedOnlyUnder(r, sub, Nil)
  <2> SUFFICES ASSUME NEW k \in sub[t.root], k \in t.red, t.parent[k] \in t.red PROVE FALSE
    BY <1>3 DEF RedOnlyUnder
  <2>1. CASE k = n
    <3>1. t.parent[n] # Nil
      BY <1>1, <1>2, <2>1
    <3> QED
      BY <2>1, <3>1 DEF RedUnderRed
  <2>2. CASE k # n
    BY <2>2 DEF AlmostRedBlack, RedOnlyUnder
  <2> QED
    BY <2>1, <2>2
<1>5. PICK ht : Heights(t, sub, ht)
  BY DEF AlmostRedBlack
<1>6. /\ ht \in [Nodes -> Nat] /\ ht[Nil] = 0
      /\ \A k \in sub[t.root], d \in Side : ht[k] = ht[t.child[d][k]] + Black(t, k)
  BY <1>5 DEF Heights
<1>7. PICK more \in Nat : more = 1 - Black(t, t.root)
  BY DEF Black
<1>8. /\ Black(r, t.root) = Black(t, t.root) + more
      /\ \A k : k # t.root => Black(r, k) = Black(t, k)
      /\ \A k : Black(t, k) \in Nat
  <2>1. Black(r, t.root) = 1
    BY <1>3 DEF Black
  <2>2. Black(t, t.root) \in Nat /\ Black(t, t.root) + more = 1
    BY <1>7 DEF Black
  <2>3. \A k : k # t.root => Black(r, k) = Black(t, k)
    BY <1>3 DEF Black
  <2>4. \A k : Black(t, k) \in Nat
    BY DEF Black
  <2> QED
    BY <2>1, <2>2, <2>3, <2>4
<1>9. PICK new : new = [ht EXCEPT ![t.root] = ht[t.root] + more]
  OBVIOUS
<1>10. /\ new \in [Nodes -> Nat] /\ new[t.root] = ht[t.root] + more
       /\ \A k \in Nodes : k # t.root => new[k] = ht[k]
  BY <1>2, <1>6, <1>9 DEF Nodes
<1>11. ASSUME NEW k \in sub[t.root], NEW d \in Side PROVE new[k] = new[t.child[d][k]] + Black(r, k)
  <2>1. k \in Key /\ k \in Nodes /\ t.child[d][k] \in Nodes
    BY <1>1, TreeFields DEF Nodes
  <2>2. t.child[d][k] # t.root
    <3>1. t.child[d][k] # Nil => t.parent[t.child[d][k]] = k
      BY <1>1, <2>1, OnlyParent
    <3> QED
      BY <1>1, <1>2, <2>1, <3>1
  <2>3. new[t.child[d][k]] = ht[t.child[d][k]]
    BY <1>10, <2>1, <2>2
  <2>4. ht[k] = ht[t.child[d][k]] + Black(t, k) /\ ht[t.child[d][k]] \in Nat /\ ht[k] \in Nat
    BY <1>6, <2>1
  <2>5. CASE k = t.root
    <3>1. new[k] = ht[k] + more /\ Black(r, k) = Black(t, k) + more /\ Black(t, k) \in Nat
      BY <1>8, <1>10, <2>5
    <3> QED
      BY <2>3, <2>4, <3>1
  <2>6. CASE k # t.root
    BY <1>8, <1>10, <2>1, <2>3, <2>4, <2>6
  <2> QED
    BY <2>5, <2>6
<1>12. Heights(r, sub, new)
  <2>1. new[Nil] = 0
    BY <1>1, <1>2, <1>6, <1>10 DEF Nodes
  <2> QED
    BY <1>3, <1>10, <1>11, <2>1 DEF Heights
<1>13. r.root \notin r.red
  BY <1>3
<1> QED
  BY <1>3, <1>4, <1>12, <1>13 DEF RedBlackTree

-----------------------------------------------------------------------------
(* rb_link_node and the empty tree *)

LEMMA EmptyTreeRedBlack ==
  \E sub : RedBlackTree(EmptyTree, sub) /\ sub[EmptyTree.root] = {}
<1>1. PICK sub : sub = [k \in Nodes |-> IF k = Nil THEN {} ELSE {k}]
  OBVIOUS
<1>2. /\ EmptyTree \in Tree /\ EmptyTree.root = Nil /\ EmptyTree.red = {}
      /\ \A s \in Side, k \in Key : EmptyTree.child[s][k] = Nil
      /\ \A k \in Key : EmptyTree.parent[k] = Nil
  BY DEF EmptyTree, Tree
<1>3. sub \in [Nodes -> SUBSET Key] /\ sub[Nil] = {} /\ \A k \in Key : sub[k] = {k}
  BY <1>1, KeyAssumption DEF Nodes
<1>4. IsBelow(EmptyTree, sub)
  BY <1>2, <1>3, Sides DEF IsBelow
<1>5. Sorted(EmptyTree, sub)
  BY <1>2, <1>3 DEF Sorted
<1>6. Tied(EmptyTree, sub)
  BY <1>2, <1>3, FS_EmptySet DEF Tied
<1>7. Heights(EmptyTree, sub, [k \in Nodes |-> 0])
  BY <1>2, <1>3 DEF Heights, Nodes
<1> QED
  BY <1>2, <1>3, <1>4, <1>5, <1>6, <1>7 DEF RedBlackTree, SearchTree, RedOnlyUnder

LEMMA LinkFields ==
  ASSUME NEW t \in Tree, NEW n \in Key, NEW p \in Nodes, NEW s \in Side, p # n,
         NEW r, r = Link(t, n, p, s)
  PROVE  /\ r \in Tree /\ r.red = t.red \cup {n}
         /\ r.root = IF p = Nil THEN n ELSE t.root
         /\ \A d \in Side, j \in Key :
              r.child[d][j] = IF j = n THEN Nil
                              ELSE IF p # Nil /\ d = s /\ j = p THEN n ELSE t.child[d][j]
         /\ \A j \in Key : r.parent[j] = IF j = n THEN p ELSE t.parent[j]
<1>1. PICK bare : bare = [t EXCEPT !.child["left"][n] = Nil, !.child["right"][n] = Nil,
                                   !.parent[n] = p, !.red = t.red \cup {n}]
  OBVIOUS
<1>2. r = IF p = Nil THEN [bare EXCEPT !.root = n] ELSE [bare EXCEPT !.child[s][p] = n]
  BY <1>1 DEF Link
<1>3. /\ bare \in Tree /\ bare.red = t.red \cup {n} /\ bare.root = t.root
      /\ \A d \in Side, j \in Key : bare.child[d][j] = IF j = n THEN Nil ELSE t.child[d][j]
      /\ \A j \in Key : bare.parent[j] = IF j = n THEN p ELSE t.parent[j]
  <2>1. "left" \in Side /\ "right" \in Side
    BY DEF Side
  <2>2. bare.red = t.red \cup {n} /\ bare.root = t.root /\ bare.parent = [t.parent EXCEPT ![n] = p]
        /\ bare.child = [t.child EXCEPT !["left"][n] = Nil, !["right"][n] = Nil]
    BY <1>1 DEF Tree
  <2>3. bare = [root |-> bare.root, child |-> bare.child, parent |-> bare.parent, red |-> bare.red]
    BY <1>1 DEF Tree
  <2>4. \A d \in Side, j \in Key : bare.child[d][j] = IF j = n THEN Nil ELSE t.child[d][j]
    BY <2>1, <2>2, Sides DEF Tree
  <2>5. bare.child \in [Side -> [Key -> Nodes]] /\ bare.parent \in [Key -> Nodes]
    BY <2>1, <2>2 DEF Tree, Nodes
  <2>6. \A j \in Key : bare.parent[j] = IF j = n THEN p ELSE t.parent[j]
    BY <2>2 DEF Tree
  <2>7. bare.root \in Nodes /\ bare.red \in SUBSET Key
    BY <2>2, TreeFields
  <2>8. bare \in Tree
    BY <2>3, <2>5, <2>7 DEF Tree, Nodes
  <2> QED
    BY <2>2, <2>4, <2>6, <2>8
<1>4. n \in Nodes
  BY DEF Nodes
<1>5. CASE p = Nil
  <2>1. r = [bare EXCEPT !.root = n]
    BY <1>2, <1>5
  <2>2. r \in Tree /\ r.root = n /\ r.child = bare.child /\ r.parent = bare.parent /\ r.red = bare.red
    BY <1>3, <1>4, <2>1, SetRootFields
  <2> QED
    BY <1>3, <1>5, <2>2
<1>6. CASE p # Nil
  <2>0. p \in Key
    BY <1>6 DEF Nodes
  <2>1. r = [bare EXCEPT !.child[s][p] = n]
    BY <1>2, <1>6
  <2>2. /\ r \in Tree /\ r.root = bare.root /\ r.parent = bare.parent /\ r.red = bare.red
        /\ \A d \in Side, j \in Key :
             r.child[d][j] = IF d = s /\ j = p THEN n ELSE bare.child[d][j]
    BY <1>3, <1>4, <2>0, <2>1, SetChildFields
  <2> QED
    BY <1>3, <1>6, <2>2
<1> QED
  BY <1>5, <1>6
(* k belongs on side s of up, where there is no node yet; up is Nil in an  *)
(* empty tree.                                                             *)
RoomFor(t, sub, k, up, s) ==
  /\ k \in Key /\ k \notin sub[t.root] /\ up \in Nodes /\ s \in Side
  /\ up = Nil => t.root = Nil
  /\ up # Nil => up \in sub[t.root] /\ t.child[s][up] = Nil /\ OnSide(s, k, up)
  /\ \A a \in sub[t.root], d \in Side : up \in sub[t.child[d][a]] => OnSide(d, k, a)

(* The new leaf joins the subtrees of all nodes above it. *)
LEMMA LinkTree ==
  ASSUME NEW t, NEW sub, SearchTree(t, sub), NEW k, NEW up, NEW s, RoomFor(t, sub, k, up, s),
         NEW r, r = Link(t, k, up, s)
  PROVE  \E grown : SearchTree(r, grown) /\ grown[r.root] = sub[t.root] \cup {k}
<1> DEFINE S == sub[t.root]
<1>1. PICK grown : grown = [a \in Nodes |-> IF up \in sub[a] THEN sub[a] \cup {k} ELSE sub[a]]
  OBVIOUS
<1>2. /\ t \in Tree /\ IsBelow(t, sub) /\ Sorted(t, sub) /\ Tied(t, sub) /\ Nil \notin Key
      /\ k \in Key /\ k \notin S /\ up \in Nodes /\ s \in Side
  BY KeyAssumption DEF SearchTree, RoomFor
<1>3. /\ S \in SUBSET Key
      /\ \A a \in Nodes : sub[a] \in SUBSET Key
      /\ sub[Nil] = {}
      /\ \A a \in Key : a \in sub[a]
      /\ \A a \in Key, d \in Side : sub[t.child[d][a]] \subseteq sub[a] /\ a \notin sub[t.child[d][a]]
      /\ \A a \in S, d \in Side : t.child[d][a] \in S \cup {Nil}
  BY TreeFacts
<1>4. up # k /\ (up # Nil => up \in S /\ up \in Key /\ t.child[s][up] = Nil /\ OnSide(s, k, up))
  BY <1>2, <1>3 DEF RoomFor
<1>5. /\ r \in Tree
      /\ r.root = IF up = Nil THEN k ELSE t.root
      /\ \A d \in Side, j \in Key :
           r.child[d][j] = IF j = k THEN Nil
                           ELSE IF up # Nil /\ d = s /\ j = up THEN k ELSE t.child[d][j]
      /\ \A j \in Key : r.parent[j] = IF j = k THEN up ELSE t.parent[j]
  BY <1>2, <1>4, LinkFields
<1>6. \A d \in Side : t.child[d][k] = Nil
  BY <1>2 DEF Tied
<1>7. sub[k] = {k}
  <2>1. sub[k] = {k} \cup sub[t.child["left"][k]] \cup sub[t.child["right"][k]]
    BY <1>2 DEF IsBelow
  <2>2. t.child["left"][k] = Nil /\ t.child["right"][k] = Nil
    BY <1>6, Sides
  <2> QED
    BY <1>3, <2>1, <2>2
<1>8. /\ grown \in [Nodes -> SUBSET Key] /\ grown[Nil] = {} /\ grown[k] = {k}
      /\ \A a \in Nodes : up \in sub[a] => grown[a] = sub[a] \cup {k}
      /\ \A a \in Nodes : up \notin sub[a] => grown[a] = sub[a]
  <2>1. Nil \in Nodes /\ k \in Nodes
    BY <1>2 DEF Nodes
  <2>2. up \notin sub[k] /\ up \notin sub[Nil]
    BY <1>3, <1>4, <1>7
  <2>3. \A a \in Nodes : grown[a] = IF up \in sub[a] THEN sub[a] \cup {k} ELSE sub[a]
    BY <1>1
  <2>4. \A a \in Nodes : grown[a] \in SUBSET Key
    <3> TAKE a \in Nodes
    <3>1. sub[a] \in SUBSET Key /\ k \in Key
      BY <1>2, <1>3
    <3>2. grown[a] = sub[a] \/ grown[a] = sub[a] \cup {k}
      BY <2>3
    <3> QED
      BY ONLY <3>1, <3>2
  <2>5. grown = [a \in Nodes |-> grown[a]]
    BY <1>1
  <2>6. grown \in [Nodes -> SUBSET Key]
    BY <2>4, <2>5
  <2> QED
    BY <1>3, <1>7, <2>1, <2>2, <2>3, <2>6
<1>9. \A a \in Key, d \in Side : t.child[d][a] \in Nodes
  BY <1>2, TreeFields
(* what hangs on side d of a *)
<1>10. ASSUME NEW a \in Key, NEW d \in Side
       PROVE  grown[r.child[d][a]] = IF a = up /\ d = s THEN {k}
                                     ELSE IF up \in sub[t.child[d][a]]
                                     THEN sub[t.child[d][a]] \cup {k} ELSE sub[t.child[d][a]]
  <2>1. CASE a = k
    <3>1. r.child[d][a] = Nil /\ t.child[d][a] = Nil /\ a # up
      BY <1>4, <1>5, <1>6, <2>1
    <3> QED
      BY <1>3, <1>8, <3>1
  <2>2. CASE a = up /\ d = s
    <3>1. r.child[d][a] = k
      BY <1>2, <1>4, <1>5, <2>2
    <3> QED
      BY <1>8, <2>2, <3>1
  <2>3. CASE a # k /\ ~ (a = up /\ d = s)
    <3>1. r.child[d][a] = t.child[d][a]
      BY <1>5, <2>3
    <3> QED
      BY <1>8, <1>9, <2>3, <3>1
  <2> QED
    BY <2>1, <2>2, <2>3
<1>11. IsBelow(r, grown)
  <2>1. ASSUME NEW a \in Key
        PROVE  grown[a] = {a} \cup grown[r.child["left"][a]] \cup grown[r.child["right"][a]]
    <3> DEFINE l == t.child["left"][a]
               rt == t.child["right"][a]
    <3>1. sub[a] = {a} \cup sub[l] \cup sub[rt] /\ a \in Nodes /\ "left" \in Side /\ "right" \in Side
      BY <1>2, Sides DEF IsBelow, Nodes
    <3>2. a \notin sub[l] /\ a \notin sub[rt]
      BY <1>3, <3>1
    <3>3. /\ grown[r.child["left"][a]] = IF a = up /\ "left" = s THEN {k}
                                         ELSE IF up \in sub[l] THEN sub[l] \cup {k} ELSE sub[l]
          /\ grown[r.child["right"][a]] = IF a = up /\ "right" = s THEN {k}
                                          ELSE IF up \in sub[rt] THEN sub[rt] \cup {k} ELSE sub[rt]
      BY <1>10, <3>1
    <3>4. grown[a] = IF up \in sub[a] THEN sub[a] \cup {k} ELSE sub[a]
      BY <1>8, <3>1
    <3> HIDE DEF l, rt
    <3>5. CASE a # up
      BY <3>1, <3>3, <3>4, <3>5
    <3>6. CASE a = up
      <4>1. grown[a] = sub[a] \cup {k}
        BY <3>1, <3>4, <3>6
      <4>2. CASE s = "left"
        <5>1. sub[l] = {}
          BY <1>2, <1>3, <1>4, <3>6, <4>2 DEF l
        <5>2. grown[r.child["left"][a]] = {k} /\ grown[r.child["right"][a]] = sub[rt]
          BY <3>2, <3>3, <3>6, <4>2
        <5> QED
          BY <3>1, <4>1, <5>1, <5>2
      <4>3. CASE s = "right"
        <5>1. sub[rt] = {}
          BY <1>2, <1>3, <1>4, <3>6, <4>3 DEF rt
        <5>2. grown[r.child["right"][a]] = {k} /\ grown[r.child["left"][a]] = sub[l]
          BY <3>2, <3>3, <3>6, <4>3
        <5> QED
          BY <3>1, <4>1, <5>1, <5>2
      <4> QED
        BY <1>2, <4>2, <4>3, Sides
    <3> QED
      BY <3>5, <3>6
  <2> QED
    BY <1>8, <2>1 DEF IsBelow
<1>12. Sorted(r, grown)
  <2> SUFFICES ASSUME NEW a \in Key, NEW d \in Side, NEW m \in grown[r.child[d][a]]
               PROVE  OnSide(d, m, a)
    BY DEF Sorted
  <2>1. CASE a = up /\ d = s
    <3>1. grown[r.child[d][a]] = {k} /\ up # Nil
      <4>1. grown[r.child[d][a]] = {k}
        BY <1>10, <2>1
      <4> QED
        BY <1>2, <2>1, <4>1
    <3> QED
      BY <1>4, <2>1, <3>1
  <2>2. CASE ~ (a = up /\ d = s)
    <3>1. m \in sub[t.child[d][a]] \/ (m = k /\ up \in sub[t.child[d][a]])
      <4>1. grown[r.child[d][a]] = IF up \in sub[t.child[d][a]]
                                   THEN sub[t.child[d][a]] \cup {k} ELSE sub[t.child[d][a]]
        BY <1>10, <2>2
      <4> QED
        BY ONLY <4>1, m \in grown[r.child[d][a]]
    <3>2. CASE m \in sub[t.child[d][a]]
      BY <1>2, <3>2 DEF Sorted
    <3>3. CASE m = k /\ up \in sub[t.child[d][a]]
      <4>1. a \in S
        <5>1. a \notin S => t.child[d][a] = Nil
          BY <1>2 DEF Tied
        <5> QED
          BY <1>3, <3>3, <5>1
      <4> QED
        BY <3>3, <4>1 DEF RoomFor
    <3> QED
      BY <3>1, <3>2, <3>3
  <2> QED
    BY <2>1, <2>2
<1>13. grown[r.root] = S \cup {k}
  <2>1. CASE up = Nil
    BY <1>3, <1>5, <1>8, <2>1 DEF RoomFor
  <2>2. CASE up # Nil
    BY <1>2, <1>4, <1>5, <1>8, <2>2, TreeFields
  <2> QED
    BY <2>1, <2>2
<1>14. Tied(r, grown)
  <2>1. IsFiniteSet(S \cup {k})
    BY <1>2, FS_AddElement DEF Tied
  <2>2. ASSUME NEW a \in S \cup {k} PROVE grown[a] \subseteq S \cup {k}
    <3>1. CASE a = k
      BY <1>8, <3>1
    <3>2. CASE a \in S
      <4>1. sub[a] \subseteq S
        BY <1>2, <3>2 DEF Tied
      <4> QED
        BY <1>3, <1>8, <3>2, <4>1 DEF Nodes
    <3> QED
      BY <3>1, <3>2
  <2>3. ASSUME NEW a \in Key, a \notin S \cup {k}
        PROVE  r.parent[a] = Nil /\ \A d \in Side : r.child[d][a] = Nil
    <3>1. t.parent[a] = Nil /\ \A d \in Side : t.child[d][a] = Nil
      BY <1>2, <2>3 DEF Tied
    <3> QED
      BY <1>4, <1>5, <2>3, <3>1
  <2>4. ASSUME NEW a \in S \cup {k}, NEW d \in Side, r.child[d][a] # Nil
        PROVE  r.parent[r.child[d][a]] = a
    <3>1. a \in Key /\ a # k /\ a \in S
      BY <1>2, <1>3, <1>5, <2>4
    <3>2. CASE a = up /\ d = s
      <4>1. r.child[d][a] = k
        BY <1>2, <1>5, <3>1, <3>2
      <4> QED
        BY <1>2, <1>5, <3>2, <4>1
    <3>3. CASE ~ (a = up /\ d = s)
      <4>1. r.child[d][a] = t.child[d][a]
        BY <1>5, <3>1, <3>3
      <4>2. t.parent[t.child[d][a]] = a /\ t.child[d][a] \in S
        BY <1>2, <1>3, <2>4, <3>1, <4>1 DEF Tied
      <4> QED
        BY <1>2, <1>3, <1>5, <4>1, <4>2
    <3> QED
      BY <3>2, <3>3
  <2>5. r.root # Nil => r.parent[r.root] = Nil
    <3>1. CASE up = Nil
      BY <1>2, <1>5, <3>1
    <3>2. CASE up # Nil
      <4>1. t.root # Nil
        BY <1>3, <1>4, <3>2
      <4>2. t.root \in Key /\ t.root \in S
        BY <1>2, <1>3, <4>1, TreeFields DEF Nodes
      <4>3. t.parent[t.root] = Nil
        BY <1>2, <4>1 DEF Tied
      <4> QED
        BY <1>2, <1>5, <3>2, <4>2, <4>3
    <3> QED
      BY <3>1, <3>2
  <2>6. ASSUME NEW a \in S \cup {k}, a # r.root
        PROVE  r.parent[a] \in S \cup {k} /\ \E d \in Side : r.child[d][r.parent[a]] = a
    <3>1. CASE a = k
      <4>1. up # Nil
        BY <1>5, <2>6, <3>1
      <4>2. r.parent[a] = up
        BY <1>2, <1>5, <3>1
      <4>3. r.child[s][up] = k
        BY <1>2, <1>4, <1>5, <4>1
      <4> QED
        BY <1>2, <1>4, <3>1, <4>1, <4>2, <4>3
    <3>2. CASE a \in S
      <4>0. a # k /\ a \in Key
        BY <1>2, <1>3, <3>2
      <4>1. up # Nil
        BY <1>3, <3>2 DEF RoomFor
      <4>2. a # t.root
        BY <1>5, <2>6, <4>1
      <4>3. t.parent[a] \in S /\ \E d \in Side : t.child[d][t.parent[a]] = a
        BY <1>2, <3>2, <4>2 DEF Tied
      <4>4. r.parent[a] = t.parent[a] /\ t.parent[a] # k /\ t.parent[a] \in Key
        BY <1>2, <1>3, <1>5, <4>0, <4>3
      <4>5. PICK d \in Side : t.child[d][t.parent[a]] = a
        BY <4>3
      <4>6. ~ (t.parent[a] = up /\ d = s)
        BY <1>2, <1>4, <4>0, <4>1, <4>5
      <4>7. r.child[d][t.parent[a]] = a
        BY <1>5, <4>4, <4>5, <4>6
      <4> QED
        BY <4>3, <4>4, <4>7
    <3> QED
      BY <3>1, <3>2
  <2> QED
    BY <1>13, <2>1, <2>2, <2>3, <2>4, <2>5, <2>6 DEF Tied
<1> QED
  BY <1>5, <1>11, <1>12, <1>13, <1>14 DEF SearchTree

(* The new red leaf leaves the black heights as they are. *)
LEMMA LinkKeeps ==
  ASSUME NEW t, NEW sub, RedBlackTree(t, sub), NEW k, NEW up, NEW s, RoomFor(t, sub, k, up, s),
         NEW r, r = Link(t, k, up, s)
  PROVE  \E grown : AlmostRedBlack(r, grown, k) /\ grown[r.root] = sub[t.root] \cup {k}
<1>1. /\ SearchTree(t, sub) /\ t \in Tree /\ Nil \notin Key
      /\ k \in Key /\ k \notin sub[t.root] /\ up \in Nodes /\ s \in Side
  BY KeyAssumption DEF RedBlackTree, SearchTree, RoomFor
<1>2. PICK grown : SearchTree(r, grown) /\ grown[r.root] = sub[t.root] \cup {k}
  BY <1>1, LinkTree
<1>3. /\ sub[t.root] \in SUBSET Key
      /\ \A a \in sub[t.root], d \in Side : t.child[d][a] \in sub[t.root] \cup {Nil}
  BY <1>1, TreeFacts
<1>4. up # k /\ (up # Nil => up \in sub[t.root] /\ t.child[s][up] = Nil)
  BY <1>1 DEF RoomFor
<1>5. /\ r \in Tree /\ r.red = t.red \cup {k}
      /\ r.root = IF up = Nil THEN k ELSE t.root
      /\ \A d \in Side, j \in Key :
           r.child[d][j] = IF j = k THEN Nil
                           ELSE IF up # Nil /\ d = s /\ j = up THEN k ELSE t.child[d][j]
      /\ \A j \in Key : r.parent[j] = IF j = k THEN up ELSE t.parent[j]
  BY <1>1, <1>4, LinkFields
<1>6. PICK ht : Heights(t, sub, ht)
  BY DEF RedBlackTree
<1>7. /\ ht \in [Nodes -> Nat] /\ ht[Nil] = 0
      /\ \A a \in sub[t.root], d \in Side : ht[a] = ht[t.child[d][a]] + Black(t, a)
  BY <1>6 DEF Heights
<1>8. PICK new : new = [ht EXCEPT ![k] = 0]
  OBVIOUS
<1>9. /\ new \in [Nodes -> Nat] /\ new[k] = 0 /\ new[Nil] = 0
      /\ \A a \in Nodes : a # k => new[a] = ht[a]
  BY <1>1, <1>7, <1>8 DEF Nodes
<1>10. ASSUME NEW a \in sub[t.root] \cup {k}, NEW d \in Side
       PROVE  new[a] = new[r.child[d][a]] + Black(r, a)
  <2>1. CASE a = k
    <3>1. r.child[d][a] = Nil /\ Black(r, a) = 0
      BY <1>1, <1>5, <2>1 DEF Black
    <3> QED
      BY <1>9, <2>1, <3>1
  <2>2. CASE a \in sub[t.root]
    <3>1. a # k /\ a \in Key /\ a \in Nodes
      BY <1>1, <1>3, <2>2 DEF Nodes
    <3>2. Black(r, a) = Black(t, a)
      BY <1>5, <3>1 DEF Black
    <3>3. new[a] = ht[t.child[d][a]] + Black(t, a)
      BY <1>7, <1>9, <2>2, <3>1
    <3>4. new[r.child[d][a]] = ht[t.child[d][a]]
      <4>1. CASE a = up /\ d = s
        <5>1. up # Nil
          BY <1>1, <3>1, <4>1
        <5>2. r.child[d][a] = k /\ t.child[d][a] = Nil
          BY <1>4, <1>5, <3>1, <4>1, <5>1
        <5> QED
          BY <1>7, <1>9, <5>2
      <4>2. CASE ~ (a = up /\ d = s)
        <5>1. r.child[d][a] = t.child[d][a]
          BY <1>5, <3>1, <4>2
        <5>2. t.child[d][a] \in Nodes /\ t.child[d][a] # k
          BY <1>1, <1>3, <2>2 DEF Nodes
        <5> QED
          BY <1>9, <5>1, <5>2
      <4> QED
        BY <4>1, <4>2
    <3> QED
      BY <3>2, <3>3, <3>4
  <2> QED
    BY <2>1, <2>2
<1>11. Heights(r, grown, new)
  BY <1>2, <1>9, <1>10 DEF Heights
<1>12. r.root \in r.red => r.root = k
  BY <1>5 DEF RedBlackTree
<1>13. RedOnlyUnder(r, grown, k)
  <2> SUFFICES ASSUME NEW a \in sub[t.root], a # k, a \in t.red, r.parent[a] \in r.red PROVE FALSE
    BY <1>2, <1>5 DEF RedOnlyUnder
  <2>1. a \in Key /\ a # Nil
    BY <1>1, <1>3
  <2>2. r.parent[a] = t.parent[a]
    BY <1>5, <2>1
  <2>3. t.parent[a] \notin t.red
    BY <2>1 DEF RedBlackTree, RedOnlyUnder
  <2>4. t.parent[a] # k
    <3>1. CASE a = t.root
      BY <1>1, <2>1, <3>1 DEF SearchTree, Tied
    <3>2. CASE a # t.root
      <4>1. t.parent[a] \in sub[t.root]
        BY <1>1, <3>2 DEF SearchTree, Tied
      <4> QED
        BY <1>1, <4>1
    <3> QED
      BY <3>1, <3>2
  <2> QED
    BY <1>5, <2>2, <2>3, <2>4
<1>14. k \in grown[r.root] /\ k \in r.red
  BY <1>2, <1>5
<1> QED
  BY <1>2, <1>11, <1>12, <1>13, <1>14 DEF AlmostRedBlack
-----------------------------------------------------------------------------
(* The tree is red-black in the sense of RbTree, too: its subtrees are the *)
(* values of Below, and the black nodes above a node are those of the root *)
(* less those of the node.                                                 *)

(* A property of the nodes that each hands to its parent, and that the root*)
(* has not, is one of no node.                                             *)
LEMMA NoneUpward ==
  ASSUME NEW t, NEW sub, SearchTree(t, sub), NEW Bad, Bad \subseteq sub[t.root],
         t.root \notin Bad, \A k \in Bad : t.parent[k] \in Bad
  PROVE  Bad = {}
<1>1. SUFFICES ASSUME Bad # {} PROVE FALSE
  OBVIOUS
<1>2. t \in Tree /\ Tied(t, sub) /\ Nil \notin Key
  BY KeyAssumption DEF SearchTree
<1>3. PICK S : S = sub[t.root]
  OBVIOUS
<1>4. S \in SUBSET Key /\ IsFiniteSet(S)
  BY <1>2, <1>3, TreeFacts DEF Tied
<1> DEFINE Family == {S \ sub[k] : k \in Bad}
<1>5. Family # {} /\ Family \subseteq FiniteSubsetsOf(S)
  <2>1. ASSUME NEW k \in Bad PROVE S \ sub[k] \in FiniteSubsetsOf(S)
    BY <1>4, FS_Subset DEF FiniteSubsetsOf
  <2> QED
    BY <1>1, <2>1
<1>6. PICK b \in Family : \A c \in Family : ~ (<<c, b>> \in StrictSubsetOrdering(S))
  <2> HIDE DEF Family
  <2> QED
    BY <1>5, FS_StrictSubsetOrderingWellFounded, WFMin
<1>7. PICK k \in Bad : b = S \ sub[k]
  OBVIOUS
<1>8. PICK p : p = t.parent[k]
  OBVIOUS
<1>9. p \in Bad /\ k \in S /\ p \in S /\ k # t.root
  BY <1>3, <1>7, <1>8
<1>10. PICK d \in Side : t.child[d][p] = k
  BY <1>2, <1>3, <1>8, <1>9 DEF Tied
<1>11. sub[k] \subseteq sub[p] /\ p \notin sub[k] /\ p \in sub[p]
  BY <1>4, <1>9, <1>10, TreeFacts
<1>12. <<S \ sub[p], b>> \in StrictSubsetOrdering(S)
  <2>1. S \ sub[p] \subseteq b /\ S \ sub[p] # b /\ b \subseteq S
    BY <1>7, <1>9, <1>11
  <2> QED
    BY <2>1 DEF StrictSubsetOrdering
<1>13. S \ sub[p] \in Family
  BY <1>9
<1> QED
  BY <1>6, <1>12, <1>13

LEMMA BlackDepthIs ==
  ASSUME NEW t, NEW sub, SearchTree(t, sub), NEW ht, Heights(t, sub, ht), NEW n \in sub[t.root]
  PROVE  BlackDepth(t, n) = ht[t.root] - ht[n] + Black(t, n)
<1> DEFINE S == sub[t.root]
    Counts(up) == up = [k \in Key \cup {Nil} |->
                          IF k = Nil THEN 0 ELSE up[t.parent[k]] + (IF k \in t.red THEN 0 ELSE 1)]
    G == CHOOSE up : Counts(up)
<1>1. BlackDepth(t, n) = G[n]
  BY DEF BlackDepth
<1>2. t \in Tree /\ Tied(t, sub) /\ Nil \notin Key /\ S \in SUBSET Key
  BY TreeFacts, KeyAssumption DEF SearchTree
<1>3. /\ ht \in [Nodes -> Nat]
      /\ \A k \in S, d \in Side : ht[k] = ht[t.child[d][k]] + Black(t, k)
  BY DEF Heights
<1>4. \A k : Black(t, k) \in Nat /\ Black(t, k) = IF k \in t.red THEN 0 ELSE 1
  BY DEF Black
<1>5. PICK U : U = [k \in Nodes |-> IF k = Nil THEN 0
                                    ELSE IF k \in S THEN ht[t.root] - ht[k] + Black(t, k)
                                    ELSE Black(t, k)]
  OBVIOUS
<1>6. /\ U[Nil] = 0
      /\ \A k \in S : U[k] = ht[t.root] - ht[k] + Black(t, k)
      /\ \A k \in Key \ S : U[k] = Black(t, k)
  BY <1>2, <1>5 DEF Nodes
<1>7. t.root \in S /\ t.root # Nil /\ t.root \in Key /\ t.parent[t.root] = Nil
  <2>1. t.root # Nil
    BY <1>2, TreeFacts
  <2>2. t.root \in Key
    BY <1>2, <2>1, TreeFields DEF Nodes
  <2> QED
    BY <1>2, <2>1, <2>2, TreeFacts DEF Tied
<1>8. ASSUME NEW k \in S, k # t.root
      PROVE  t.parent[k] \in S /\ U[k] = U[t.parent[k]] + Black(t, k)
  <2>1. PICK p : p = t.parent[k]
    OBVIOUS
  <2>2. p \in S /\ \E d \in Side : t.child[d][p] = k
    BY <1>2, <1>8, <2>1 DEF Tied
  <2>3. ht[p] = ht[k] + Black(t, p)
    BY <1>3, <2>2
  <2>4. ht[t.root] \in Nat /\ ht[k] \in Nat /\ ht[p] \in Nat /\ Black(t, k) \in Nat /\ Black(t, p) \in Nat
    BY <1>2, <1>3, <1>4, <1>7, <2>2 DEF Nodes
  <2>5. U[k] = ht[t.root] - ht[k] + Black(t, k) /\ U[p] = ht[t.root] - ht[p] + Black(t, p)
    BY <1>6, <2>2
  <2>6. U[k] = U[p] + Black(t, k)
    BY ONLY <2>3, <2>4, <2>5
  <2> QED
    BY <2>1, <2>2, <2>6
<1>9. \A k \in Key : U[k] = U[t.parent[k]] + (IF k \in t.red THEN 0 ELSE 1)
  <2> TAKE k \in Key
  <2>0. Black(t, k) \in Nat /\ Black(t, k) = IF k \in t.red THEN 0 ELSE 1
    BY <1>4
  <2>1. CASE k \in S /\ k # t.root
    BY <1>8, <2>0, <2>1
  <2>2. CASE k = t.root
    <3>1. ht[t.root] \in Nat
      BY <1>3, <1>7 DEF Nodes
    <3>2. U[k] = ht[t.root] - ht[t.root] + Black(t, k) /\ U[t.parent[k]] = 0
      BY <1>6, <1>7, <2>2
    <3> QED
      BY <2>0, <3>1, <3>2
  <2>3. CASE k \notin S
    <3>1. t.parent[k] = Nil
      BY <1>2, <2>3 DEF Tied
    <3>2. U[k] = Black(t, k) /\ U[t.parent[k]] = 0
      BY <1>6, <2>3, <3>1
    <3> QED
      BY <2>0, <3>2
  <2> QED
    BY <2>1, <2>2, <2>3
<1>10. Counts(U)
  <2>1. U = [k \in Key \cup {Nil} |-> U[k]]
    BY <1>5 DEF Nodes
  <2>2. \A k \in Key \cup {Nil} :
          U[k] = IF k = Nil THEN 0 ELSE U[t.parent[k]] + (IF k \in t.red THEN 0 ELSE 1)
    BY <1>2, <1>6, <1>9
  <2> QED
    BY <2>1, <2>2
<1>11. Counts(G)
  <2> HIDE DEF Counts
  <2> QED
    BY <1>10
<1> HIDE DEF G
<1>12. G[Nil] = 0 /\ \A k \in Key : G[k] = G[t.parent[k]] + (IF k \in t.red THEN 0 ELSE 1)
  BY <1>2, <1>11
<1> DEFINE Bad == {k \in S : G[k] # U[k]}
<1>13. t.root \notin Bad
  BY <1>2, <1>6, <1>7, <1>9, <1>12
<1>14. ASSUME NEW k \in Bad PROVE t.parent[k] \in Bad
  <2>1. k \in S /\ k \in Key /\ k # t.root /\ G[k] # U[k]
    BY <1>2, <1>13
  <2>2. t.parent[k] \in S
    BY <1>8, <2>1
  <2>3. G[k] = G[t.parent[k]] + (IF k \in t.red THEN 0 ELSE 1)
    BY <1>12, <2>1
  <2>4. U[k] = U[t.parent[k]] + (IF k \in t.red THEN 0 ELSE 1)
    BY <1>9, <2>1
  <2>5. G[t.parent[k]] # U[t.parent[k]]
    BY ONLY <2>1, <2>3, <2>4
  <2> QED
    BY <2>2, <2>5
<1>15. Bad = {}
  <2>1. Bad \subseteq sub[t.root]
    OBVIOUS
  <2> HIDE DEF Bad
  <2> QED
    BY <1>13, <1>14, <2>1, NoneUpward
<1> QED
  BY <1>1, <1>6, <1>15

(* What the invariants of the proofs say is what a red-black tree is.      *)
LEMMA RedBlackTreeSound ==
  ASSUME NEW t, NEW sub, RedBlackTree(t, sub)
  PROVE  RedBlack(t) /\ Stored(t) = sub[t.root]
<1>1. SearchTree(t, sub) /\ t \in Tree /\ Sorted(t, sub) /\ Tied(t, sub) /\ Nil \notin Key
  BY KeyAssumption DEF RedBlackTree, SearchTree
<1>2. PICK S : S = sub[t.root]
  OBVIOUS
<1>3. /\ t.root \in Nodes /\ t.red \in SUBSET Key /\ S \in SUBSET Key
      /\ \A d \in Side, k \in Key : t.child[d][k] \in Nodes
  BY <1>1, <1>2, TreeFields, TreeFacts
<1>4. Stored(t) = S
  BY <1>1, <1>2, <1>3, BelowUnique DEF Stored
<1>5. ASSUME NEW k \in Key, NEW d \in Side PROVE Below(t, t.child[d][k]) = sub[t.child[d][k]]
  BY <1>1, <1>3, BelowUnique
<1>6. Ordered(t)
  <2> SUFFICES ASSUME NEW n \in S
               PROVE  /\ \A k \in Below(t, t.child["left"][n]) : k > n
                      /\ \A k \in Below(t, t.child["right"][n]) : k < n
    BY <1>4 DEF Ordered
  <2>1. n \in Key /\ "left" \in Side /\ "right" \in Side
    BY <1>3, Sides
  <2>2. /\ \A k \in sub[t.child["left"][n]] : OnSide("left", k, n)
        /\ \A k \in sub[t.child["right"][n]] : OnSide("right", k, n)
    BY <1>1, <2>1 DEF Sorted
  <2>3. /\ Below(t, t.child["left"][n]) = sub[t.child["left"][n]]
        /\ Below(t, t.child["right"][n]) = sub[t.child["right"][n]]
    BY <1>5, <2>1
  <2> QED
    BY <2>2, <2>3 DEF OnSide
<1>7. ParentsAgree(t)
  BY <1>1, <1>2, <1>4 DEF ParentsAgree, Tied
<1>8. Balanced(t)
  <2>1. t.root \notin t.red
    BY DEF RedBlackTree
  <2>2. \A n \in S : ~ (n \in t.red /\ RedUnderRed(t, n))
    BY <1>1, <1>2, <1>3 DEF RedBlackTree, RedOnlyUnder, RedUnderRed
  <2>3. PICK ht : Heights(t, sub, ht)
    BY DEF RedBlackTree
  <2>4. /\ ht \in [Nodes -> Nat] /\ ht[Nil] = 0
        /\ \A k \in S, d \in Side : ht[k] = ht[t.child[d][k]] + Black(t, k)
    BY <1>2, <2>3 DEF Heights
  <2>5. ASSUME NEW n \in Gaps(t) PROVE BlackDepth(t, n) = ht[t.root]
    <3>1. PICK d \in Side : n \in S /\ t.child[d][n] = Nil
      BY <1>4 DEF Gaps
    <3>2. ht[n] = 0 + Black(t, n) /\ Black(t, n) \in Nat /\ ht[t.root] \in Nat
      <4>1. Black(t, n) \in Nat
        BY DEF Black
      <4>2. ht[n] = 0 + Black(t, n)
        BY <2>4, <3>1
      <4> QED
        BY <1>3, <2>4, <4>1, <4>2
    <3>3. BlackDepth(t, n) = ht[t.root] - ht[n] + Black(t, n)
      BY <1>1, <1>2, <2>3, <3>1, BlackDepthIs
    <3> QED
      BY <3>2, <3>3
  <2>6. \A m, n \in Gaps(t) : BlackDepth(t, m) = BlackDepth(t, n)
    BY <2>5
  <2> QED
    BY <1>4, <2>1, <2>2, <2>6 DEF Balanced
<1> QED
  BY <1>2, <1>4, <1>6, <1>7, <1>8 DEF RedBlack
-----------------------------------------------------------------------------
(* The operations as the hash map uses them: the subtrees are now those of *)
(* Below, and need no name.                                                *)
Subtrees(t) == [n \in Nodes |-> Below(t, n)]
Whole(t) == RedBlackTree(t, Subtrees(t))
Fixing(t, n) == AlmostRedBlack(t, Subtrees(t), n)

LEMMA SubtreesAre ==
  ASSUME NEW t, NEW sub, SearchTree(t, sub)
  PROVE  Subtrees(t) = sub /\ Stored(t) = sub[t.root] /\ \A n \in Nodes : Below(t, n) = sub[n]
<1>1. \A n \in Nodes : Below(t, n) = sub[n]
  BY BelowUnique
<1>2. sub = [n \in Nodes |-> sub[n]] /\ t.root \in Nodes
  BY TreeFields DEF SearchTree, IsBelow
<1> QED
  BY <1>1, <1>2 DEF Subtrees, Stored

LEMMA WholeSearchTree ==
  ASSUME NEW t, Whole(t) \/ \E n : Fixing(t, n)
  PROVE  SearchTree(t, Subtrees(t)) /\ t \in Tree /\ Stored(t) \in SUBSET Key
         /\ Stored(t) = Subtrees(t)[t.root] /\ \A n \in Nodes : Below(t, n) = Subtrees(t)[n]
<1>1. SearchTree(t, Subtrees(t)) /\ t \in Tree
  BY DEF Whole, Fixing, RedBlackTree, AlmostRedBlack, SearchTree
<1>2. Stored(t) = Subtrees(t)[t.root] /\ \A n \in Nodes : Below(t, n) = Subtrees(t)[n]
  BY <1>1, SubtreesAre
<1>3. Subtrees(t)[t.root] \in SUBSET Key
  BY <1>1, TreeFacts
<1> QED
  BY <1>1, <1>2, <1>3

LEMMA WholeSound ==
  ASSUME NEW t, Whole(t)
  PROVE  RedBlack(t)
BY RedBlackTreeSound DEF Whole

LEMMA EmptyWhole == Whole(EmptyTree) /\ Stored(EmptyTree) = {}
<1>1. PICK sub : RedBlackTree(EmptyTree, sub) /\ sub[EmptyTree.root] = {}
  BY EmptyTreeRedBlack
<1>2. SearchTree(EmptyTree, sub)
  BY <1>1 DEF RedBlackTree
<1>3. Subtrees(EmptyTree) = sub /\ Stored(EmptyTree) = {}
  BY <1>1, <1>2, SubtreesAre
<1> QED
  BY <1>1, <1>3 DEF Whole

LEMMA FixTurnWhole ==
  ASSUME NEW t, NEW n, Fixing(t, n), RedUnderRed(t, n)
  PROVE  /\ Fixing(FixTurn(t, n).tree, FixTurn(t, n).node)
         /\ Stored(FixTurn(t, n).tree) = Stored(t)
<1>1. PICK r : r = FixTurn(t, n)
  OBVIOUS
<1>2. PICK sub : AlmostRedBlack(t, sub, n) /\ SearchTree(t, sub)
  BY DEF Fixing, AlmostRedBlack
<1>3. PICK turned : AlmostRedBlack(r.tree, turned, r.node) /\ turned[r.tree.root] = sub[t.root]
  BY ONLY <1>1, <1>2, RedUnderRed(t, n), FixTurnKeeps
<1>4. SearchTree(r.tree, turned)
  BY <1>3 DEF AlmostRedBlack
<1>5. Subtrees(r.tree) = turned /\ Stored(r.tree) = turned[r.tree.root] /\ Stored(t) = sub[t.root]
  BY <1>2, <1>4, SubtreesAre
<1> QED
  BY <1>1, <1>3, <1>5 DEF Fixing

LEMMA BlackRootWhole ==
  ASSUME NEW t, NEW n, Fixing(t, n), ~ RedUnderRed(t, n)
  PROVE  Whole(BlackRoot(t)) /\ Stored(BlackRoot(t)) = Stored(t)
<1>1. PICK r : r = BlackRoot(t)
  OBVIOUS
<1>2. PICK sub : AlmostRedBlack(t, sub, n) /\ SearchTree(t, sub)
  BY DEF Fixing, AlmostRedBlack
<1>3. RedBlackTree(r, sub) /\ r.root = t.root
  BY ONLY <1>1, <1>2, ~ RedUnderRed(t, n), BlackRootKeeps
<1>4. SearchTree(r, sub)
  BY <1>3 DEF RedBlackTree
<1>5. Subtrees(r) = sub /\ Stored(r) = sub[r.root] /\ Stored(t) = sub[t.root]
  BY <1>2, <1>4, SubtreesAre
<1> QED
  BY <1>1, <1>3, <1>5 DEF Whole

(* The way down to a place: up is the last node on it, Nil at the start,   *)
(* and k belongs on the side of every node that the way has taken.         *)
TowardKey(k, n) == IF k > n THEN "left" ELSE "right"

Passed(t, k, n) ==
  \A a \in Stored(t), d \in Side : n \in Below(t, t.child[d][a]) => OnSide(d, k, a)

OnTheWay(t, k, up, c) ==
  IF up = Nil THEN c = t.root
  ELSE /\ up \in Stored(t) /\ up # k /\ c = t.child[TowardKey(k, up)][up]
       /\ Passed(t, k, up)

LEMMA TowardKeySide ==
  ASSUME NEW k \in Key, NEW n \in Key, k # n
  PROVE  TowardKey(k, n) \in Side /\ OnSide(TowardKey(k, n), k, n)
<1>1. k \in Int /\ n \in Int
  BY KeyAssumption
<1> QED
  BY <1>1 DEF TowardKey, OnSide, Side

(* A node of a subtree other than its top has its parent there.            *)
LEMMA ParentBelow ==
  ASSUME NEW t, NEW sub, SearchTree(t, sub), NEW m \in sub[t.root],
         NEW x \in sub[t.root], m \in sub[x], m # x
  PROVE  t.parent[m] \in sub[x]
<1>1. t \in Tree /\ IsBelow(t, sub) /\ Tied(t, sub)
  BY DEF SearchTree
<1>2. PICK S : S = sub[t.root]
  OBVIOUS
<1>3. S \in SUBSET Key /\ IsFiniteSet(S) /\ \A k \in S : sub[k] \subseteq S /\ k \in sub[k]
  BY <1>1, <1>2, TreeFacts DEF Tied
<1> DEFINE Bad == {k \in S : m \in sub[k] /\ m # k /\ t.parent[m] \notin sub[k]}
<1>4. SUFFICES ASSUME Bad # {} PROVE FALSE
  BY <1>2
<1> DEFINE Family == {sub[k] : k \in Bad}
<1>5. Family # {} /\ Family \subseteq FiniteSubsetsOf(S)
  <2>1. ASSUME NEW k \in Bad PROVE sub[k] \in FiniteSubsetsOf(S)
    BY <1>3, FS_Subset DEF FiniteSubsetsOf
  <2> QED
    BY <1>4, <2>1
<1>6. PICK b \in Family : \A c \in Family : ~ (<<c, b>> \in StrictSubsetOrdering(S))
  <2> HIDE DEF Family
  <2> QED
    BY <1>5, FS_StrictSubsetOrderingWellFounded, WFMin
<1>7. PICK k \in Bad : b = sub[k]
  OBVIOUS
<1>8. k \in S /\ k \in Key /\ m \in sub[k] /\ m # k /\ t.parent[m] \notin sub[k]
  BY <1>3, <1>7
<1>9. PICK d \in Side : m \in sub[t.child[d][k]]
  <2>1. sub[k] = {k} \cup sub[t.child["left"][k]] \cup sub[t.child["right"][k]]
    BY <1>1, <1>8 DEF IsBelow
  <2> QED
    BY <1>8, <2>1, Sides
<1>10. PICK y : y = t.child[d][k]
  OBVIOUS
<1>11. sub[y] \subseteq sub[k] /\ k \notin sub[y] /\ k \in sub[k] /\ y \in S \cup {Nil} /\ sub[Nil] = {}
  BY <1>2, <1>8, <1>10, TreeFacts
<1>12. y \in S /\ y # Nil
  BY <1>3, <1>9, <1>10, <1>11, KeyAssumption
<1>13. CASE m = y
  <2>1. t.parent[m] = k
    BY <1>1, <1>2, <1>8, <1>10, <1>12, <1>13 DEF Tied
  <2> QED
    BY <1>8, <1>11, <2>1
<1>14. CASE m # y
  <2>1. y \in Bad
    BY <1>8, <1>9, <1>10, <1>11, <1>12, <1>14
  <2>2. <<sub[y], b>> \in StrictSubsetOrdering(S)
    <3>1. sub[y] \subseteq b /\ sub[y] # b /\ b \subseteq S
      BY <1>3, <1>7, <1>8, <1>11
    <3> QED
      BY <3>1 DEF StrictSubsetOrdering
  <2>3. sub[y] \in Family
    BY <2>1
  <2> QED
    BY <1>6, <2>2, <2>3
<1> QED
  BY <1>13, <1>14
LEMMA WayDown ==
  ASSUME NEW t, Whole(t), NEW k \in Key, NEW up, NEW c \in Stored(t), c # k,
         OnTheWay(t, k, up, c)
  PROVE  OnTheWay(t, k, c, t.child[TowardKey(k, c)][c])
<1>1. PICK sub : sub = Subtrees(t)
  OBVIOUS
<1>2. /\ SearchTree(t, sub) /\ t \in Tree /\ Stored(t) \in SUBSET Key
      /\ Stored(t) = sub[t.root] /\ \A n \in Nodes : Below(t, n) = sub[n]
  BY <1>1, WholeSearchTree
<1>3. /\ \A a \in Key, d \in Side : t.child[d][a] \in Nodes
      /\ t.root \in Nodes /\ sub[Nil] = {} /\ Nil \notin Key
      /\ \A a \in Key : t.child["left"][a] = t.child["right"][a] => t.child["left"][a] = Nil
      /\ \A a \in Stored(t), d \in Side : t.child[d][a] \in Stored(t) \cup {Nil}
      /\ \A n \in Nodes : sub[n] \in SUBSET Key
  <2>1. (\A a \in Key, d \in Side : t.child[d][a] \in Nodes) /\ t.root \in Nodes /\ Nil \notin Key
    BY <1>2, TreeFields, KeyAssumption
  <2>2. /\ sub[Nil] = {}
        /\ \A a \in Key : t.child["left"][a] = t.child["right"][a] => t.child["left"][a] = Nil
        /\ \A n \in Nodes : sub[n] \in SUBSET Key
    BY <1>2, TreeFacts
  <2>3. \A a \in sub[t.root], d \in Side : t.child[d][a] \in sub[t.root] \cup {Nil}
    BY <1>2, TreeFacts
  <2>4. Stored(t) = sub[t.root]
    BY <1>2
  <2> QED
    BY ONLY <2>1, <2>2, <2>3, <2>4
<1>4. c \in Key /\ c # Nil
  BY <1>2, <1>3
<1>5. ASSUME NEW a \in Stored(t), NEW d \in Side, c \in Below(t, t.child[d][a])
      PROVE  OnSide(d, k, a)
  <2>1. PICK x : x = t.child[d][a]
    OBVIOUS
  <2>2. a \in Key /\ x \in Nodes /\ c \in sub[x] /\ x \in Stored(t) /\ x # Nil
    BY <1>2, <1>3, <1>5, <2>1
  <2>3. t.parent[x] = a /\ x \in Key
    BY <1>2, <2>1, <2>2, OnlyParent
  <2>4. c # x => t.parent[c] \in sub[x]
    BY <1>2, <2>2, ParentBelow
  <2>5. CASE up = Nil
    <3>1. c = t.root /\ t.parent[c] = Nil
      BY <1>2, <1>4, <2>5 DEF OnTheWay, SearchTree, Tied
    <3>2. c # x
      BY <1>2, <1>3, <2>2, <2>3, <3>1
    <3> QED
      BY <1>3, <2>2, <2>4, <3>1, <3>2
  <2>6. CASE up # Nil
    <3>1. /\ up \in Stored(t) /\ up # k /\ c = t.child[TowardKey(k, up)][up]
          /\ Passed(t, k, up)
      BY <2>6 DEF OnTheWay
    <3>2. up \in Key /\ TowardKey(k, up) \in Side /\ OnSide(TowardKey(k, up), k, up)
      BY <1>2, <3>1, TowardKeySide
    <3>3. t.parent[c] = up
      BY <1>2, <1>4, <3>1, <3>2, OnlyParent
    <3>4. CASE c = x
      <4>1. a = up
        BY <2>3, <3>3, <3>4
      <4>2. d = TowardKey(k, up)
        BY ZenonT(60), <1>3, <1>4, <2>1, <3>1, <3>2, <3>4, <4>1, Sides
      <4> QED
        BY <3>2, <4>1, <4>2
    <3>5. CASE c # x
      <4>1. up \in Below(t, t.child[d][a])
        BY <1>2, <2>1, <2>2, <2>4, <3>3, <3>5
      <4> QED
        BY <3>1, <4>1 DEF Passed
    <3> QED
      BY <3>4, <3>5
  <2> QED
    BY <2>5, <2>6
<1>6. Passed(t, k, c)
  BY <1>5 DEF Passed
<1> QED
  BY <1>4, <1>6 DEF OnTheWay

(* A name that is in the subtree is on the side that the comparison takes. *)
LEMMA BelowToward ==
  ASSUME NEW t, Whole(t), NEW k \in Key, NEW c \in Stored(t), c # k, k \in Below(t, c)
  PROVE  k \in Below(t, t.child[TowardKey(k, c)][c])
<1>1. PICK sub : sub = Subtrees(t)
  OBVIOUS
<1>2. /\ SearchTree(t, sub) /\ t \in Tree /\ Stored(t) \in SUBSET Key
      /\ \A n \in Nodes : Below(t, n) = sub[n]
  BY <1>1, WholeSearchTree
<1>3. c \in Key /\ c \in Nodes /\ \A d \in Side : t.child[d][c] \in Nodes
  BY <1>2, TreeFields DEF Nodes
<1>4. PICK d \in Side : k \in sub[t.child[d][c]]
  <2>1. sub[c] = {c} \cup sub[t.child["left"][c]] \cup sub[t.child["right"][c]]
    BY <1>2, <1>3 DEF SearchTree, IsBelow
  <2> QED
    BY <1>2, <1>3, <2>1, Sides
<1>5. OnSide(d, k, c)
  BY <1>2, <1>3, <1>4 DEF SearchTree, Sorted
<1>6. TowardKey(k, c) = d
  <2>1. k \in Int /\ c \in Int
    BY <1>3, KeyAssumption
  <2> QED
    BY <1>5, <2>1 DEF TowardKey, OnSide, Side
<1> QED
  BY <1>2, <1>3, <1>4, <1>6

LEMMA WholeChildren ==
  ASSUME NEW t, Whole(t)
  PROVE  /\ t.root \in Stored(t) \cup {Nil}
         /\ \A c \in Stored(t), d \in Side : t.child[d][c] \in Stored(t) \cup {Nil}
         /\ Below(t, Nil) = {} /\ Below(t, t.root) = Stored(t) /\ Nil \notin Stored(t)
<1>1. PICK sub : sub = Subtrees(t)
  OBVIOUS
<1>2. /\ SearchTree(t, sub) /\ t \in Tree /\ Stored(t) \in SUBSET Key
      /\ Stored(t) = sub[t.root] /\ \A n \in Nodes : Below(t, n) = sub[n]
  BY <1>1, WholeSearchTree
<1>3. /\ \A k \in Key : k \in sub[k]
      /\ sub[Nil] = {}
      /\ \A c \in Stored(t), d \in Side : t.child[d][c] \in Stored(t) \cup {Nil}
  BY <1>2, TreeFacts
<1>4. t.root \in Nodes /\ Nil \notin Key
  BY <1>2, TreeFields, KeyAssumption
<1> QED
  BY <1>2, <1>3, <1>4 DEF Nodes

(* The name was not met on the way down: its node is linked where the way  *)
(* has come to an end.                                                     *)
LEMMA LinkWhole ==
  ASSUME NEW t, Whole(t), NEW k \in Key, k \notin Stored(t), NEW up, OnTheWay(t, k, up, Nil),
         NEW s, s = IF up = Nil THEN "right" ELSE TowardKey(k, up)
  PROVE  /\ Fixing(Link(t, k, up, s), k)
         /\ Stored(Link(t, k, up, s)) = Stored(t) \cup {k}
<1>1. PICK sub : sub = Subtrees(t)
  OBVIOUS
<1>2. /\ SearchTree(t, sub) /\ t \in Tree /\ Stored(t) \in SUBSET Key
      /\ Stored(t) = sub[t.root] /\ \A n \in Nodes : Below(t, n) = sub[n]
  BY <1>1, WholeSearchTree
<1>3. PICK r : r = Link(t, k, up, s)
  OBVIOUS
<1>4. /\ \A a \in Key, d \in Side : t.child[d][a] \in Nodes
      /\ Nil \notin Key /\ \A n \in Nodes : sub[n] \in SUBSET Key
  BY <1>2, TreeFields, TreeFacts, KeyAssumption
<1>5. RoomFor(t, sub, k, up, s)
  <2>1. CASE up = Nil
    <3>1. t.root = Nil /\ s = "right"
      BY <2>1 DEF OnTheWay
    <3>2. \A a \in sub[t.root], d \in Side : Nil \notin sub[t.child[d][a]]
      BY <1>2, <1>4
    <3> QED
      BY <1>2, <2>1, <3>1, <3>2 DEF RoomFor, Nodes, Side
  <2>2. CASE up # Nil
    <3>1. up \in Stored(t) /\ up # k /\ t.child[s][up] = Nil /\ Passed(t, k, up) /\ s = TowardKey(k, up)
      BY <2>2 DEF OnTheWay
    <3>2. up \in Key /\ s \in Side /\ OnSide(s, k, up)
      BY <1>2, <3>1, TowardKeySide
    <3>3. ASSUME NEW a \in sub[t.root], NEW d \in Side, up \in sub[t.child[d][a]]
          PROVE  OnSide(d, k, a)
      <4>1. Below(t, t.child[d][a]) = sub[t.child[d][a]]
        BY <1>2, <1>4
      <4> QED
        BY <1>2, <3>1, <3>3, <4>1 DEF Passed
    <3> QED
      BY <1>2, <2>2, <3>1, <3>2, <3>3 DEF RoomFor, Nodes
  <2> QED
    BY <2>1, <2>2
<1>6. RedBlackTree(t, sub)
  BY <1>1 DEF Whole
<1>7. PICK grown : AlmostRedBlack(r, grown, k) /\ grown[r.root] = sub[t.root] \cup {k}
  BY ONLY <1>3, <1>5, <1>6, LinkKeeps
<1>8. SearchTree(r, grown)
  BY <1>7 DEF AlmostRedBlack
<1>9. Subtrees(r) = grown /\ Stored(r) = grown[r.root]
  BY <1>8, SubtreesAre
<1> QED
  BY <1>2, <1>3, <1>7, <1>9 DEF Fixing
=============================================================================
