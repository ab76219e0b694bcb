----------------------------- MODULE NetHashmap -----------------------------
(***************************************************************************)
(* The hash map of net_hashmap/net_hashmap_core.c: an array of trees, each *)
(* under a read-write lock, with threads that search and insert.  A step   *)
(* goes down one level of a tree or does one turn of its rebalancing, so   *)
(* that only the locks keep a search from seeing a tree half done.         *)
(***************************************************************************)
EXTENDS RbErase, HostName

CONSTANTS
  Inserters,   \* threads that insert: main and then the forwarder
  Searchers,   \* threads that search: the worker
  Bucket,      \* the indices of the array that are used
  Host,        \* the host name of each key: its octets
  Addr,        \* addresses
  NoAddr,      \* 0: no address
  Entries,     \* what the inserters insert: a set of <<key, address>>
  Queries      \* what the searchers search for: a set of keys

Threads == Inserters \cup Searchers

(* Octets beyond ASCII are negative chars to the hash as well.             *)
HashOf == [k \in Key |-> Hash(Host[k])]

ASSUME HashmapAssumption ==
  /\ Inserters \cap Searchers = {}
  /\ HashOf \in [Key -> Bucket]
  /\ Entries \subseteq Key \X (Addr \cup {NoAddr}) /\ Queries \subseteq Key

VARIABLES
  tree,     \* net_hashmap_array
  addr,     \* the ipv4 of each node
  readers,  \* net_hashmap_lck: who holds each lock for reading ...
  writer,   \* ... and for writing
  pc,       \* where each thread is in its call
  arg,      \* the entry each thread inserts, or the name it searches
  cur,      \* the node each thread looks at
  up,       \* an inserter: the node it came from
  result    \* what a search has found

locks == <<readers, writer>>
locals == <<pc, arg, cur, up, result>>
vars == <<tree, addr, locks, locals>>

NoEntry == <<Nil, NoAddr>>
NameOf(t) == arg[t][1]
HomeOf(t) == HashOf[NameOf(t)]

TypeOK ==
  /\ tree \in [Bucket -> Tree]
  /\ addr \in [Key -> Addr \cup {NoAddr}]
  /\ readers \in [Bucket -> SUBSET Searchers]
  /\ writer \in [Bucket -> SUBSET Inserters]
  /\ \A t \in Inserters : pc[t] \in {"idle", "lock", "descend", "fix", "unlock"}
  /\ \A t \in Searchers : pc[t] \in {"idle", "lock", "descend", "unlock"}
  /\ DOMAIN pc = Threads
  /\ arg \in [Threads -> (Key \X (Addr \cup {NoAddr})) \cup {NoEntry}]
  /\ cur \in [Threads -> Key \cup {Nil}] /\ up \in [Threads -> Key \cup {Nil}]
  /\ result \in [Threads -> Addr \cup {NoAddr}]

Init ==
  /\ tree = [b \in Bucket |-> EmptyTree]
  /\ addr = [k \in Key |-> NoAddr]
  /\ readers = [b \in Bucket |-> {}] /\ writer = [b \in Bucket |-> {}]
  /\ pc = [t \in Threads |-> "idle"]
  /\ arg = [t \in Threads |-> NoEntry]
  /\ cur = [t \in Threads |-> Nil] /\ up = [t \in Threads |-> Nil]
  /\ result = [t \in Threads |-> NoAddr]

-----------------------------------------------------------------------------
(* Both calls start by hashing the name and end by giving up the lock.     *)

Call(t, entry) ==
  /\ pc[t] = "idle"
  /\ pc' = [pc EXCEPT ![t] = "lock"]
  /\ arg' = [arg EXCEPT ![t] = entry]
  /\ UNCHANGED <<tree, addr, locks, cur, up, result>>

AtRoot(t) ==
  /\ pc[t] = "lock"
  /\ pc' = [pc EXCEPT ![t] = "descend"]
  /\ cur' = [cur EXCEPT ![t] = tree[HomeOf(t)].root]
  /\ UNCHANGED <<tree, addr, arg, up, result>>

(* net_hashmap_core_module_inside_strcmp of the name and that of a node.   *)
Order == [j \in Key |-> [k \in Key |-> Strcmp(Host[j], Host[k])]]
Compare(t, n) == Order[NameOf(t)][n]
AtName(t) == cur[t] # Nil /\ Compare(t, cur[t]) = 0

(* The larger name goes left. *)
Toward(t, n) == IF Compare(t, n) > 0 THEN "left" ELSE "right"

Return(t) ==
  /\ pc[t] = "unlock"
  /\ pc' = [pc EXCEPT ![t] = "idle"]
  /\ arg' = [arg EXCEPT ![t] = NoEntry]
  /\ cur' = [cur EXCEPT ![t] = Nil] /\ up' = [up EXCEPT ![t] = Nil]
  /\ result' = [result EXCEPT ![t] = NoAddr]
  /\ UNCHANGED <<tree, addr>>

-----------------------------------------------------------------------------
(* net_hashmap_core_module_insert *)

(* Seeded fault: the read lock is taken for the write lock. *)
InsertReadLock(t) ==
  /\ AtRoot(t)
  /\ writer[HomeOf(t)] = {}
  /\ readers' = [readers EXCEPT ![HomeOf(t)] = @ \cup {t}]
  /\ UNCHANGED writer

InsertLock(t) ==
  /\ AtRoot(t)
  /\ readers[HomeOf(t)] = {} /\ writer[HomeOf(t)] = {}
  /\ writer' = [writer EXCEPT ![HomeOf(t)] = {t}]
  /\ UNCHANGED readers

InsertDescend(t) ==
  /\ pc[t] = "descend"
  /\ cur[t] # Nil /\ ~AtName(t)
  /\ up' = [up EXCEPT ![t] = cur[t]]
  /\ cur' = [cur EXCEPT ![t] = tree[HomeOf(t)].child[Toward(t, cur[t])][cur[t]]]
  /\ UNCHANGED <<tree, addr, locks, pc, arg, result>>

(* Seeded fault: a name that is present gets the new address. *)
InsertPresentReplaces(t) ==
  /\ pc[t] = "descend"
  /\ AtName(t)
  /\ addr' = [addr EXCEPT ![cur[t]] = arg[t][2]]
  /\ pc' = [pc EXCEPT ![t] = "unlock"]
  /\ UNCHANGED <<tree, locks, arg, cur, up, result>>

(* The name is there already: the new node is dropped (and never freed).   *)
InsertPresent(t) ==
  /\ pc[t] = "descend"
  /\ AtName(t)
  /\ pc' = [pc EXCEPT ![t] = "unlock"]
  /\ UNCHANGED <<tree, addr, locks, arg, cur, up, result>>

InsertLink(t) ==
  /\ pc[t] = "descend"
  /\ cur[t] = Nil
  /\ LET k == NameOf(t)
         s == IF up[t] = Nil THEN "right" ELSE Toward(t, up[t])
     IN  /\ tree' = [tree EXCEPT ![HomeOf(t)] = Link(@, k, up[t], s)]
         /\ addr' = [addr EXCEPT ![k] = arg[t][2]]
         /\ cur' = [cur EXCEPT ![t] = k]
  /\ pc' = [pc EXCEPT ![t] = "fix"]
  /\ UNCHANGED <<locks, arg, up, result>>

(* rb_insert_color: one turn of its loop, and its end *)
InsertFix(t) ==
  /\ pc[t] = "fix"
  /\ RedUnderRed(tree[HomeOf(t)], cur[t])
  /\ LET turn == FixTurn(tree[HomeOf(t)], cur[t]) IN
     /\ tree' = [tree EXCEPT ![HomeOf(t)] = turn.tree]
     /\ cur' = [cur EXCEPT ![t] = turn.node]
  /\ UNCHANGED <<addr, locks, pc, arg, up, result>>

InsertFixed(t) ==
  /\ pc[t] = "fix"
  /\ ~RedUnderRed(tree[HomeOf(t)], cur[t])
  /\ tree' = [tree EXCEPT ![HomeOf(t)] = BlackRoot(@)]
  /\ pc' = [pc EXCEPT ![t] = "unlock"]
  /\ UNCHANGED <<addr, locks, arg, cur, up, result>>

InsertReturn(t) ==
  /\ Return(t)
  /\ writer' = [writer EXCEPT ![HomeOf(t)] = {}]
  /\ UNCHANGED readers

Insert(t) ==
  \/ \E entry \in Entries : Call(t, entry)
  \/ InsertLock(t) \/ InsertDescend(t) \/ InsertPresent(t) \/ InsertLink(t)
  \/ InsertFix(t) \/ InsertFixed(t) \/ InsertReturn(t)

-----------------------------------------------------------------------------
(* net_hashmap_core_module_search *)

(* Seeded fault: the search does not look at the lock. *)
SearchUnlocked(t) ==
  /\ AtRoot(t)
  /\ UNCHANGED locks

SearchLock(t) ==
  /\ AtRoot(t)
  /\ writer[HomeOf(t)] = {}
  /\ readers' = [readers EXCEPT ![HomeOf(t)] = @ \cup {t}]
  /\ UNCHANGED writer

SearchDescend(t) ==
  /\ pc[t] = "descend"
  /\ cur[t] # Nil /\ ~AtName(t)
  /\ cur' = [cur EXCEPT ![t] = tree[HomeOf(t)].child[Toward(t, cur[t])][cur[t]]]
  /\ UNCHANGED <<tree, addr, locks, pc, arg, up, result>>

SearchEnd(t) ==
  /\ pc[t] = "descend"
  /\ cur[t] = Nil \/ AtName(t)
  /\ result' = [result EXCEPT ![t] = IF cur[t] = Nil THEN NoAddr ELSE addr[cur[t]]]
  /\ pc' = [pc EXCEPT ![t] = "unlock"]
  /\ UNCHANGED <<tree, addr, locks, arg, cur, up>>

SearchReturn(t) ==
  /\ Return(t)
  /\ readers' = [readers EXCEPT ![HomeOf(t)] = @ \ {t}]
  /\ UNCHANGED writer

Search(t) ==
  \/ \E k \in Queries : Call(t, <<k, NoAddr>>)
  \/ SearchLock(t) \/ SearchDescend(t) \/ SearchEnd(t) \/ SearchReturn(t)

-----------------------------------------------------------------------------
Next ==
  \/ \E t \in Inserters : Insert(t)
  \/ \E t \in Searchers : Search(t)

Spec == Init /\ [][Next]_vars

-----------------------------------------------------------------------------
(* Whenever no insert is at work on it, a bucket's tree is a red-black     *)
(* tree: whatever the order of the insertions, the rebalancing ends with   *)
(* the names in order, the parents right and the tree balanced.            *)
TreesSound == \A b \in Bucket : writer[b] = {} => RedBlack(tree[b])

(* Any name could be taken out of any tree that comes about, and a walk    *)
(* over it meets the names in order.  (Looked at when no call is under     *)
(* way: nothing in the server erases or walks.)                            *)
AtRest == \A t \in Threads : pc[t] = "idle"
EraseSound == AtRest => \A b \in Bucket : ErasesSoundly(tree[b])
WalkSound == AtRest => \A b \in Bucket : WalksInOrder(tree[b]) /\ ReplacesInPlace(tree[b])

(* Nobody looks into a tree that another thread is changing.               *)
Inside(t) == pc[t] \in {"descend", "fix", "unlock"}
WriterAlone ==
  \A t \in Inserters, u \in Threads :
    Inside(t) /\ Inside(u) /\ HomeOf(t) = HomeOf(u) => t = u

(* Each call takes effect at once: the book gets a name when its node is   *)
(* linked, and a search is decided when it comes to its end.               *)
Names == UNION {Stored(tree[b]) : b \in Bucket}
Called(t) == pc[t] \in {"lock", "descend"}
Done(t) == pc[t] \in {"fix", "unlock"}
CallOf(t) ==
  CASE pc[t] = "idle" -> [op |-> "none"]
    [] Done(t) /\ t \in Inserters -> [op |-> "inserted"]
    [] Done(t) /\ t \in Searchers -> [op |-> "found", addr |-> result[t]]
    [] Called(t) /\ t \in Inserters -> [op |-> "insert", key |-> NameOf(t), addr |-> arg[t][2]]
    [] OTHER -> [op |-> "search", key |-> NameOf(t)]
Book == INSTANCE AddressBook WITH
          Addr <- Addr \cup {NoAddr},
          book <- [k \in Names |-> addr[k]], call <- [t \in Threads |-> CallOf(t)]
ImplementsBook == Book!Spec
=============================================================================
