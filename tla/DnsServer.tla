----------------------------- MODULE DnsServer -----------------------------
(***************************************************************************)
(* The request path of the server: the event loop of the main thread, the  *)
(* worker, the forwarder and the responder, joined by three rings, the     *)
(* cache, the list of forwarded requests and the upstream server.          *)
(*                                                                         *)
(* The rings are the bounded queues NetRing is shown to implement: an      *)
(* enqueue or a dequeue is one step.  The bucket locks of the hash map     *)
(* make a search and an insert one step each.  Everything else that is     *)
(* shared, and every datagram, gives a step of its own.                    *)
(***************************************************************************)
EXTENDS Integers, Sequences, FiniteSets, Functions

CONSTANTS
  Names,         \* host names; upstream's address of a name is the name itself
  Unresolvable,  \* the names whose upstream answer has no A record
  NoAddr,        \* ipv4 = 0
  Configured,    \* the records of DNS.conf: a function from names to addresses
  Datagrams,     \* what clients send: [client, iden, name, kind]
  Capacity,      \* items a ring holds: 8191 in the code (AlignPow2 in NetRing)
  MaxQueries,    \* bound: datagrams the clients send
  MaxDups,       \* bound: upstream answers delivered once more
  MayLose,       \* whether a datagram to or from upstream may get lost
  MayMisread     \* whether recvfrom may be given a negative length, see ParsedAddr

Addr == Names \cup {NoAddr}

Kinds == {"a",      \* a query the parser accepts: one A question
          "other",  \* anything the parser rejects
          "empty"}  \* recvfrom returns no data

ASSUME ServerAssumption ==
  /\ DOMAIN Configured \subseteq Names /\ Configured \in [DOMAIN Configured -> Addr]
  /\ Unresolvable \subseteq Names
  /\ NoAddr \notin Names
  /\ \A d \in Datagrams : d.name \in Names /\ d.kind \in Kinds
  /\ Capacity \in Nat \ {0} /\ MaxQueries \in Nat /\ MaxDups \in Nat
  /\ MayLose \in BOOLEAN /\ MayMisread \in BOOLEAN

Node == 1 .. MaxQueries   \* the nodes the server allocates, in order
None == 0                 \* a thread holds no node
Rings == {"work", "forward", "bundle"}

VARIABLES
  req,       \* the datagram in each node allocated so far
  ipv4,      \* node->ipv4
  ring,      \* the three rings
  cache,     \* the hash map: a function on the names inserted
  pending,   \* net_forward_module_list_head: forwarded, not yet answered
  asked,     \* nodes whose query is on its way to upstream or back
  sock,      \* answers in the forwarder's socket buffer
  workPc, workNode, workAddr,   \* worker: its place, its node, search's result
  fwdPc, fwdNode, armed,        \* forwarder: the same, and event_add done
  respNode,  \* responder: its node
  sent,      \* replies handed to the kernel
  freed,     \* nodes given back to malloc
  lost,      \* nodes nothing refers to any more
  dups,      \* answers delivered again so far
  broken,    \* a list head has been used as a node
  forwarderUp   \* net_forward_module_init ended well

worker == <<workPc, workNode, workAddr>>
forwarder == <<fwdPc, fwdNode, armed, pending>>
upstream == <<asked, sock, dups>>
nodes == <<req, ipv4, freed, lost, sent>>
vars == <<nodes, ring, cache, upstream, worker, forwarder, respNode, broken, forwarderUp>>

Nodes == 1 .. Len(req)

(* What upstream says of a name.  What the server should say of it: the    *)
(* configured record, unless its address was 0 (inet_pton failed), which   *)
(* the hash map cannot tell from no record at all.                         *)
UpstreamAddr(name) == IF name \in Unresolvable THEN NoAddr ELSE name
RecordOf(name) == IF name \in DOMAIN Configured THEN Configured[name] ELSE UpstreamAddr(name)
AddrOf(name) == IF RecordOf(name) # NoAddr THEN RecordOf(name) ELSE UpstreamAddr(name)

TypeOK ==
  /\ req \in Seq(Datagrams) /\ Len(req) <= MaxQueries
  /\ ipv4 \in [Node -> Addr]
  /\ ring \in [Rings -> Seq(Nodes)]
  /\ \A r \in Rings : Len(ring[r]) <= Capacity
  /\ DOMAIN cache \subseteq Names /\ Range(cache) \subseteq Addr
  /\ pending \in Seq(Nodes) /\ asked \subseteq Nodes /\ sock \in Seq(Nodes)
  /\ workPc \in {"idle", "search", "route"} /\ workNode \in Nodes \cup {None}
  /\ workAddr \in Addr
  /\ fwdPc \in {"take", "poll", "insert", "enqueue"} /\ fwdNode \in Nodes \cup {None}
  /\ armed \in BOOLEAN
  /\ respNode \in Nodes \cup {None}
  /\ sent \subseteq [node : Nodes, addr : Addr]
  /\ freed \subseteq Nodes /\ lost \subseteq Nodes
  /\ dups \in 0 .. MaxDups
  /\ broken \in BOOLEAN /\ forwarderUp \in BOOLEAN

(* forwarderUp: net_forward_module_inside_ring_init returns a variable it  *)
(* never sets when all goes well, so the rest of the init may be skipped.  *)
(* The configured records are inserted before any thread starts.           *)
Init ==
  /\ req = << >> /\ ipv4 = [n \in Node |-> NoAddr]
  /\ ring = [r \in Rings |-> << >>]
  /\ cache = Configured
  /\ pending = << >> /\ asked = {} /\ sock = << >>
  /\ workPc = "idle" /\ workNode = None /\ workAddr = NoAddr
  /\ fwdPc = "take" /\ fwdNode = None /\ armed = FALSE
  /\ respNode = None
  /\ sent = {} /\ freed = {} /\ lost = {}
  /\ dups = 0 /\ broken = FALSE
  /\ forwarderUp \in BOOLEAN

-----------------------------------------------------------------------------
(* What every step of a thread of the living process has in common.        *)
Alive == ~broken /\ UNCHANGED <<broken, forwarderUp>>

(* The rings.  An enqueue is refused when all slots are claimed and not    *)
(* released, which other calls under way make happen before the queue      *)
(* itself is full: the one consumer and, on the bundle ring, the other     *)
(* producer.  No caller looks at the result: a refused node is lost.       *)

OthersUnderWay(r) == IF r = "bundle" THEN 2 ELSE 1

(* Seeded fault: the producer does not look for room. *)
EnqueueUnbounded(r, n) ==
  /\ ring' = [ring EXCEPT ![r] = Append(@, n)]
  /\ UNCHANGED lost

Enqueue(r, n) ==
  \/ /\ Len(ring[r]) < Capacity
     /\ ring' = [ring EXCEPT ![r] = Append(@, n)]
     /\ UNCHANGED lost
  \/ /\ Len(ring[r]) + OthersUnderWay(r) >= Capacity
     /\ lost' = lost \cup {n}
     /\ UNCHANGED ring

Dequeue(r, n) ==
  /\ ring[r] # << >> /\ n = Head(ring[r])
  /\ ring' = [ring EXCEPT ![r] = Tail(@)]

(* The hash map: an absent name gives 0, and the first insert wins. *)
Search(name) == IF name \in DOMAIN cache THEN cache[name] ELSE NoAddr

Insert(name, addr) ==
  cache' = [x \in DOMAIN cache \cup {name} |-> IF x \in DOMAIN cache THEN cache[x] ELSE addr]

-----------------------------------------------------------------------------
(* Main thread: net_bundle_core_module_inside_udp_cb *)

(* A datagram is received into a fresh node, which goes to the worker.     *)
ReceiveQuery(q) ==
  LET n == Len(req) + 1 IN
  /\ Alive
  /\ n \in Node
  /\ req' = Append(req, q)
  /\ IF q.kind = "empty" THEN lost' = lost \cup {n} /\ UNCHANGED ring ELSE Enqueue("work", n)
  /\ UNCHANGED <<ipv4, freed, sent, cache, upstream, worker, forwarder, respNode>>

-----------------------------------------------------------------------------
(* Worker: net_work_module_inside_loop and _parser *)

(* A node is taken and parsed; nobody frees one that the parser rejects.   *)
WorkTake ==
  /\ Alive
  /\ workPc = "idle"
  /\ \E n \in Nodes :
       /\ Dequeue("work", n)
       /\ IF req[n].kind = "a"
          THEN workPc' = "search" /\ workNode' = n /\ UNCHANGED lost
          ELSE lost' = lost \cup {n} /\ UNCHANGED <<workPc, workNode>>
  /\ UNCHANGED <<req, ipv4, freed, sent, cache, upstream, workAddr, forwarder, respNode>>

WorkSearch ==
  /\ Alive
  /\ workPc = "search"
  /\ workAddr' = Search(req[workNode].name)
  /\ workPc' = "route"
  /\ UNCHANGED <<nodes, ring, cache, upstream, workNode, forwarder, respNode>>

(* Seeded fault: a node answered from the cache keeps ipv4 = 0. *)
WorkRouteUnset ==
  /\ Alive
  /\ workPc = "route"
  /\ \/ workAddr = NoAddr /\ Enqueue("forward", workNode)
     \/ workAddr # NoAddr /\ Enqueue("bundle", workNode)
  /\ workPc' = "idle" /\ workNode' = None /\ workAddr' = NoAddr
  /\ UNCHANGED <<req, ipv4, freed, sent, cache, upstream, forwarder, respNode>>

(* Where the node goes is decided by what the search found, although the   *)
(* forwarder may have inserted the name since.                             *)
WorkRoute ==
  /\ Alive
  /\ workPc = "route"
  /\ \/ workAddr = NoAddr /\ Enqueue("forward", workNode) /\ UNCHANGED ipv4
     \/ /\ workAddr # NoAddr
        /\ ipv4' = [ipv4 EXCEPT ![workNode] = workAddr]
        /\ Enqueue("bundle", workNode)
  /\ workPc' = "idle" /\ workNode' = None /\ workAddr' = NoAddr
  /\ UNCHANGED <<req, freed, sent, cache, upstream, forwarder, respNode>>

-----------------------------------------------------------------------------
(* Forwarder: net_forward_module_inside_loop.  Each turn takes one node if *)
(* there is one, then waits in event_base_loop for an answer or the 1 ms   *)
(* timeout, whichever is first, then arms the event again.                 *)

(* net_forward_module_inside_gethostaddr: listed, then sent upstream.      *)
FwdTake ==
  /\ Alive /\ forwarderUp
  /\ fwdPc = "take"
  /\ \E n \in Nodes :
       /\ Dequeue("forward", n)
       /\ pending' = Append(pending, n)
       /\ asked' = asked \cup {n}
  /\ fwdPc' = "poll"
  /\ UNCHANGED <<nodes, cache, sock, dups, worker, fwdNode, armed, respNode>>

FwdNothingToTake ==
  /\ Alive /\ forwarderUp
  /\ fwdPc = "take" /\ ring["forward"] = << >>
  /\ fwdPc' = "poll"
  /\ UNCHANGED <<nodes, ring, cache, upstream, worker, fwdNode, armed, pending, respNode>>

(* Seeded fault: the event is added only after it fired. *)
FwdPollNothingUnarmed ==
  /\ Alive /\ forwarderUp
  /\ fwdPc = "poll"
  /\ armed => sock = << >>
  /\ fwdPc' = "take"
  /\ UNCHANGED <<nodes, ring, cache, upstream, worker, fwdNode, armed, pending, respNode>>

(* event_base_loop returns: at once on the first turn, when no event is    *)
(* added yet, and otherwise because the wait timed out.                    *)
FwdPollNothing ==
  /\ Alive /\ forwarderUp
  /\ fwdPc = "poll"
  /\ armed => sock = << >>
  /\ fwdPc' = "take" /\ armed' = TRUE
  /\ UNCHANGED <<nodes, ring, cache, upstream, worker, fwdNode, pending, respNode>>

(* Seeded fault: whatever node is in the bucket will do. *)
MatchesBucketOnly(n, answer) == n \in Nodes /\ answer \in Nodes

(* The first listed node with the identifier of the answer.                *)
Matches(n, answer) == req[n].iden = req[answer].iden
FirstMatch(i, answer) ==
  /\ i \in DOMAIN pending /\ Matches(pending[i], answer)
  /\ \A j \in 1 .. i - 1 : ~Matches(pending[j], answer)
Matched(answer) == \E i \in DOMAIN pending : Matches(pending[i], answer)

(* Seeded fault: the traversal does not stop at the first match. *)
WithoutMatches(s, i) == SelectSeq(s, LAMBDA n : ~Matches(n, s[i]))

WithoutElement(s, i) == SubSeq(s, 1, i - 1) \o SubSeq(s, i + 1, Len(s))

(* What the parser finds in an answer depends on the node it was matched   *)
(* with: the length of that node's name tells where the records start, so  *)
(* with another name any four bytes may be taken for the address.  (The    *)
(* walk over the records is in NetForward; here upstream's answers are     *)
(* ones that it reads right.)                                              *)
(* Besides, udp_cb gives recvfrom a length for the sender's address that   *)
(* it never sets.  When it happens to be negative the datagram is          *)
(* delivered, but the call fails, and with a size of -1 no record is read. *)
ParsedAddr(n, answer) ==
  (IF MayMisread THEN {NoAddr} ELSE {}) \cup
  (IF req[n].name = req[answer].name THEN {UpstreamAddr(req[answer].name)} ELSE Addr)

(* Seeded fault: the matched node stays in the list. *)
FwdMatchKeepsNode ==
  /\ Alive /\ forwarderUp
  /\ fwdPc = "poll" /\ armed /\ sock # << >>
  /\ \E i \in DOMAIN pending :
       /\ FirstMatch(i, Head(sock))
       /\ fwdNode' = pending[i]
       /\ \E a \in ParsedAddr(pending[i], Head(sock)) :
            ipv4' = [ipv4 EXCEPT ![pending[i]] = a]
  /\ sock' = Tail(sock)
  /\ fwdPc' = "insert" /\ armed' = FALSE
  /\ UNCHANGED <<req, freed, lost, sent, ring, cache, asked, dups, worker, pending, respNode>>

(* net_forward_module_inside_parse_response, up to the label success *)
FwdMatch ==
  /\ Alive /\ forwarderUp
  /\ fwdPc = "poll" /\ armed /\ sock # << >>
  /\ \E i \in DOMAIN pending :
       /\ FirstMatch(i, Head(sock))
       /\ pending' = WithoutElement(pending, i)
       /\ fwdNode' = pending[i]
       /\ \E a \in ParsedAddr(pending[i], Head(sock)) :
            ipv4' = [ipv4 EXCEPT ![pending[i]] = a]
  /\ sock' = Tail(sock)
  /\ fwdPc' = "insert" /\ armed' = FALSE
  /\ UNCHANGED <<req, freed, lost, sent, ring, cache, asked, dups, worker, respNode>>

(* No listed node has the identifier: the list traversal ends with item at *)
(* the list head, which is not NULL, and goes on as if it were a node.     *)
(* What follows is undefined; nothing is modelled after it.                *)
FwdNoMatch ==
  /\ ~broken /\ forwarderUp
  /\ fwdPc = "poll" /\ armed /\ sock # << >>
  /\ ~Matched(Head(sock))
  /\ broken' = TRUE
  /\ UNCHANGED <<nodes, ring, cache, upstream, worker, forwarder, respNode, forwarderUp>>

FwdInsert ==
  /\ Alive /\ forwarderUp
  /\ fwdPc = "insert"
  /\ Insert(req[fwdNode].name, ipv4[fwdNode])
  /\ fwdPc' = "enqueue"
  /\ UNCHANGED <<nodes, ring, upstream, worker, fwdNode, armed, pending, respNode>>

(* The node goes to the responder.  The event fired and is not persistent: *)
(* the loop adds it again for its next turn.                               *)
FwdEnqueue ==
  /\ Alive /\ forwarderUp
  /\ fwdPc = "enqueue"
  /\ Enqueue("bundle", fwdNode)
  /\ fwdPc' = "take" /\ fwdNode' = None /\ armed' = TRUE
  /\ UNCHANGED <<req, ipv4, freed, sent, cache, upstream, worker, pending, respNode>>

-----------------------------------------------------------------------------
(* Responder: net_bundle_core_module_inside_loop and _write_back *)

RespTake ==
  /\ Alive
  /\ respNode = None
  /\ \E n \in Nodes : Dequeue("bundle", n) /\ respNode' = n
  /\ UNCHANGED <<nodes, cache, upstream, worker, forwarder>>

(* The reply is built in the node, sent, and the node freed.               *)
RespSend ==
  /\ Alive
  /\ respNode # None
  /\ sent' = sent \cup {[node |-> respNode, addr |-> ipv4[respNode]]}
  /\ freed' = freed \cup {respNode}
  /\ respNode' = None
  /\ UNCHANGED <<req, ipv4, lost, ring, cache, upstream, worker, forwarder>>

-----------------------------------------------------------------------------
(* The upstream server and the network to it (external): queries and       *)
(* answers may be reordered, an answer may come twice, either may get lost.*)

UpstreamAnswer(n) ==
  /\ Alive
  /\ n \in asked
  /\ asked' = asked \ {n}
  /\ sock' = Append(sock, n)
  /\ UNCHANGED <<nodes, ring, cache, dups, worker, forwarder, respNode>>

UpstreamAnswerTwice(n) ==
  /\ Alive
  /\ n \in asked /\ dups < MaxDups
  /\ dups' = dups + 1
  /\ sock' = Append(sock, n)
  /\ UNCHANGED <<nodes, ring, cache, asked, worker, forwarder, respNode>>

UpstreamLoss(n) ==
  /\ Alive
  /\ MayLose /\ n \in asked
  /\ asked' = asked \ {n}
  /\ UNCHANGED <<nodes, ring, cache, sock, dups, worker, forwarder, respNode>>

-----------------------------------------------------------------------------
Main == \E q \in Datagrams : ReceiveQuery(q)
Work == WorkTake \/ WorkSearch \/ WorkRoute
Forward ==
  \/ FwdTake \/ FwdNothingToTake \/ FwdPollNothing
  \/ FwdMatch \/ FwdNoMatch \/ FwdInsert \/ FwdEnqueue
Respond == RespTake \/ RespSend
Upstream ==
  \/ \E n \in Nodes : UpstreamAnswer(n)
  \/ \E n \in Nodes : UpstreamAnswerTwice(n)
  \/ \E n \in Nodes : UpstreamLoss(n)

Next == Main \/ Work \/ Forward \/ Respond \/ Upstream

Spec == Init /\ [][Next]_vars

(* The threads are endless loops around a 1 ms sleep or wait, and an        *)
(* upstream server that answers at all answers a query in the end.  The    *)
(* main thread waits for its clients, who owe it nothing.                  *)
FairSpec ==
  /\ Spec
  /\ WF_vars(Work) /\ WF_vars(Forward) /\ WF_vars(Respond)
  /\ \A n \in Node : WF_vars(n \in Nodes /\ UpstreamAnswer(n))

-----------------------------------------------------------------------------
(* Every node has exactly one owner at any time: a ring, the forward list, *)
(* a thread, or nobody for ever.  Only the responder frees, and nothing    *)
(* refers to a node after that; and no node disappears unaccounted for.    *)
Occurrences(s, n) == Cardinality({i \in DOMAIN s : s[i] = n})
OneIf(b) == IF b THEN 1 ELSE 0
Owners(n) ==
  Occurrences(ring["work"], n) + Occurrences(ring["forward"], n) + Occurrences(ring["bundle"], n)
  + Occurrences(pending, n)
  + OneIf(workNode = n) + OneIf(fwdNode = n) + OneIf(respNode = n)
  + OneIf(n \in freed) + OneIf(n \in lost)
NodeOwnedOnce == \A n \in Nodes : Owners(n) = 1

(* The cache holds only what the configuration or else upstream says of    *)
(* the very name it is under: an entry is never replaced, so a wrong one   *)
(* would stay for good.                                                    *)
CacheFaithful == \A name \in DOMAIN cache : cache[name] = RecordOf(name)

(* A client is told only what the configuration or else upstream says of   *)
(* the name it asked for (README.md:6, "a simple recursive DNS SERVER").   *)
AnswerFaithful == \A s \in sent : s.addr = AddrOf(req[s.node].name)

(* The forwarder finds the query of every answer that reaches it.          *)
EveryAnswerMatches == ~broken

(* Seen from outside the server implements DnsService.                     *)
Service == INSTANCE DnsService WITH Datagram <- Datagrams, replies <- sent, dropped <- lost
ImplementsService == Service!Spec

(* As long as upstream answers and no ring overflows, every query the      *)
(* parser accepts gets its reply, from the cache or from upstream.         *)
Queried(n) == n \in Nodes /\ req[n].kind = "a"
Answered(n) == \E s \in sent : s.node = n
EveryQueryAnswered == forwarderUp => \A n \in Node : Queried(n) ~> Answered(n)
=============================================================================
