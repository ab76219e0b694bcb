----------------------------- MODULE NetForward -----------------------------
(***************************************************************************)
(* A query's way through the server, octet by octet and pointer by         *)
(* pointer: the worker parses it, the forwarder lists it in the bucket of  *)
(* its identifier, reads the address out of upstream's answer and caches   *)
(* it, the responder turns the query into the reply.                       *)
(*                                                                         *)
(* A node belongs to one thread at a time (NodeOwnedOnce of DnsServer), so *)
(* here each handler is one step; DnsServer has the steps in between, full *)
(* rings, and identifiers that clients share for different names.          *)
(***************************************************************************)
EXTENDS ListHead, DnsMessage, FiniteSets

CONSTANTS
  Bucket,      \* net_forward_module_list_head: the heads
  BucketOf,    \* net_forward_module_inside_integer_hash, by identifier
  Node,        \* addresses malloc gives to nodes
  Queries,     \* what clients ask: [iden, name, type, edns]
  Answers,     \* for each name the record sequences upstream may answer with
  MaxQueries,  \* bound: queries the clients send
  MaxDups,     \* bound: answers delivered once more
  MayLose      \* whether a datagram to or from upstream may get lost

Idens == {q.iden : q \in Queries}

ASSUME ForwardAssumption ==
  /\ Bucket \cup Node \subseteq Ptr /\ Bucket \cap Node = {}
  /\ BucketOf \in [Idens -> Bucket]
  /\ MaxQueries \in Nat /\ MaxDups \in Nat /\ MayLose \in BOOLEAN

(* What clients ask and upstream answers can be written as messages.       *)
ASSUME MessagesAssumption ==
  /\ \A q \in Queries : q.iden \in Word /\ q.name \in Seq(Label) /\ q.type \in Word
                        /\ q.edns \in BOOLEAN /\ q.name \in DOMAIN Answers
  /\ \A name \in DOMAIN Answers : Answers[name] \subseteq Seq(Records)

(* Not assumed: that clients who choose the same identifier ask for the    *)
(* same name, that the walk over the records gets past all owner names,    *)
(* that just the A records have four octets of data, and that names are    *)
(* told apart by how they are spelled.  Without the first of these the     *)
(* walk may start anywhere in or behind an answer; what is behind it is    *)
(* unspecified here.                                                       *)
IdensApart == \A q, r \in Queries : q.iden = r.iden => q.name = r.name
OwnersReadable == \A q \in Queries : \A records \in Answers[q.name] : Readable(records)
JustAddressesFour == \A q \in Queries : \A records \in Answers[q.name] : FoursAreA(records)
NamesApart == \A q, r \in Queries : Dotted(q.name) = Dotted(r.name) => q.name = r.name

VARIABLES
  mem,       \* the list pointers of heads and nodes
  node,      \* the other fields of each node
  inbox,     \* the ring to the forwarder
  outbox,    \* the ring to the responder
  cache,     \* the hash map: a function on the names inserted
  queries,   \* the queries received; a request is its index here
  rejected,  \* the requests the parser has rejected
  asked,     \* requests on their way to upstream
  arrived,   \* answers on their way back: [request, records, copy]
  lost,      \* requests that, or whose answers, were lost
  dups,      \* requests whose answer was delivered once more
  released,  \* requests taken off the list, in order
  replies,   \* replies sent: [request, addr, msg]
  broken     \* a list head has been used as a node

network == <<asked, arrived, lost, dups>>
history == <<queries, rejected, released, replies>>
vars == <<mem, node, inbox, outbox, cache, network, history, broken>>

Request == 1 .. MaxQueries

(* A node's fields: data and datalen, shost and host_len, iden, ipv4.      *)
(* Besides, the request it is for (0: not allocated) and the records its   *)
(* address was read from, if any.                                          *)
Unused == [request |-> 0, data |-> << >>, host |-> << >>, iden |-> 0,
           ipv4 |-> Unresolved, answer |-> {}]

TypeOK ==
  /\ mem \in Memory
  /\ DOMAIN node = Node
  /\ \A n \in Node :
       /\ DOMAIN node[n] = DOMAIN Unused /\ node[n].request \in 0 .. Len(queries)
       /\ node[n].data \in Seq(0 .. 255) /\ node[n].host \in Seq(0 .. 255)
       /\ Len(node[n].ipv4) = 4
  /\ inbox \in Seq(Node) /\ outbox \in Seq(Node)
  /\ \A host \in DOMAIN cache : Len(cache[host]) = 4
  /\ queries \in Seq(Queries) /\ Len(queries) <= MaxQueries
  /\ rejected \cup asked \cup lost \cup dups \subseteq Request /\ released \in Seq(Request)
  /\ Cardinality(dups) <= MaxDups
  /\ broken \in BOOLEAN

(* net_forward_module_inside_list_init *)
Init ==
  /\ LET link == [p \in Ptr |-> IF p \in Bucket THEN p ELSE Null] IN mem = [next |-> link, prev |-> link]
  /\ node = [n \in Node |-> Unused]
  /\ inbox = << >> /\ outbox = << >> /\ cache = << >>
  /\ queries = << >> /\ rejected = {} /\ released = << >> /\ replies = {}
  /\ asked = {} /\ arrived = {} /\ lost = {} /\ dups = {}
  /\ broken = FALSE

-----------------------------------------------------------------------------
(* The hash map: an absent name gives 0, and the first insert wins. *)
Search(host) == IF host \in DOMAIN cache THEN cache[host] ELSE Unresolved
Insert(host, addr) ==
  cache' = [h \in DOMAIN cache \cup {host} |-> IF h \in DOMAIN cache THEN cache[h] ELSE addr]

Alive == ~broken /\ UNCHANGED broken

(* A query arrives in a fresh node n and the worker parses it.             *)
Receive(q, n) ==
  /\ Alive
  /\ Len(queries) < MaxQueries /\ node[n] = Unused
  /\ queries' = Append(queries, q)
  /\ UNCHANGED <<mem, cache, network, released, replies>>

(* Nobody frees a node the parser rejects. *)
ParseRejects(q, n) ==
  /\ Receive(q, n)
  /\ ~Accepted(WireQuery(q))
  /\ node' = [node EXCEPT ![n] = [Unused EXCEPT !.request = Len(queries'), !.data = WireQuery(q)]]
  /\ rejected' = rejected \cup {Len(queries')}
  /\ UNCHANGED <<inbox, outbox>>

ParseRoutes(q, n) ==
  LET msg  == WireQuery(q)
      host == Question(msg).host
  IN  /\ Receive(q, n)
      /\ Accepted(msg)
      /\ node' = [node EXCEPT ![n] =
                    [request |-> Len(queries'), data |-> msg, host |-> host, iden |-> Iden(msg),
                     ipv4 |-> Search(host), answer |-> {}]]
      /\ \/ Search(host) = Unresolved /\ inbox' = Append(inbox, n) /\ UNCHANGED outbox
         \/ Search(host) # Unresolved /\ outbox' = Append(outbox, n) /\ UNCHANGED inbox
      /\ UNCHANGED rejected

(* net_forward_module_inside_gethostaddr *)
GetHostAddr ==
  /\ Alive
  /\ inbox # << >>
  /\ LET n == Head(inbox) IN
     /\ node' = [node EXCEPT ![n].data = AskRecursion(@)]
     /\ mem' = ListAddTail(mem, n, BucketOf[node[n].iden])
     /\ asked' = asked \cup {node[n].request}
  /\ inbox' = Tail(inbox)
  /\ UNCHANGED <<outbox, cache, arrived, lost, dups, history>>

-----------------------------------------------------------------------------
(* net_forward_module_inside_parse_response *)

(* Seeded fault: whatever node is in the bucket will do. *)
IsForAnyInBucket(n, iden) == TRUE

IsFor(n, iden) == node[n].iden = iden
Item(iden) == FindEntry(mem, BucketOf[iden], {n \in Node : IsFor(n, iden)})

AnswerOctets(a) == WireAnswer(queries[a.request], a.records)

ParseResponse(a) ==
  LET msg  == AnswerOctets(a)
      item == Item(Iden(msg))
      addr == AddressIn(msg, Len(node[item].host))
  IN  /\ Alive
      /\ a \in arrived /\ item \in Node
      /\ mem' = ListDel(mem, item)
      /\ node' = [node EXCEPT ![item].ipv4 = addr, ![item].answer = {a.records}]
      /\ Insert(node[item].host, addr)
      /\ outbox' = Append(outbox, item)
      /\ arrived' = arrived \ {a}
      /\ released' = Append(released, node[item].request)
      /\ UNCHANGED <<inbox, asked, lost, dups, queries, rejected, replies>>

(* No node in the bucket has the identifier: item is the list head then.   *)
(* What follows is undefined; nothing is modelled after it.                *)
ParseUnmatched(a) ==
  /\ ~broken
  /\ a \in arrived /\ Item(Iden(AnswerOctets(a))) \in Bucket
  /\ broken' = TRUE
  /\ UNCHANGED <<mem, node, inbox, outbox, cache, network, history>>

(* net_bundle_core_module_inside_write_back: the node is freed. *)
WriteBack ==
  /\ Alive
  /\ outbox # << >>
  /\ LET n == Head(outbox) IN
     /\ replies' = replies \cup {[request |-> node[n].request, addr |-> node[n].ipv4,
                                  msg |-> Reply(node[n].data, node[n].ipv4)]}
     /\ node' = [node EXCEPT ![n] = Unused]
  /\ outbox' = Tail(outbox)
  /\ UNCHANGED <<mem, inbox, cache, network, queries, rejected, released>>

-----------------------------------------------------------------------------
(* The upstream server and the network to it (external) *)

UpstreamAnswer(r, records) ==
  /\ Alive
  /\ r \in asked
  /\ asked' = asked \ {r}
  /\ arrived' = arrived \cup {[request |-> r, records |-> records, copy |-> FALSE]}
  /\ UNCHANGED <<mem, node, inbox, outbox, cache, lost, dups, history>>

UpstreamAnswerTwice(a) ==
  /\ Alive
  /\ a \in arrived /\ a.request \notin dups /\ Cardinality(dups) < MaxDups
  /\ arrived' = arrived \cup {[a EXCEPT !.copy = TRUE]}
  /\ dups' = dups \cup {a.request}
  /\ UNCHANGED <<mem, node, inbox, outbox, cache, asked, lost, history>>

UpstreamLoss(r) ==
  /\ Alive
  /\ MayLose /\ r \in asked
  /\ asked' = asked \ {r} /\ lost' = lost \cup {r}
  /\ UNCHANGED <<mem, node, inbox, outbox, cache, arrived, dups, history>>

Upstream ==
  \/ \E r \in asked : UpstreamLoss(r) \/ \E s \in Answers[queries[r].name] : UpstreamAnswer(r, s)
  \/ \E a \in arrived : UpstreamAnswerTwice(a)

-----------------------------------------------------------------------------
Next ==
  \/ \E q \in Queries, n \in Node : ParseRejects(q, n) \/ ParseRoutes(q, n)
  \/ GetHostAddr \/ WriteBack \/ Upstream
  \/ \E a \in arrived : ParseResponse(a) \/ ParseUnmatched(a)

Spec == Init /\ [][Next]_vars

-----------------------------------------------------------------------------
QueryOf(n) == queries[node[n].request]
InUse == {n \in Node : node[n].request # 0}
Listed == [b \in Bucket |-> ForEach(mem, b)]

(* The parser gets the name and the identifier out of every query, whether *)
(* or not an additional record follows, and turns away just the queries    *)
(* for the root and for anything but an A record.                          *)
QuestionRead ==
  \A n \in InUse :
    LET q == QueryOf(n) IN
    IF node[n].request \in rejected
    THEN q.type # TypeA \/ q.name = << >>
    ELSE q.type = TypeA /\ node[n].host = Dotted(q.name) /\ node[n].iden = q.iden

(* The address the walk over the records finds is that of the answer's     *)
(* first A record, or 0 where there is none, wherever an alias, an         *)
(* additional record or a name in full comes first; and the cache has no   *)
(* other address for the name.                                             *)
AddressRead ==
  /\ \A n \in InUse : \A records \in node[n].answer : node[n].ipv4 = AddressOf(records)
  /\ \A q \in Queries : Dotted(q.name) \in DOMAIN cache =>
       \E records \in Answers[q.name] : cache[Dotted(q.name)] = AddressOf(records)

(* A client can read its reply: it is for its identifier and its question, *)
(* and the one record in the answer section carries the address.  (Of a    *)
(* query that ends with its question, and for which the TTL is not looked  *)
(* at.)                                                                    *)
ReadsBack(r) ==
  /\ ReadReply(r.msg) =
       [iden |-> queries[r.request].iden, response |-> TRUE, counts |-> <<1, 1>>,
        type |-> TypeA, class |-> ClassIN, data |-> r.addr, left |-> 0]
  /\ Question(r.msg).host = Dotted(queries[r.request].name)
ReplyReadsBack == \A r \in replies : ~queries[r.request].edns => ReadsBack(r)

(* The same of all queries the parser accepts, also of those with an       *)
(* additional record ("set A Type Result", net_bundle_core.c:185).         *)
EveryReplyReadsBack ==
  \A r \in replies :
    ReadReply(r.msg).type = TypeA /\ ReadReply(r.msg).data = r.addr

(* Nothing but an answer with its identifier takes a request off the list, *)
(* and every such answer takes just one: a request whose query or answer   *)
(* got lost stays there, since nobody asks again or gives up on it.        *)
Having(requests, i) == Cardinality({r \in requests : queries[r].iden = i})
NothingForgotten ==
  ~broken => \A i \in Idens :
    Cardinality({n \in ToSet(Listed[BucketOf[i]]) : node[n].iden = i}) + Having(dups, i)
    = Having(asked, i) + Having(lost, i)
      + Cardinality({a \in arrived : queries[a.request].iden = i})

(* Whatever requests are listed, every operation of net_common_list.h      *)
(* leaves well-formed lists with the nodes it should.                      *)
ListOpsSound ==
  LET spare == Ptr \ (Bucket \cup Node) IN
  /\ Holds(mem, Listed)
  /\ \A b \in Bucket :
       /\ ForEachPrev(mem, b) = Reverse(Listed[b])
       /\ \A n \in ToSet(Listed[b]) : NodeOpsSound(mem, Listed, b, n, spare)
       /\ \A x \in spare : HeadOpsSound(mem, Listed, b, x)
       /\ \A c \in Bucket \ {b} : SpliceSound(mem, Listed, b, c)

(* The members of s that are in T, in their order.                         *)
Filter(s, T) ==
  LET upTo[i \in 0 .. Len(s)] ==
        IF i = 0 THEN << >>
        ELSE IF s[i] \in T THEN Append(upTo[i - 1], s[i]) ELSE upTo[i - 1]
  IN  upTo[Len(s)]

(* The buckets are queues of requests, one for each identifier. *)
WaitingFor(i) ==
  LET nodes == Filter(Listed[BucketOf[i]], {n \in Node : node[n].iden = i})
  IN  [k \in DOMAIN nodes |-> node[nodes[k]].request]
Pending == INSTANCE PendingQueues WITH waiting <- [i \in Idens |-> WaitingFor(i)]
ImplementsPending == Pending!Spec
=============================================================================
