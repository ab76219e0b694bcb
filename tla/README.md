# simp_dserver in TLA+

`simp_dserver` is a small DNS server for A queries. It answers from a cache filled from
`DNS.conf` and from earlier answers, and otherwise forwards the query to one upstream server. This
directory holds TLA+ models of it, the TLC configurations that check them on small instances, and
theorems about them that the TLAPS proof system checks. `PROJECT.json` relates every definition to
the source lines it models.

    tlc -workers 2 -config server_safety.cfg MCDnsServer     # any run: module and cfg below
    tlapm NetRingProofs.tla                                   # any module with theorems

## 1. The system

Four threads, each created by a module's `init` and set going by its `run`:

    clients --UDP--> [main: event loop]            net_bundle   udp_cb
                          | work ring
                          v
                     [worker: parse, search]       net_work     inside_loop, inside_parser
                 hit |            | miss
                     |            v forward ring
                     |       [forwarder] <--UDP--> upstream     net_forward  inside_loop, parse_response
                     |            |  inserts into the cache
                     v            v
                      bundle ring (two producers)
                          |
                          v
                     [responder] --UDP--> clients  net_bundle   inside_loop, write_back

| component | state it keeps | operations | what makes it correct |
|---|---|---|---|
| `net_ring` lock-free ring | four 32-bit cursors, slots | `create`, `enqueue`, `dequeue` | bounded FIFO: no item lost, repeated, overwritten or read before it is written; refusal only when full, and never below the size asked for; no thread waits for ever |
| `net_bundle` event loop and responder | sockets, bundle ring | UDP callback, responder loop, `write_back` | every datagram becomes one node; the reply can be read back; the responder frees the node exactly once after answering |
| `net_work` worker | work ring | parse, search, route | name and identifier are those of the query; accepted queries go to exactly one ring |
| `net_forward` forwarder | forward ring, hash list of forwarded requests, one event | `gethostaddr`, `parse_response`, loop | every answer releases the oldest request with its identifier, and the address is that of the answer's A record |
| `net_hashmap` cache | 1024 buckets: a read-write lock and a red-black tree each | `insert`, `search` | a dictionary in which the first insert wins |
| `net_xml` configuration | bind address, upstream address | `init`, `parse` | every well-formed setting of a readable file is served as it says; the records are in the cache before any thread runs |
| `net_common` list, node | the list of forwarded requests, the node passed along the rings | the operations of a kernel-style list; the server uses `list_add_tail`, `list_del` and one traversal | circles of pointers with the right nodes in the right order |
| `net_main` | | calls the `init` and `run` of each module in turn | every thread gets into its loop |
| libevent, libxml2, test programs | | | vendored or not part of the server |

The node that carries a query is passed by pointer and has one owner at a time; only the rings, the
list of forwarded requests and the cache are shared. What is hard here: the lock-free ring with
cursors that wrap and stale reads; four threads whose order decides who inserts and who answers;
datagrams lost, duplicated or reordered between forwarder and upstream; the results of `enqueue`
and of every `init` being ignored; octet and pointer code that walks over messages and lists with little checking; and a start-up rendezvous in which a mutex locked by one thread
is given up by another. `PROJECT.json` lists these hazards at their lines, with the properties
that cover each.

## 2. The modules

| module | what it is |
|---|---|
| `NetRing` | `net_ring_common.c`: enqueue and dequeue, one action per access to shared memory |
| `BoundedFifo` | what a ring promises: the bounded queue `NetRing` implements |
| `MCNetRing` | instances of the ring |
| `DataLemmas` | facts several proofs rest on: remainders, induction on numbers and sequences, following a link |
| `NetRingProofs` | the ring's theorems, and the proof that it implements `BoundedFifo` |
| `DnsServer` | the request path: event loop, worker, forwarder, responder, the three rings, the cache, the upstream server, interleaved |
| `DnsService` | what the server promises its clients, without threads and rings |
| `MCDnsServer` | instances of the server |
| `DnsServerProofs` | theorems about the server: its types, and what its cache and its answers hold; who owns a node, which answers find a request, and that it implements `DnsService` |
| `ListHead` | `net_common_list.h` on pointers, and what each operation has to do to the sequences of nodes |
| `DnsMessage` | messages as octets: the worker's parser, the forwarder's walk over records, the responder's reply; what clients and upstream send |
| `DnsMessageProofs` | what the parser, the walk over records and a client make of any query, answer and reply |
| `NetForward` | the request path octet by octet and pointer by pointer, one handler per step; extends `ListHead` and `DnsMessage` |
| `PendingQueues` | what the list of forwarded requests is for: a queue per identifier |
| `MCNetForward` | instances of `NetForward`: queries, answers, buckets |
| `NetForwardProofs` | theorems about the list of forwarded requests, about what nodes, cache and replies hold, and the proof that the list implements `PendingQueues` |
| `HostName` | how the hash map hashes and compares names, octet by octet |
| `NetHashmap` | the hash map: search and insert, one action per level of a tree, under the buckets' read-write locks |
| `RbTree` | the red-black tree: linking, rotations, one turn of `rb_insert_color`, and what makes a tree sound |
| `RbErase` | the rest of the tree's code: `rb_erase`, `rb_replace_node`, `rb_first`, `rb_last`, `rb_next`, `rb_prev` |
| `AddressBook` | what the hash map promises: a dictionary with atomic calls |
| `MCNetHashmap` | an instance of the hash map |
| `RbTreeProofs`, `NetHashmapProofs` | lemmas on inserting into the tree; theorems about the locks, the comparison, the trees and the walks over them, and the proof that the hash map implements `AddressBook` |
| `NetXmlConfig` | `DNS.conf`: loading, searching, parsing with the defaults, and what a sound file is |
| `NetStartup` | `main`, the `init` and `run` of each module, the threads up to their loops; extends `NetXmlConfig` |
| `MCNetStartup` | an instance of the start-up |
| `NetStartupProofs` | theorems about the start-up |

Two levels meet in `BoundedFifo` and in `AddressBook`. `NetRing` looks at one ring access by access
and is proved to implement the bounded queue; `NetHashmap` looks at the hash map node by node and is
proved to implement the dictionary. `DnsServer` then takes each ring for such a queue and the cache
for such a dictionary, so that a whole `enqueue`, `dequeue`, `search` or `insert` is one of its steps.

The request path is modelled twice, for two kinds of questions. `DnsServer` splits the handlers at every access to shared state and
keeps of a message what tells requests apart; `NetForward` runs each handler in one step, which `NodeOwnedOnce` of `DnsServer`,
a theorem, justifies (a node has one owner, so nobody sees it half done), and has the octets of messages and the pointers of lists.

**NetRing.** A cursor variable counts the steps the cursor has made; `U32` is what the 32-bit
field holds, and every comparison and subtraction of the code goes through it. The `pc` values name
the next access of a call. Two accesses are merged in one place only: the last load of
the spin on `prod.tail` (or `cons.tail`) and the store after it. `ProducersTurn` and
`ConsumersTurn`, both proved, are the reason: once the loop has seen its
turn nobody else writes the field. The steps interleave as if memory were
sequentially consistent. The code relies on x86, where stores are not reordered with stores nor
loads with loads; a store may be delayed past a later load, which here makes a cursor look older
to another thread than it is, and such stale reads are in the model anyway, since any number of
steps may come between a load and the use of what it returned. `NoLap` in `EnqClaim` states the
timing assumption of every such algorithm: no producer sleeps between its load of `prod.head` and
its `cmpset` for as long as the cursor takes to come round (2^32 enqueues).
`Size` is a parameter of the module; the instances take it from `AlignPow2(Requested)`, as `create` does.

**DnsServer.** Nodes are numbered in the order of their allocation and `req` says what datagram
each carries, so that `freed`, `lost` and the owner of a node can be stated. A thread's `Pc` stands
between two accesses to shared state. `OthersUnderWay` accounts for enqueues that are refused
although the queue has room, because another call holds a slot it has claimed and not yet
published or released: the proved `RefusedOnlyWhenFull` bounds it. The forwarder's loop is
modelled turn by turn, with `armed` for the event it has to add again every time. The parser's
outcome is in the datagram (`kind`); the record walk of `parse_response` is abstracted to the address it
finds, which is the right one only when the matched node has the name of the answer, because the
walk starts at an offset computed from that node's name (`ParsedAddr`). `MayMisread` adds what may come of the length
`udp_cb` passes to `recvfrom` without setting it: if it is negative the kernel has delivered the datagram when it fails the call, so
that the answer is matched but no record of it read. An answer that matches nothing leads to
undefined behaviour: the model stops there with `broken`. `forwarderUp` is a nondeterministic constant, for
`ring_init` returns a variable it does not set. With the build flags of `net_forward/Makefile`
(`-g`, no optimisation) the stack slot happens to hold the 0 the call before left; with
optimisation gcc turns the result into -1.

`Configured` are the records of `DNS.conf`. A record whose address `inet_pton` rejects is inserted
with the address 0, which a search cannot tell from an absent name: such a name is forwarded each
time, and `AddrOf` says so.

**DnsMessage, NetForward.** A message is the sequence of its octets, so the offsets in the model are the code's plus one, and
`WireQuery` and `WireAnswer` build what RFC 1035 lets clients and upstream send. `ReadReply` is a client that
reads the reply. `FindEntry` is the entry loop of the list with its `break`: when nothing matches it ends at the head, which is how
`ParseUnmatched` comes about. The loops over a list follow one pointer as far as the head comes round again (`Visited`); on a circle that
is what the code does, and that the pointers are circles is proved. `MessagesAssumption` says that what clients ask and upstream answers can be written as messages: labels of 1 to 63 octets, 16-bit words, data of a length that
fits into one. A query is zero behind its last octet (`Zero`), as `udp_cb` clears the node before it receives into it. Nodes are reused after they are freed. The hash of identifiers is a parameter (`BucketOf`), and
whether identifiers tell names apart is left to the queries: `IdensApart` says that they do. The instances meet it, the module does not assume it
(`server_iden` shows what happens when it fails).

**NetHashmap.** A key is a name and a node at once, for a name is stored at most once in its bucket; `Host` gives its octets.
The bucket is what `Hash` makes of these, with chars signed as on x86, and the way down is decided by `Strcmp`. A call
takes a step per level and per turn of the rebalancing, so that without the locks a search could meet a
half-rotated tree. The locks are shown by their holders: `readers` and `writer` of each bucket. The
larger name goes left, as the arguments of the comparison are swapped in the code (`Toward`). The
refinement maps the insertion to the moment the node is linked and the search to the moment it ends. That `malloc` fails is not an action: such an insert
returns before it has changed anything.

**RbTree.** A tree is a record of `root`, `child` (one function per side), `parent` and `red`; `Link`, `Rotate` and
`FixTurn` are functions from trees to trees, where one `Rotate` with a side stands for `rb_rotate_left` and
`rb_rotate_right`, and one `FixTurn` for both mirrored halves of the loop. `RedBlack` is the definition
the result is compared with: names in order, parents right, no red node under a red one,
as many black nodes on every path. `RbErase` adds what the server does not call; it is checked as operators on every tree
that the insertions of `hashmap` build: each name erased (`ErasesSoundly`), each walk (`WalksInOrder`), each node replaced
(`ReplacesInPlace`).

**NetXmlConfig.** A document is what libxml2 makes of the file: elements with names, attributes and children; a node pointer is the
sequence from the node on to its last sibling, so that `config_search_next` goes on where a search ended. `Sound` (the file can be read and has no
element twice) says when a file is clear about what its owner wants, `PortSound` and `ForwardSound` say of each address setting that its value is one the program can
use, all without reference to the search. A malformed value costs that setting only (`SoundFileServed`). The three encodings in `config_load` come out as one: the second and third
reading are judged by the root element of the first.

**NetStartup.** Main walks through the modules in order; `InitOps` lists the steps of an init in
the order of the code (the responder's thread before its ring). `pthread_cond_wait` gives up a
mutex that main holds: for the default mutex type glibc does so without a check, and the code
depends on it. Every failed call, and every return of a wait without a signal (`MayWake`), is recorded in `failed`: `NoNullRing` and `EveryThreadEntersLoop`
are stated for starts in which nothing is, for the waits stand in no loop and a spurious return can let the responder read a NULL ring.
`CreateRingUnset` is the return of `ring_init` in the forwarder, whose result is never set when all goes well: it ends the init before its list, mutex
and thread. It is recorded, too (`"ret"`). Main ignores what the inits return and goes on to serve: `ServesWithAllThreads` says, whatever fails, that a server that
serves lacks only threads of modules whose own init was cut short (`InitCutShort`), so neither the unset result nor an ignored failure of one module costs another its thread, and that
main does not end up anywhere else is `MainSettles`. The sockets take their addresses from the
configuration (`bound`, `upstream`).

## 3. The runs

| run | module | expected | what it shows |
|---|---|---|---|
| `ring_mpsc` | `MCNetRing` | pass | two producers and one consumer, as on the bundle ring: ordered cursors, published slots intact, delivery in order, refusal only when full and never below the size asked for, the refinement of `BoundedFifo`, and the ring emptied again and again; `RingInv` is the inductive invariant used in the proofs |
| `ring_consumers` | `MCNetRing` | pass | two consumers never share a claimed slot |
| `ring_mpmc` | `MCNetRing` | violation | two consumers, as in `net_ring_test.cc`: a consumer returns a slot nobody has published |
| `server_safety` | `MCDnsServer` | pass | one owner per node, a right cache and right answers, the refinement of `DnsService` |
| `server_live` | `MCDnsServer` | pass | with shared identifiers: every answer finds a listed request as long as none comes twice, and every accepted query is answered |
| `server_iden` | `MCDnsServer` | violation | equal identifiers: an answer goes to the wrong name |
| `server_dup` | `MCDnsServer` | violation | a duplicated answer: the list head is used as a node |
| `forward` | `MCNetForward` | pass | names, addresses and replies read and written right; each answer takes one request off; the refinement of `PendingQueues`; every list operation on every list that comes about |
| `reply_edns` | `MCNetForward` | violation | a query with an additional record: the client finds the OPT record where its answer should be |
| `forward_cname` | `MCNetForward` | violation | an alias whose target takes four octets is taken for the address |
| `startup` | `MCNetStartup` | pass | while nothing fails, no signal is lost and no ring used before it exists; a server that serves lacks only threads whose own init was cut short; every well-formed setting of a readable file is served as it says; where main can end up when something fails |
| `hashmap` | `MCNetHashmap` | pass | names inserted in every order while one is searched: sound red-black trees, erasing and walking included, nobody in a tree under change, the refinement of `AddressBook` |

The five violations are findings; `PROJECT.json` quotes what the code or a document says in each case.
Two more things a reader should know are shown without a violation: a name without an A record is answered with the address 0.0.0.0
(`AnswerFaithful` counts it as upstream's word), and the server may serve without its forwarder (`CreateRingUnset`, `ServesWithAllThreads`).

Bounds, and why they are enough:

* Ring: two items asked for, hence `Size = 4`, the smallest power of two with full, empty and both-in-between states apart; cursors of
  `CounterMod = 8` values instead of 2^32, so that all of them pass the wrap within the 9 enqueues of `ring_mpsc`
  (`FiveAndFour`). `MaxTakes` never binds the single consumer; it keeps two
  racing consumers, whose cursors run away, in a finite state space.
* Server: `MaxQueries` 3 (two clients, and one query more than a ring of `Capacity = 2` holds); capacity 5 where rings must not
  overflow (three queries and the two slots of calls under way). One duplicated answer (`MaxDups`) is enough to break the matching.
  `MayLose` lets any datagram to or from upstream get lost. Names: an ordinary one, one without an A record, one configured in `DNS.conf`
  (`GoodRecord`, or `BadRecord` for an address that could not be parsed).
* Forwarding: three requests for up to three of the names, two identifiers in one bucket, three nodes and two heads (and one spare for the operations that take a
  second list), one duplicate, losses. The queries are of type A, of another type, for the root, with an additional record or without; the
  answers have an alias before the address, two addresses, names in full and compressed, or no address at all.
* Hash map: one bucket, for buckets share nothing. Eight names is the smallest number for which an insertion is recoloured at one level and
  rotated higher up; one of them is inserted with two addresses and searched. One inserter and one searcher, as in the
  running server (main inserts only before the threads start); the theorem has any number of both.
* Start-up: `MayFail` and `MayWake` switch failures and spurious wakeups on; eight files: none, readable only in another encoding, as shipped, in another order with an empty port, with
  a number beyond 16 bits, with a bind address and a port that are neither beside a good upstream address, with a good bind address beside a malformed upstream address, with an element twice.

`CHECK_DEADLOCK FALSE` appears where the clients may have had their say, where an unmatched answer has ended the model, where `MaxTakes` has stopped the consumers, and in `startup`, where the program may exit or hang.

Fairness: the threads are endless loops around a 1 ms sleep or wait, so each is weakly fair as a
whole; in the ring each thread's next access is: `RingDrains` needs the scheduler to run every thread again and again and nothing else. Upstream is taken to answer in `server_live` only, where
nothing is lost. Clients, losses, duplications, failures and spurious wakeups have no fairness. At start-up main and the threads are scheduled.

`server_safety` assumes that identifiers tell names apart (two clients may share one for the same name): without it `CacheFaithful` and
`ImplementsService` are false, which is what `server_iden` shows of the code.

## 4. What is proved

All theorems hold for every value of the constants under the stated assumptions. Where an induction is needed it is over a set
(`LeastNat`, `Inductive`, `InductiveSeq` of `DataLemmas`: a set of numbers, or of sequences, that has the first and with each the next has all),
for the provers cannot instantiate a rule that has a formula as its parameter.

### The ring

* Any producers and consumers: `RingTypeOK`. At most as many consumers as a cursor has values: `RingConsumersTurn`.
* One consumer (`SingleConsumer`: any `c, d \in Consumers` are equal), any number of producers, any size and any
  cursor width that is a multiple of the size and at least twice as large: `RingInvariant`,
  `RingCursorsOrdered`, `RingPublishedIntact`, `RingDeliversInOrder`, `RingProducersTurn`, `RingRefusesOnlyWhenFull`,
  `RingImplementsFifo`; and with more slots than were asked for (`Requested < Size`), `RingRoomAsRequested`.

`CursorsOrdered` is not inductive: that a claim keeps it depends on what the claiming thread
found out some steps before. `RingInv` adds this knowledge for each place in a call. A producer
before its `cmpset` has seen room, and consumers can only add to it; the `cmpset` succeeds only if
`prod.head` is what it was (`CmpSetExact`, which uses `NoLap`), so the room is still there. Between claim
and publication the slot is the producer's: `ClaimsDistinct` and the bounds on the cursors keep
every other thread off it. The single consumer's own `cons.head` cannot change behind its back,
which makes the difference it computes exact; this step fails with two consumers, as `ring_mpmc` shows.
`DataLemmas` supplies the facts on `%`: distinct counts less than the modulus apart have distinct residues
(`EqualIfCongruent`), so neither slots nor wrapped cursors are confused.
The refinement maps publication to `Put`, the consumer's `cmpset` to `Take`, its release to `Return`, and every other step
to a stutter.

With several consumers the cursors run away and none of these bounds is left. What `ConsumersTurn` needs is a count, `HoldingInv`: the slots between `cons.tail` and
`cons.head` are as many as the consumers that hold one, and each holds one of them.

### The server

* Any clients, names, capacities, losses and duplications: `ServerTypeOK`, `ServerNodeOwnedOnce`, `ServerBrokenByDuplicate`;
  without duplicates (`MaxDups = 0`) `ServerEveryAnswerMatches`.
* If no two names share an identifier (`IdentifiersTellNames`) and no answer is misread (`~MayMisread`): `ServerCacheFaithful`,
  `ServerAnswerFaithful`, `ServerImplementsService`.

`FaithInv` follows a node along its way: what the worker found is the name's record, or the name is for
upstream to answer (`SearchedInv`); every node forwarded is such a one (`ForwardedInv`), so what it is matched with is the right
address for the cache and for the client (`MatchedInv`), and so is the address of every node handed to the
responder (`ReplyInv`). `ConfiguredCached` is needed because an insertion may only add a name without a configured record. That
nodes have one owner is not needed: whoever writes the address of a node writes the address of its name.
The first assumption enters at one step, `FwdMatch`, the one that `server_iden` shows to go wrong without it.

Ownership is a sum: how often a node occurs on each ring and on the list, and whether a thread has it in hand or it has been freed or lost, adds up to one. A step
takes one occurrence away and adds one elsewhere. `AtRest` is the strengthening: a thread between two calls has no node in hand.

`AnswersCovered` counts per identifier, for the forwarder goes by nothing else: the requests on their way to upstream and the answers on their way back
are no more than the listed requests with that identifier and the duplicates. It is an inequality because a request whose answer got lost stays listed.
So the forwarder meets an answer it has no request for only after some answer came twice, which is the way `server_dup` takes.

The refinement of `DnsService` takes the responder's sending for the reply and a refusal, by the parser or by a full ring, for the drop. It rests on `AnswerFaithful`
(the reply has the right address), on ownership (what is dropped or freed is not replied to later) and on `AcceptInv` (nothing but an accepted query gets past the worker, and what has
been replied to is freed).

### The list of forwarded requests

Any nodes, heads, hash of the identifiers, queries, answers, losses and duplications: `ForwardInvariant`,
`ForwardNothingForgotten`, `ForwardListOpsSound`, `ForwardImplementsPending`.

A list is a circle of pointers: `CirclePlaces` turns `IsCircle` into a statement about its places, and `AddTailCircle`, `DelCircle` and `SameCircle` say what
`list_add_tail`, `list_del` and a store elsewhere make of it. `Shape` puts the circles of all heads together: no node is in two of them, or in one of them twice. Without that
`list_del` of a node would break another bucket's circle. `ShapeListed` is the step from pointers to sequences: on such a memory the loops of the code visit just these nodes, so that
`Listed` is what the operations are supposed to make of it.

`ListInv` says besides where a node can be (`OwnedOnce`), what it carries while it waits (`Carried`: its request, the request's identifier, and by this its bucket), and that a request goes to
upstream once (`Requests`). That the identifier the forwarder reads in an answer is the one the client chose
(`QueryIden`, `AnswerIden`) needs the octets: the two octets of the identifier stay in front, whatever records and names follow. `Counted` then is
`NothingForgotten`, an equation for each identifier between nodes that wait and requests and answers under way, that every step keeps by adding one on both sides or
none.

For the refinement a bucket is filtered by identifier. Appending a node appends its request to the queue of its identifier and leaves the other queues of the bucket alone (`FilterAppend`);
the loop of `parse_response` stops at the first node with the identifier, which is the head of its queue, and cutting it out of the bucket is taking the tail of that queue (`FilterCut`).

`ForwardListOpsSound` is about the operations the server does not call, on the lists it has. Each says which links it sets (`AddsBetween`, `CutsAfter`, `Splices`) and that it leaves the pointers of other
lists alone (`Elsewhere`, `OtherCircles`). The operations at the tail are those at the front with `next` and `prev` exchanged (`Turned`, `AddTurned`, `SpliceTurned`), on the sequences backwards. `list_replace` reads `old->prev` again
after its first store, so that an empty head is a case of its own (`ReplaceHeadCircle`). The loop that deletes every node reads the next one before the node loses its pointers: `Left` says where it stands, at the first and the second
of what is left, and `TurnTakes` that a turn takes one node; it is a function on the turns, so the induction is on a number.

### Queries, answers and replies

* Any queries, answers, nodes, losses and duplications, shared identifiers included: `ForwardContents`, `ForwardQuestionRead`, `ForwardTypeOK`.
* If queries with one identifier are for one name (`IdensApart`) and the walk gets past the owner names of the answers (`OwnersReadable`): `ForwardReplyReadsBack`.
* If besides just the A records have four octets of data (`JustAddressesFour`) and no two names are spelled alike (`NamesApart`): `ForwardAddressRead`.

These are hypotheses of theorems and not assumptions of the module, because the code does not see to them: `server_iden` is an instance of the server without `IdensApart`, in which the cache
gets the address of another name, and `forward_cname` is an instance without `JustAddressesFour`, in which the conclusion of `ForwardAddressRead` fails.
(A label may hold a dot, so that `a.b` as one label and as two are spelled alike and share a record of the cache; this is what `NamesApart` keeps out.) `MCNetForward` assumes in its runs what holds of each instance, so
that the hypotheses are seen to be met by `forward`.

Below the state machine are the theorems of `DnsMessageProofs` on single messages: `QueryParsed`, `AnswerAddress`, `ReplyReads`. Each of the three loops of the code is a function on the places of a message that calls itself further
on, so the first thing to show is that there is such a function (`SpelledExists`, `WalkedExists`; `FlattenToExists` for the concatenation the messages are built with), by induction from the end. Then a message is
laid out: `MessageLayout` gives the place of every part behind the header, `LiesAt` says that a piece is found from some place on. On a name that lies there the parser spells the labels with dots between
(`QuestionSpells`), and on records that lie there the walk goes from one to the next (`RecordIsRead`, `WalkStep`), until the first with four octets of data decides (`FirstDecides`). That the walk
starts in the right place is `DottedLength`: the name on the wire is two octets longer than the name with dots.

`ContentInv` carries this through the server: a node that was not turned away has the octets of its query, its name and its identifier; an address in the cache is what the walk of some answer gave for a request for that name with the identifier of that answer, with the walk started where that request's name ends (`TakenFor`);
one in a node or a reply is 0 or was found in this way; the octets of a reply are made from the query it is for. It needs `ForwardInv`: the answer's identifier finds a node of the same identifier. More cannot be said
without `IdensApart`: the answer may be for another name, and the walk may start inside one of its records. With it `TakenForItsOwn` makes the answer one for the node's own name, so that the walk starts where that answer's records are, and
the theorems on single messages say what it reads.

### The hash map

* Any threads, buckets and names: `HashmapWriterAlone`; for any host names `StrcmpOrders`.
* If the keys are numbered in the order of their names (`NamesInOrder`): `HashmapTypeOK`, `HashmapTreesSound`, `HashmapWalkSound`, `HashmapImplementsBook`.

`LockInv` says that the holders of a lock are exactly the threads inside that tree (`HeldInside`) and that a writer is the only holder (`WriterHoldsAlone`); the trees play no part in it.

`StrcmpOrders` says that the comparison, signed octets, prefixes and limit of the length included, is a total order, hence that numbering the names in this order is possible.
`NamesInOrder` is an assumption of the theorems and not of the module, because a comparison that orders nothing must come out as unsound trees in the run. It holds of the instance `hashmap` checks.

`RbTreeProofs` gives each node the set of the nodes below it (`sub`), which is what a recursive definition of subtrees would compute: there is one such function for each tree
that comes about, linking adds the new node to the sets on its way (`OnTheWay`), and a rotation changes those of the two nodes it turns. `Heights` does the same for black heights. A tree under repair is a
red-black tree but for the one red node the inserter stands at (`AlmostRedBlack`); a turn of `rb_insert_color` moves this node up, or makes the tree red-black. `MapInv` joins that with the locks: only the
writer of a bucket sees such a tree. While a search goes down, the name it looks for is, if stored, below the node it is at; since it holds the read lock, no rotation can take the name away from there.
The refinement needs just this: a search that comes to an end without finding the name ends in a state in which the dictionary does not have it.

`WalkSound` is about recursive functions (`Walk`, and the climb in `Step`) over trees of any size. Such a function is pinned down without induction: `ListFrom` is one solution of its equation, and a set of nodes
where another solution differed would have no last member (`NoneSmaller`). What a walk yields is a `Listing`, a sequence that has each node of a set once and in the order of a value; there is only one (`ListingUnique`), so the
walk backwards is the walk forwards reversed. `LooseTree` is what walking needs of a tree, in any order of the nodes and whatever nodes outside it point at: it holds of a red-black tree from either side (`SearchTreeLoose`), and of the tree
after `rb_replace_node`, whose victim still points into it, in the order that gives the new name the place of the old one (`ReplacedLoose`).

### The start-up

Any file, any failures, any scheduling: `StartTypeOK`, `StartNoNullRing`, `StartServesWithAllThreads`, `StartSoundFileServed`. The assumptions are that a file is a tree with finite lists of elements
(`FilesAssumption`, which also gives `atoi` of each port), that `atoi` gives integers and that `inet_pton` accepts the addresses the program brings along.

`StartInv` says that main has done what the list of steps has before its place: while nothing has failed each ring asked for so far is there (`WorkedOff`), and a
thread gets past its wait only after its module's ring is there (`Entered`). This takes the order of `InitOps`: for the responder the ring is made after the thread, and only the mutex keeps the thread waiting.
`ThreadsInv` is about all starts, failures included: each module main has come to has its thread, or its init was cut short, or the thread's creation is among the steps still to come.
`ConfigInv` says that the settings are final (`Settled`) before the first module with a thread begins. That the search of `config_search_next` finds the elements a sound file has, in whatever order, is `LeastOf`: it stops at the first element with the name. `SoundPort` and
`SoundForward` then follow each setting by itself from the element to the variable.

### Only model-checked

* Liveness (`RingDrains`, `EveryQueryAnswered`, `EveryThreadEntersLoop`, `MainSettles`), which is out of the prover's reach.
* `EraseSound`: code the server does not call, checked on every tree the insertions build.

## 5. What is not modelled, and the plan

Not modelled, and why:

* libevent and libxml2: vendored headers of one (`src/net_bundle/event2`, more than two thirds of the repository's lines, which is why the map covers a small share of all lines although it covers most of the server's) and a system library. They
  enter as what the server relies on: an event that fires once and is added again, a document of elements.
* `net_xml_common`: `config_new`, `config_save`, `config_set_attr_value`, `config_add_node4` and `config_unlink_children4`. Nobody calls
  them, and what they do is libxml2's work.
* Command-line options, `daemon()`, the printing, the test programs.
* The TCP callback: it prints and returns, so a TCP client is never served. There is nothing to state about it.
* Functions that do nothing (`destroy`, `earse`), and `release`, which nobody calls.
* The hash of identifiers: its 32-bit arithmetic is beyond TLC's integers. Any function to buckets will do (`BucketOf`).
* The traversal macros of the list that differ from the modelled ones only in where they start or in the type they cast to.

Limits of what is modelled:

* `AddressRead` is proved for answers whose owner names are a pointer or are spelled out. An owner name that starts with a label and ends in a pointer, which RFC 1035 also
  allows, is skipped up to the first zero octet, which then is one of the record's type, so that the walk goes on one octet off; nothing is stated for such answers, nor for ones with a record of four octets
  that is not an address (`forward_cname`).
* The client of `ReplyReadsBack` does not look at the TTL. The code writes only its upper half, so it reads 0x00800000 seconds.
* A failing `malloc` in the UDP callback, whose result is not looked at.
* A file that cannot be read, one only a later encoding can read, and the value of a malformed setting: the program goes on with its defaults or with what `atoi` and `inet_pton` leave behind. The model does
  so too, but nothing is promised about what is then served.
* The results of the mutex and condition-variable calls (`net_work.c:178-190`, `net_forward.c:228-238`): they are taken as success, which is all that a default mutex on Linux can give.
* Messages longer than the buffers: queries are well-formed messages of RFC 1035.

What is left is a theorem: `EraseSound`, from the subtrees of `RbTreeProofs`.
