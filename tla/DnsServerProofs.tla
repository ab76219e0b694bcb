-------------------------- MODULE DnsServerProofs --------------------------
(***************************************************************************)
(* Proofs about the server, for any clients, names, ring sizes, losses and *)
(* duplications: what it tells its clients is right, as long as an         *)
(* identifier is not used for two names at a time; no node is ever lost    *)
(* out of sight or owned twice, and an answer always finds a listed        *)
(* request unless one came twice, by counting nodes and identifiers in     *)
(* sequences.  At the end, what follows from it all: the server implements *)
(* DnsService.                                                             *)
(***************************************************************************)
EXTENDS DnsServer, SequenceTheorems, FiniteSetTheorems, TLAPS

-----------------------------------------------------------------------------
(* Sequences of nodes: the rings, the list and the socket only ever gain   *)
(* the element appended to them.                                           *)

LEMMA InRange ==
  ASSUME NEW S, NEW s \in Seq(S), NEW x
  PROVE  /\ x \in Range(s) <=> \E i \in 1 .. Len(s) : s[i] = x
         /\ x \in Range(s) => x \in S
  BY LenProperties, ElementOfSeq DEF Range

LEMMA AppendRange ==
  ASSUME NEW S, NEW s \in Seq(S), NEW x \in S
  PROVE  /\ Append(s, x) \in Seq(S)
         /\ Len(Append(s, x)) = Len(s) + 1
         /\ \A y \in Range(Append(s, x)) : y \in Range(s) \/ y = x
  <1> DEFINE t == Append(s, x)
  <1>1. /\ t \in Seq(S) /\ Len(s) \in Nat
        /\ Len(t) = Len(s) + 1
        /\ \A i \in 1 .. Len(s) : t[i] = s[i]
        /\ t[Len(s) + 1] = x
    BY AppendProperties, LenProperties
  <1> HIDE DEF t
  <1>2. ASSUME NEW y \in Range(t) PROVE y \in Range(s) \/ y = x
    <2>1. PICK i \in 1 .. Len(t) : t[i] = y
      BY <1>1, InRange
    <2>2. CASE i \in 1 .. Len(s)
      BY <1>1, <2>1, <2>2, InRange
    <2>3. CASE i = Len(s) + 1
      BY <1>1, <2>1, <2>3
    <2> QED BY <1>1, <2>2, <2>3
  <1> QED BY <1>1, <1>2 DEF t

LEMMA TailRange ==
  ASSUME NEW S, NEW s \in Seq(S), s # << >>
  PROVE  /\ Head(s) \in S /\ Head(s) \in Range(s)
         /\ Tail(s) \in Seq(S)
         /\ Len(Tail(s)) = Len(s) - 1
         /\ Range(Tail(s)) \subseteq Range(s)
  <1> DEFINE t == Tail(s)
  <1>1. /\ Head(s) \in S /\ t \in Seq(S)
        /\ Len(t) = Len(s) - 1
        /\ \A i \in 1 .. Len(t) : t[i] = s[i + 1]
    BY HeadTailProperties
  <1>2. Len(s) \in Nat \ {0} /\ Head(s) = s[1]
    BY EmptySeq
  <1>3. Head(s) \in Range(s)
    BY <1>2, InRange
  <1> HIDE DEF t
  <1>4. ASSUME NEW y \in Range(t) PROVE y \in Range(s)
    <2>1. PICK i \in 1 .. Len(t) : t[i] = y
      BY <1>1, InRange
    <2>2. i + 1 \in 1 .. Len(s) /\ s[i + 1] = y
      BY <1>1, <1>2, <2>1
    <2> QED BY <2>2, InRange
  <1> QED BY <1>1, <1>3, <1>4 DEF t

LEMMA WithoutProperties ==
  ASSUME NEW S, NEW s \in Seq(S), NEW i \in 1 .. Len(s)
  PROVE  /\ WithoutElement(s, i) \in Seq(S)
         /\ Len(WithoutElement(s, i)) = Len(s) - 1
         /\ \A j \in 1 .. Len(s) - 1 :
              WithoutElement(s, i)[j] = IF j < i THEN s[j] ELSE s[j + 1]
  <1> DEFINE p == SubSeq(s, 1, i - 1)
             q == SubSeq(s, i + 1, Len(s))
  <1>1. Len(s) \in Nat
    BY LenProperties
  <1>2. /\ p \in Seq(S) /\ Len(p) = i - 1
        /\ \A j \in 1 .. i - 1 : p[j] = s[j]
    <2>1. \A j \in 1 .. i - 1 : s[j] \in S
      BY <1>1, ElementOfSeq
    <2>2. 1 \in Int /\ i - 1 \in Int
      BY <1>1
    <2>3. /\ p \in Seq(S) /\ Len(p) = IF 1 <= i - 1 THEN (i - 1) - 1 + 1 ELSE 0
          /\ \A j \in 1 .. (i - 1) - 1 + 1 : p[j] = s[1 + j - 1]
      BY <2>1, <2>2, SubSeqProperties
    <2> QED BY <1>1, <2>3
  <1>3. /\ q \in Seq(S) /\ Len(q) = Len(s) - i
        /\ \A j \in 1 .. Len(s) - i : q[j] = s[i + j]
    <2>1. \A j \in i + 1 .. Len(s) : s[j] \in S
      BY <1>1, ElementOfSeq
    <2>2. i + 1 \in Int /\ Len(s) \in Int
      BY <1>1
    <2>3. /\ q \in Seq(S)
          /\ Len(q) = IF i + 1 <= Len(s) THEN Len(s) - (i + 1) + 1 ELSE 0
          /\ \A j \in 1 .. Len(s) - (i + 1) + 1 : q[j] = s[i + 1 + j - 1]
      BY <2>1, <2>2, SubSeqProperties
    <2>4. \A j \in 1 .. Len(s) - i : q[j] = s[i + j]
      BY <1>1, <2>3
    <2> QED BY <1>1, <2>3, <2>4
  <1> HIDE DEF p, q
  <1> DEFINE t == p \o q
  <1>4. /\ t \in Seq(S) /\ Len(t) = Len(p) + Len(q)
        /\ \A j \in 1 .. Len(p) + Len(q) :
             t[j] = IF j <= Len(p) THEN p[j] ELSE q[j - Len(p)]
    BY <1>2, <1>3, ConcatProperties
  <1> HIDE DEF t
  <1>5. ASSUME NEW j \in 1 .. Len(s) - 1 PROVE t[j] = IF j < i THEN s[j] ELSE s[j + 1]
    <2>1. CASE j < i
      BY <1>1, <1>2, <1>3, <1>4, <2>1
    <2>2. CASE ~(j < i)
      <3>1. j - (i - 1) \in 1 .. Len(s) - i /\ i + (j - (i - 1)) = j + 1
        BY <1>1, <2>2
      <3>2. j \in 1 .. Len(p) + Len(q) /\ ~(j <= Len(p)) /\ j - Len(p) = j - (i - 1)
        BY <1>1, <1>2, <1>3, <2>2
      <3>3. t[j] = q[j - (i - 1)]
        BY <1>4, <3>2
      <3>4. q[j - (i - 1)] = s[j + 1]
        BY <1>3, <3>1
      <3> QED BY <2>2, <3>3, <3>4
    <2> QED BY <2>1, <2>2
  <1>6. Len(t) = Len(s) - 1
    BY <1>1, <1>2, <1>3, <1>4
  <1> QED BY <1>4, <1>5, <1>6 DEF WithoutElement, t, p, q

LEMMA WithoutRange ==
  ASSUME NEW S, NEW s \in Seq(S), NEW i \in 1 .. Len(s)
  PROVE  /\ WithoutElement(s, i) \in Seq(S)
         /\ Range(WithoutElement(s, i)) \subseteq Range(s)
  <1> DEFINE t == WithoutElement(s, i)
  <1>1. /\ t \in Seq(S) /\ Len(t) = Len(s) - 1 /\ Len(s) \in Nat
        /\ \A j \in 1 .. Len(s) - 1 : t[j] = IF j < i THEN s[j] ELSE s[j + 1]
    BY WithoutProperties, LenProperties
  <1> HIDE DEF t
  <1>2. ASSUME NEW y \in Range(t) PROVE y \in Range(s)
    <2>1. PICK j \in 1 .. Len(t) : t[j] = y
      BY <1>1, InRange
    <2>2. \E k \in 1 .. Len(s) : s[k] = y
      BY <1>1, <2>1
    <2> QED BY <2>2, InRange
  <1> QED BY <1>1, <1>2 DEF t

-----------------------------------------------------------------------------
(* The rings as a whole, for any set S that holds their nodes.             *)

LEMMA EnqueueRings ==
  ASSUME NEW S, ring \in [Rings -> Seq(S)], \A q \in Rings : Len(ring[q]) <= Capacity,
         lost \subseteq S, NEW r \in Rings, NEW n \in S, Enqueue(r, n)
  PROVE  /\ ring' \in [Rings -> Seq(S)] /\ \A q \in Rings : Len(ring'[q]) <= Capacity
         /\ lost' \subseteq S
         /\ \A q \in Rings : \A m \in Range(ring'[q]) :
              m \in Range(ring[q]) \/ (q = r /\ m = n)
  <1>1. CASE UNCHANGED ring /\ lost' = lost \cup {n}
    BY <1>1
  <1>2. CASE /\ Len(ring[r]) < Capacity
             /\ ring' = [ring EXCEPT ![r] = Append(@, n)] /\ UNCHANGED lost
    <2>1. ring[r] \in Seq(S)
      OBVIOUS
    <2>2. /\ Append(ring[r], n) \in Seq(S) /\ Len(Append(ring[r], n)) = Len(ring[r]) + 1
          /\ \A m \in Range(Append(ring[r], n)) : m \in Range(ring[r]) \/ m = n
      BY <2>1, AppendRange
    <2>3. Len(ring[r]) + 1 <= Capacity
      BY <1>2, <2>1, LenProperties, ServerAssumption
    <2> DEFINE t == Append(ring[r], n)
    <2>4. ring' = [ring EXCEPT ![r] = t]
      BY <1>2
    <2> HIDE DEF t
    <2>5. t \in Seq(S) /\ Len(t) <= Capacity
      BY <2>2, <2>3 DEF t
    <2>6. \A q \in Rings : ring'[q] = IF q = r THEN t ELSE ring[q]
      BY <2>4
    <2>7. ring' \in [Rings -> Seq(S)] /\ \A q \in Rings : Len(ring'[q]) <= Capacity
      BY <2>4, <2>5, <2>6
    <2>8. \A m \in Range(t) : m \in Range(ring[r]) \/ m = n
      BY <2>2 DEF t
    <2> QED BY <1>2, <2>6, <2>7, <2>8
  <1> QED BY <1>1, <1>2 DEF Enqueue

LEMMA DequeueRings ==
  ASSUME NEW S, ring \in [Rings -> Seq(S)], \A q \in Rings : Len(ring[q]) <= Capacity,
         NEW r \in Rings, NEW n, Dequeue(r, n)
  PROVE  /\ n \in S /\ n \in Range(ring[r])
         /\ ring' \in [Rings -> Seq(S)] /\ \A q \in Rings : Len(ring'[q]) <= Capacity
         /\ \A q \in Rings : Range(ring'[q]) \subseteq Range(ring[q])
  <1>1. ring[r] \in Seq(S) /\ ring[r] # << >> /\ n = Head(ring[r])
    BY DEF Dequeue
  <1> DEFINE t == Tail(ring[r])
  <1>2. /\ n \in S /\ n \in Range(ring[r])
        /\ t \in Seq(S) /\ Len(t) = Len(ring[r]) - 1 /\ Range(t) \subseteq Range(ring[r])
    BY <1>1, TailRange
  <1>3. ring' = [ring EXCEPT ![r] = t]
    BY DEF Dequeue
  <1> HIDE DEF t
  <1>4. Len(t) <= Capacity
    BY <1>1, <1>2, LenProperties, ServerAssumption
  <1>5. \A q \in Rings : ring'[q] = IF q = r THEN t ELSE ring[q]
    BY <1>3
  <1>6. ring' \in [Rings -> Seq(S)] /\ \A q \in Rings : Len(ring'[q]) <= Capacity
    BY <1>2, <1>3, <1>4, <1>5
  <1> QED BY <1>2, <1>5, <1>6

-----------------------------------------------------------------------------
(* Type correctness.  A thread that has a node in hand really has one.     *)

Holding ==
  /\ workPc # "idle" => workNode \in Nodes
  /\ fwdPc \in {"insert", "enqueue"} => fwdNode \in Nodes

TypeInv == TypeOK /\ Holding

LEMMA InitTypeInv == Init => TypeInv
  <1> SUFFICES ASSUME Init PROVE TypeInv
    OBVIOUS
  <1>1. \A S : << >> \in Seq(S) /\ Len(<< >>) = 0
    BY EmptySeq
  <1>2. DOMAIN cache \subseteq Names /\ Range(cache) \subseteq Addr
    BY ServerAssumption DEF Init, Range
  <1>3. Capacity \in Nat /\ MaxQueries \in Nat /\ MaxDups \in Nat
    BY ServerAssumption
  <1>4. /\ req \in Seq(Datagrams) /\ Len(req) <= MaxQueries
        /\ ring \in [Rings -> Seq(Nodes)] /\ \A r \in Rings : Len(ring[r]) <= Capacity
        /\ pending \in Seq(Nodes) /\ sock \in Seq(Nodes)
    BY <1>1, <1>3 DEF Init
  <1>5. ipv4 \in [Node -> Addr] /\ workAddr \in Addr
    BY DEF Init, Addr
  <1>6. /\ asked \subseteq Nodes /\ sent \subseteq [node : Nodes, addr : Addr]
        /\ freed \subseteq Nodes /\ lost \subseteq Nodes /\ dups \in 0 .. MaxDups
    BY <1>3 DEF Init
  <1> QED BY <1>2, <1>4, <1>5, <1>6 DEF Init, TypeInv, TypeOK, Holding

(* What is made of the nodes so far stays so when another is allocated.    *)
LEMMA ReceiveQueryTypes ==
  ASSUME TypeInv, NEW q \in Datagrams, ReceiveQuery(q)
  PROVE  TypeInv'
  <1> DEFINE n == Len(req) + 1
  <1>1. Len(req) \in Nat /\ MaxQueries \in Nat /\ req \in Seq(Datagrams) /\ n \in Node
    BY LenProperties, ServerAssumption DEF TypeInv, TypeOK, ReceiveQuery
  <1>2. req' \in Seq(Datagrams) /\ Len(req') = n /\ Len(req') <= MaxQueries
    BY <1>1, AppendRange DEF ReceiveQuery, Node
  <1>3. Nodes' = Nodes \cup {n} /\ Nodes \subseteq Nodes' /\ n \in Nodes'
    BY <1>1, <1>2 DEF Nodes
  <1>4. \A s \in Seq(Nodes) : s \in Seq(Nodes')
    BY <1>3, SeqMonotonic
  <1>5. /\ ring \in [Rings -> Seq(Nodes')] /\ \A r \in Rings : Len(ring[r]) <= Capacity
        /\ lost \subseteq Nodes'
    BY <1>3, <1>4 DEF TypeInv, TypeOK
  <1>6. /\ ring' \in [Rings -> Seq(Nodes')] /\ \A r \in Rings : Len(ring'[r]) <= Capacity
        /\ lost' \subseteq Nodes'
    <2>1. CASE q.kind = "empty"
      BY <1>3, <1>5, <2>1 DEF ReceiveQuery
    <2>2. CASE q.kind # "empty"
      <3>1. Enqueue("work", n) /\ "work" \in Rings
        BY <2>2 DEF ReceiveQuery, Rings
      <3> QED BY <1>3, <1>5, <3>1, EnqueueRings
    <2> QED BY <2>1, <2>2
  <1>7. UNCHANGED <<ipv4, freed, sent, cache, upstream, worker, forwarder, respNode, broken,
                    forwarderUp>>
    BY DEF ReceiveQuery, Alive
  <1>8. TypeOK'
    BY <1>2, <1>3, <1>4, <1>6, <1>7 DEF TypeInv, TypeOK, upstream, worker, forwarder
  <1>9. Holding'
    BY <1>3, <1>7 DEF TypeInv, Holding, worker, forwarder
  <1> QED BY <1>8, <1>9 DEF TypeInv

LEMMA WorkTypes ==
  ASSUME TypeInv, Work
  PROVE  TypeInv'
  <1> USE DEF TypeInv, TypeOK
  <1>1. Nodes' = Nodes
    BY DEF Work, WorkTake, WorkSearch, WorkRoute, nodes, Nodes
  <1>2. CASE WorkTake
    <2>1. PICK n \in Nodes :
            /\ Dequeue("work", n)
            /\ \/ workPc' = "search" /\ workNode' = n /\ UNCHANGED lost
               \/ lost' = lost \cup {n} /\ UNCHANGED <<workPc, workNode>>
      BY <1>2 DEF WorkTake
    <2>2. "work" \in Rings
      BY DEF Rings
    <2>3. ring' \in [Rings -> Seq(Nodes)] /\ \A q \in Rings : Len(ring'[q]) <= Capacity
      BY <2>1, <2>2, DequeueRings
    <2>4. /\ lost' \subseteq Nodes /\ workPc' \in {"idle", "search", "route"}
          /\ workNode' \in Nodes \cup {None} /\ (workPc' # "idle" => workNode' \in Nodes)
      BY <2>1 DEF Holding
    <2> QED BY <1>1, <1>2, <2>3, <2>4 DEF WorkTake, Alive, Holding, upstream, forwarder
  <1>3. CASE WorkSearch
    <2>1. Search(req[workNode].name) \in Addr
      BY DEF Search, Range, Addr
    <2> QED BY <1>1, <1>3, <2>1 DEF WorkSearch, Alive, Holding, nodes, upstream, forwarder
  <1>4. CASE WorkRoute
    <2>1. workNode \in Nodes /\ ipv4' \in [Node -> Addr]
      BY <1>4 DEF WorkRoute, Holding
    <2>2. PICK r \in Rings : Enqueue(r, workNode)
      BY <1>4 DEF WorkRoute, Rings
    <2>3. /\ ring' \in [Rings -> Seq(Nodes)] /\ \A q \in Rings : Len(ring'[q]) <= Capacity
          /\ lost' \subseteq Nodes
      BY <2>1, <2>2, EnqueueRings
    <2> QED BY <1>1, <1>4, <2>1, <2>3 DEF WorkRoute, Alive, Holding, upstream, forwarder, Addr
  <1> QED BY <1>2, <1>3, <1>4 DEF Work

LEMMA FwdTakeTypes ==
  ASSUME TypeInv, FwdTake
  PROVE  TypeInv'
  <1> USE DEF TypeInv, TypeOK
  <1>1. Nodes' = Nodes
    BY DEF FwdTake, nodes, Nodes
  <1>2. PICK n \in Nodes :
          Dequeue("forward", n) /\ pending' = Append(pending, n) /\ asked' = asked \cup {n}
    BY DEF FwdTake
  <1>3. "forward" \in Rings
    BY DEF Rings
  <1>4. ring' \in [Rings -> Seq(Nodes)] /\ \A q \in Rings : Len(ring'[q]) <= Capacity
    BY <1>2, <1>3, DequeueRings
  <1>5. pending' \in Seq(Nodes) /\ asked' \subseteq Nodes
    BY <1>2, AppendRange
  <1> QED BY <1>1, <1>4, <1>5 DEF FwdTake, Alive, Holding, nodes, worker

LEMMA FwdMatchTypes ==
  ASSUME TypeInv, FwdMatch
  PROVE  TypeInv'
  <1> USE DEF TypeInv, TypeOK
  <1>1. Nodes' = Nodes
    BY DEF FwdMatch, Nodes
  <1>2. sock # << >> /\ Head(sock) \in Nodes /\ sock' \in Seq(Nodes)
    BY TailRange DEF FwdMatch
  <1>3. PICK i \in 1 .. Len(pending) :
          /\ pending' = WithoutElement(pending, i) /\ fwdNode' = pending[i]
          /\ \E a \in ParsedAddr(pending[i], Head(sock)) :
               ipv4' = [ipv4 EXCEPT ![pending[i]] = a]
    BY LenProperties DEF FwdMatch
  <1>4. pending' \in Seq(Nodes) /\ fwdNode' \in Nodes
    BY <1>3, WithoutRange, ElementOfSeq
  <1>5. ParsedAddr(pending[i], Head(sock)) \subseteq Addr
    <2>1. req[Head(sock)] \in Datagrams
      BY <1>2, ElementOfSeq DEF Nodes
    <2> QED BY <2>1, ServerAssumption DEF ParsedAddr, UpstreamAddr, Addr
  <1>6. ipv4' \in [Node -> Addr]
    BY <1>3, <1>5
  <1> QED BY <1>1, <1>2, <1>4, <1>6 DEF FwdMatch, Alive, Holding, worker

LEMMA FwdTypes ==
  ASSUME TypeInv, Forward
  PROVE  TypeInv'
  <1> USE DEF TypeInv, TypeOK
  <1>1. CASE FwdNothingToTake \/ FwdPollNothing \/ FwdNoMatch
    BY <1>1 DEF FwdNothingToTake, FwdPollNothing, FwdNoMatch, Alive, Holding, Nodes, nodes,
                upstream, worker, forwarder
  <1>2. CASE FwdInsert
    <2>1. fwdNode \in Nodes /\ Nodes \subseteq Node
      BY <1>2, LenProperties, ServerAssumption DEF FwdInsert, Holding, Nodes, Node
    <2>2. req[fwdNode].name \in Names /\ ipv4[fwdNode] \in Addr
      BY <2>1, ElementOfSeq, ServerAssumption DEF Nodes
    <2>3. DOMAIN cache' \subseteq Names /\ Range(cache') \subseteq Addr
      BY <1>2, <2>2 DEF FwdInsert, Insert, Range
    <2> QED BY <1>2, <2>3 DEF FwdInsert, Alive, Holding, Nodes, nodes, upstream, worker
  <1>3. CASE FwdEnqueue
    <2>1. fwdNode \in Nodes /\ "bundle" \in Rings /\ Nodes' = Nodes
      BY <1>3 DEF FwdEnqueue, Holding, Rings, Nodes
    <2>2. /\ ring' \in [Rings -> Seq(Nodes)] /\ \A q \in Rings : Len(ring'[q]) <= Capacity
          /\ lost' \subseteq Nodes
      BY <1>3, <2>1, EnqueueRings DEF FwdEnqueue
    <2> QED BY <1>3, <2>1, <2>2 DEF FwdEnqueue, Alive, Holding, upstream, worker
  <1> QED BY <1>1, <1>2, <1>3, FwdTakeTypes, FwdMatchTypes DEF Forward

LEMMA RespondTypes ==
  ASSUME TypeInv, Respond
  PROVE  TypeInv'
  <1> USE DEF TypeInv, TypeOK
  <1>1. Nodes' = Nodes
    BY DEF Respond, RespTake, RespSend, nodes, Nodes
  <1>2. CASE RespTake
    <2>1. PICK n \in Nodes : Dequeue("bundle", n) /\ respNode' = n
      BY <1>2 DEF RespTake
    <2>2. "bundle" \in Rings
      BY DEF Rings
    <2>3. ring' \in [Rings -> Seq(Nodes)] /\ \A q \in Rings : Len(ring'[q]) <= Capacity
      BY <2>1, <2>2, DequeueRings
    <2> QED BY <1>1, <1>2, <2>1, <2>3 DEF RespTake, Alive, Holding, nodes, upstream, worker, forwarder
  <1>3. CASE RespSend
    <2>1. respNode \in Nodes /\ respNode \in Node
      BY <1>3, LenProperties, ServerAssumption DEF RespSend, Nodes, Node
    <2>2. [node |-> respNode, addr |-> ipv4[respNode]] \in [node : Nodes, addr : Addr]
      BY <2>1
    <2> QED BY <1>1, <1>3, <2>1, <2>2 DEF RespSend, Alive, Holding, upstream, worker, forwarder
  <1> QED BY <1>2, <1>3 DEF Respond

LEMMA UpstreamTypes ==
  ASSUME TypeInv, Upstream
  PROVE  TypeInv'
  <1> USE DEF TypeInv, TypeOK
  <1>1. PICK n \in Nodes : UpstreamAnswer(n) \/ UpstreamAnswerTwice(n) \/ UpstreamLoss(n)
    BY DEF Upstream
  <1>2. Nodes' = Nodes
    BY <1>1 DEF UpstreamAnswer, UpstreamAnswerTwice, UpstreamLoss, nodes, Nodes
  <1>3. sock' \in Seq(Nodes) /\ asked' \subseteq Nodes
    <2>1. Append(sock, n) \in Seq(Nodes)
      BY AppendRange
    <2> QED BY <1>1, <2>1 DEF UpstreamAnswer, UpstreamAnswerTwice, UpstreamLoss
  <1>4. dups' \in 0 .. MaxDups
    BY <1>1, ServerAssumption DEF UpstreamAnswer, UpstreamAnswerTwice, UpstreamLoss
  <1> QED BY <1>1, <1>2, <1>3, <1>4
      DEF UpstreamAnswer, UpstreamAnswerTwice, UpstreamLoss, Alive, Holding, nodes, worker, forwarder

LEMMA NextTypeInv == TypeInv /\ [Next]_vars => TypeInv'
  <1> SUFFICES ASSUME TypeInv, [Next]_vars PROVE TypeInv'
    OBVIOUS
  <1>1. CASE UNCHANGED vars
    BY <1>1 DEF TypeInv, TypeOK, Holding, Nodes, vars, nodes, upstream, worker, forwarder
  <1>2. CASE Main
    BY <1>2, ReceiveQueryTypes DEF Main
  <1> QED BY <1>1, <1>2, WorkTypes, FwdTypes, RespondTypes, UpstreamTypes DEF Next

(* Every variable keeps its type: nodes on rings, lists and sockets are    *)
(* ones that have been allocated, and no ring exceeds its capacity.        *)
THEOREM ServerTypeOK == Spec => []TypeOK
  <1>1. TypeInv => TypeOK
    BY DEF TypeInv
  <1> QED BY <1>1, InitTypeInv, NextTypeInv, PTL DEF Spec

-----------------------------------------------------------------------------
(* What the answers rest on, along the way of a node from the worker's     *)
(* search to the reply.  Nodes need not be told apart for this: whoever    *)
(* writes the address of a node writes the address of its name.            *)

IdentifiersTellNames == \A d, e \in Datagrams : d.iden = e.iden => d.name = e.name

NameOf(n) == req[n].name
ByUpstream(n) == AddrOf(NameOf(n)) = UpstreamAddr(NameOf(n))

ConfiguredCached == DOMAIN Configured \subseteq DOMAIN cache

(* The worker has found the name's record, or the name is for upstream.    *)
SearchedInv ==
  workPc = "route" =>
    /\ workAddr \in {NoAddr, RecordOf(NameOf(workNode))}
    /\ workAddr = NoAddr => ByUpstream(workNode)

ForwardedInv == \A n \in Range(ring["forward"]) \cup Range(pending) : ByUpstream(n)

MatchedInv ==
  fwdPc \in {"insert", "enqueue"} =>
    ByUpstream(fwdNode) /\ ipv4[fwdNode] = UpstreamAddr(NameOf(fwdNode))

ReplyInv ==
  /\ \A n \in Range(ring["bundle"]) : ipv4[n] = AddrOf(NameOf(n))
  /\ respNode # None => ipv4[respNode] = AddrOf(NameOf(respNode))

FaithInv ==
  /\ CacheFaithful /\ ConfiguredCached
  /\ SearchedInv /\ ForwardedInv /\ MatchedInv /\ ReplyInv
  /\ AnswerFaithful

LEMMA Records ==
  ASSUME NEW name
  PROVE  /\ RecordOf(name) # NoAddr => AddrOf(name) = RecordOf(name)
         /\ RecordOf(name) = NoAddr => AddrOf(name) = UpstreamAddr(name)
         /\ name \notin DOMAIN Configured =>
              RecordOf(name) = UpstreamAddr(name) /\ AddrOf(name) = UpstreamAddr(name)
  BY DEF AddrOf, RecordOf

LEMMA InitFaithInv == Init => FaithInv
  <1> SUFFICES ASSUME Init PROVE FaithInv
    OBVIOUS
  <1>1. \A n : n \notin Range(<< >>)
    BY DEF Range
  <1>2. CacheFaithful /\ ConfiguredCached
    BY DEF Init, CacheFaithful, ConfiguredCached, RecordOf
  <1>3. ForwardedInv /\ ReplyInv
    BY <1>1 DEF Init, ForwardedInv, ReplyInv, Rings
  <1>4. SearchedInv /\ MatchedInv /\ AnswerFaithful
    BY DEF Init, SearchedInv, MatchedInv, AnswerFaithful
  <1> QED BY <1>2, <1>3, <1>4 DEF FaithInv

(* The nodes on the way are nodes. *)
LEMMA OnTheWay ==
  ASSUME TypeInv
  PROVE  /\ \A r \in Rings : Range(ring[r]) \subseteq Nodes
         /\ Range(pending) \subseteq Nodes
         /\ Nodes \subseteq Node
         /\ \A n \in Nodes : req[n] \in Datagrams
  <1>1. \A r \in Rings : ring[r] \in Seq(Nodes)
    BY DEF TypeInv, TypeOK
  <1>2. pending \in Seq(Nodes) /\ req \in Seq(Datagrams) /\ Len(req) <= MaxQueries
    BY DEF TypeInv, TypeOK
  <1>3. \A r \in Rings : Range(ring[r]) \subseteq Nodes
    BY <1>1, InRange
  <1>4. Range(pending) \subseteq Nodes
    BY <1>2, InRange
  <1>5. Nodes \subseteq Node
    BY <1>2, LenProperties, ServerAssumption DEF Nodes, Node
  <1>6. \A n \in Nodes : req[n] \in Datagrams
    BY <1>2, ElementOfSeq DEF Nodes
  <1> QED BY <1>3, <1>4, <1>5, <1>6

(* A new node changes nothing for those on the way. *)
LEMMA ReceiveQueryFaith ==
  ASSUME TypeInv, FaithInv, NEW q \in Datagrams, ReceiveQuery(q)
  PROVE  FaithInv'
  <1>1. \A n \in Nodes : NameOf(n)' = NameOf(n)
    <2>1. req \in Seq(Datagrams)
      BY DEF TypeInv, TypeOK
    <2> QED BY <2>1, AppendProperties DEF ReceiveQuery, NameOf, Nodes
  <1>2. ring'["forward"] = ring["forward"] /\ ring'["bundle"] = ring["bundle"]
    BY DEF ReceiveQuery, Enqueue, Rings, TypeInv, TypeOK
  <1>3. /\ Range(ring["forward"]) \subseteq Nodes /\ Range(ring["bundle"]) \subseteq Nodes
        /\ Range(pending) \subseteq Nodes
    BY OnTheWay DEF Rings
  <1>4. UNCHANGED <<ipv4, sent, cache, worker, forwarder, respNode>>
    BY DEF ReceiveQuery
  <1>5. CacheFaithful' /\ ConfiguredCached'
    BY <1>4 DEF FaithInv, CacheFaithful, ConfiguredCached
  <1>6. SearchedInv' /\ MatchedInv'
    BY <1>1, <1>4
    DEF FaithInv, SearchedInv, MatchedInv, ByUpstream, worker, forwarder, TypeInv, Holding
  <1>7. ForwardedInv'
    BY <1>1, <1>2, <1>3, <1>4 DEF FaithInv, ForwardedInv, ByUpstream, forwarder
  <1>8. ReplyInv'
    BY <1>1, <1>2, <1>3, <1>4 DEF FaithInv, ReplyInv, TypeInv, TypeOK
  <1>9. AnswerFaithful'
    BY <1>1, <1>4 DEF FaithInv, AnswerFaithful, TypeInv, TypeOK, NameOf
  <1> QED BY <1>5, <1>6, <1>7, <1>8, <1>9 DEF FaithInv

(* The worker searches: a name the cache does not have has no configured   *)
(* record, so it is upstream's to answer.                                  *)
LEMMA WorkSearchFaith ==
  ASSUME TypeInv, FaithInv, WorkSearch
  PROVE  FaithInv'
  <1> DEFINE name == NameOf(workNode)
  <1>1. /\ UNCHANGED <<req, ipv4, sent, ring, cache, workNode, pending, fwdPc, fwdNode, respNode>>
        /\ workAddr' = Search(name)
    BY DEF WorkSearch, nodes, forwarder, NameOf
  <1>2. Search(name) \in {NoAddr, RecordOf(name)}
    BY DEF Search, FaithInv, CacheFaithful
  <1>3. Search(name) = NoAddr => ByUpstream(workNode)
    BY Records DEF Search, FaithInv, CacheFaithful, ConfiguredCached, ByUpstream
  <1>4. SearchedInv'
    BY <1>1, <1>2, <1>3 DEF SearchedInv, ByUpstream, NameOf
  <1> QED BY <1>1, <1>4
      DEF FaithInv, CacheFaithful, ConfiguredCached, ForwardedInv, MatchedInv, ReplyInv,
          AnswerFaithful, ByUpstream, NameOf

LEMMA WorkTakeFaith ==
  ASSUME TypeInv, FaithInv, WorkTake
  PROVE  FaithInv'
  <1>1. /\ UNCHANGED <<req, ipv4, sent, cache, pending, fwdPc, fwdNode, respNode>>
        /\ workPc' # "route"
    BY DEF WorkTake, forwarder
  <1>2. ring'["forward"] = ring["forward"] /\ ring'["bundle"] = ring["bundle"]
    BY DEF WorkTake, Dequeue, Rings, TypeInv, TypeOK
  <1> QED BY <1>1, <1>2
      DEF FaithInv, CacheFaithful, ConfiguredCached, SearchedInv, ForwardedInv, MatchedInv, ReplyInv,
          AnswerFaithful, ByUpstream, NameOf

(* The worker routes: a node it gives an address gets the one of its name. *)
LEMMA WorkRouteFaith ==
  ASSUME TypeInv, FaithInv, WorkRoute
  PROVE  FaithInv'
  <1>1. /\ UNCHANGED <<req, sent, cache, pending, fwdPc, fwdNode, respNode>>
        /\ workPc' # "route"
    BY DEF WorkRoute, forwarder
  <1>2. workNode \in Nodes /\ lost \subseteq Nodes
    BY DEF TypeInv, TypeOK, Holding, WorkRoute
  <1>3. CASE workAddr = NoAddr
    <2>1. Enqueue("forward", workNode) /\ UNCHANGED ipv4 /\ ByUpstream(workNode)
      BY <1>3 DEF WorkRoute, FaithInv, SearchedInv
    <2>2. /\ \A m \in Range(ring'["forward"]) : m \in Range(ring["forward"]) \/ m = workNode
          /\ \A m \in Range(ring'["bundle"]) : m \in Range(ring["bundle"])
      BY <1>2, <2>1, EnqueueRings DEF Rings, TypeInv, TypeOK
    <2> QED BY <1>1, <2>1, <2>2
        DEF FaithInv, CacheFaithful, ConfiguredCached, SearchedInv, ForwardedInv, MatchedInv, ReplyInv,
            AnswerFaithful, ByUpstream, NameOf
  <1>4. CASE workAddr # NoAddr
    <2>1. /\ Enqueue("bundle", workNode) /\ ipv4' = [ipv4 EXCEPT ![workNode] = workAddr]
          /\ workAddr = AddrOf(NameOf(workNode))
      BY <1>4, Records DEF WorkRoute, FaithInv, SearchedInv
    <2>2. /\ \A m \in Range(ring'["forward"]) : m \in Range(ring["forward"])
          /\ \A m \in Range(ring'["bundle"]) : m \in Range(ring["bundle"]) \/ m = workNode
      BY <1>2, <2>1, EnqueueRings DEF Rings, TypeInv, TypeOK
    <2>3. \A n \in Node : ipv4'[n] = IF n = workNode THEN AddrOf(NameOf(n)) ELSE ipv4[n]
      BY <2>1 DEF TypeInv, TypeOK
    <2>4. MatchedInv'
      <3> SUFFICES ASSUME fwdPc \in {"insert", "enqueue"}
                   PROVE  ByUpstream(fwdNode) /\ ipv4'[fwdNode] = UpstreamAddr(NameOf(fwdNode))
        BY <1>1 DEF MatchedInv, ByUpstream, NameOf
      <3>1. fwdNode \in Node
        BY OnTheWay DEF TypeInv, Holding
      <3> QED BY <2>3, <3>1 DEF FaithInv, MatchedInv, ByUpstream
    <2>5. ReplyInv'
      <3>1. Range(ring["bundle"]) \subseteq Node /\ workNode \in Node
            /\ (respNode # None => respNode \in Node)
        BY <1>2, OnTheWay DEF Rings, TypeInv, TypeOK
      <3> QED BY <1>1, <2>2, <2>3, <3>1 DEF FaithInv, ReplyInv, NameOf
    <2> QED BY <1>1, <2>2, <2>4, <2>5
        DEF FaithInv, CacheFaithful, ConfiguredCached, SearchedInv, ForwardedInv,
            AnswerFaithful, ByUpstream, NameOf
  <1> QED BY <1>3, <1>4

LEMMA FwdTakeFaith ==
  ASSUME TypeInv, FaithInv, FwdTake
  PROVE  FaithInv'
  <1>1. /\ UNCHANGED <<req, ipv4, sent, cache, workPc, workNode, workAddr, fwdNode, respNode>>
        /\ fwdPc' = "poll"
    BY DEF FwdTake, nodes, worker
  <1>2. PICK n \in Nodes : Dequeue("forward", n) /\ pending' = Append(pending, n)
    BY DEF FwdTake
  <1>3. /\ n \in Range(ring["forward"])
        /\ Range(ring'["forward"]) \subseteq Range(ring["forward"])
        /\ Range(ring'["bundle"]) \subseteq Range(ring["bundle"])
    BY <1>2, DequeueRings DEF Rings, TypeInv, TypeOK
  <1>4. \A m \in Range(pending') : m \in Range(pending) \/ m = n
    BY <1>2, AppendRange DEF TypeInv, TypeOK
  <1> QED BY <1>1, <1>3, <1>4
      DEF FaithInv, CacheFaithful, ConfiguredCached, SearchedInv, ForwardedInv, MatchedInv, ReplyInv,
          AnswerFaithful, ByUpstream, NameOf

(* The forwarder's turn without a node or an answer. *)
LEMMA FwdIdleFaith ==
  ASSUME FaithInv, FwdNothingToTake \/ FwdPollNothing \/ FwdNoMatch
  PROVE  FaithInv'
  <1>1. /\ UNCHANGED <<nodes, ring, cache, worker, fwdNode, pending, respNode>>
        /\ fwdPc' \notin {"insert", "enqueue"}
    BY DEF FwdNothingToTake, FwdPollNothing, FwdNoMatch, forwarder
  <1> QED BY <1>1
      DEF FaithInv, CacheFaithful, ConfiguredCached, SearchedInv, ForwardedInv, MatchedInv, ReplyInv,
          AnswerFaithful, ByUpstream, NameOf, nodes, worker

(* An answer is matched: with the identifier the name is the same, so the  *)
(* address found is the one upstream gives of the matched node's name.     *)
LEMMA FwdMatchFaith ==
  ASSUME IdentifiersTellNames, ~MayMisread, TypeInv, FaithInv, FwdMatch
  PROVE  FaithInv'
  <1> DEFINE answer == Head(sock)
  <1>1. PICK i \in 1 .. Len(pending) :
          /\ FirstMatch(i, answer)
          /\ pending' = WithoutElement(pending, i) /\ fwdNode' = pending[i]
          /\ \E a \in ParsedAddr(pending[i], answer) :
               ipv4' = [ipv4 EXCEPT ![pending[i]] = a]
    <2>1. DOMAIN pending = 1 .. Len(pending)
      BY LenProperties DEF TypeInv, TypeOK
    <2> QED BY <2>1 DEF FwdMatch
  <1> DEFINE n == pending[i]
  <1>2. /\ UNCHANGED <<req, sent, ring, cache, workPc, workNode, workAddr, respNode>>
        /\ fwdPc' = "insert"
    BY DEF FwdMatch, worker
  <1>3. /\ pending \in Seq(Nodes) /\ sock \in Seq(Nodes) /\ sock # << >>
        /\ ipv4 \in [Node -> Addr]
    BY DEF TypeInv, TypeOK, FwdMatch
  <1>4. n \in Range(pending) /\ n \in Nodes /\ n \in Node /\ answer \in Nodes
    BY <1>1, <1>3, InRange, TailRange, OnTheWay
  <1>5. NameOf(n) = NameOf(answer)
    BY <1>1, <1>4, OnTheWay DEF FirstMatch, Matches, IdentifiersTellNames, NameOf
  <1>6. ByUpstream(n)
    BY <1>4 DEF FaithInv, ForwardedInv
  <1>7. \A m \in Node : ipv4'[m] = IF m = n THEN UpstreamAddr(NameOf(n)) ELSE ipv4[m]
    BY <1>1, <1>3, <1>4, <1>5 DEF ParsedAddr, NameOf
  <1>8. Range(pending') \subseteq Range(pending)
    BY <1>1, <1>3, WithoutRange
  <1>9. ForwardedInv'
    BY <1>2, <1>8 DEF FaithInv, ForwardedInv, ByUpstream, NameOf
  <1>10. MatchedInv'
    BY <1>1, <1>2, <1>4, <1>6, <1>7 DEF MatchedInv, ByUpstream, NameOf
  <1>11. ReplyInv'
    <2>1. Range(ring["bundle"]) \subseteq Node /\ (respNode # None => respNode \in Node)
      BY OnTheWay DEF Rings, TypeInv, TypeOK
    <2> QED BY <1>2, <1>6, <1>7, <2>1 DEF FaithInv, ReplyInv, ByUpstream, NameOf
  <1> QED BY <1>2, <1>9, <1>10, <1>11
      DEF FaithInv, CacheFaithful, ConfiguredCached, SearchedInv, AnswerFaithful, ByUpstream, NameOf

(* The forwarder inserts: a name the cache does not have yet has no        *)
(* configured record, so upstream's address is the right one to keep.      *)
LEMMA FwdInsertFaith ==
  ASSUME FaithInv, FwdInsert
  PROVE  FaithInv'
  <1> DEFINE name == NameOf(fwdNode)
  <1>1. /\ UNCHANGED <<req, ipv4, sent, ring, workPc, workNode, workAddr, fwdNode, pending, respNode>>
        /\ fwdPc = "insert" /\ Insert(name, ipv4[fwdNode])
    BY DEF FwdInsert, nodes, worker, NameOf
  <1>2. ipv4[fwdNode] = UpstreamAddr(name) /\ ByUpstream(fwdNode)
    BY <1>1 DEF FaithInv, MatchedInv
  <1>3. /\ DOMAIN cache' = DOMAIN cache \cup {name}
        /\ \A x \in DOMAIN cache : cache'[x] = cache[x]
        /\ name \notin DOMAIN cache => cache'[name] = UpstreamAddr(name)
    BY <1>1, <1>2 DEF Insert
  <1>4. name \notin DOMAIN cache => RecordOf(name) = UpstreamAddr(name)
    BY Records DEF FaithInv, ConfiguredCached
  <1>5. CacheFaithful' /\ ConfiguredCached'
    BY <1>3, <1>4 DEF FaithInv, CacheFaithful, ConfiguredCached
  <1>6. MatchedInv'
    BY <1>1, <1>2 DEF MatchedInv, ByUpstream, NameOf
  <1> QED BY <1>1, <1>5, <1>6
      DEF FaithInv, SearchedInv, ForwardedInv, ReplyInv, AnswerFaithful, ByUpstream, NameOf

LEMMA FwdEnqueueFaith ==
  ASSUME TypeInv, FaithInv, FwdEnqueue
  PROVE  FaithInv'
  <1>1. /\ UNCHANGED <<req, ipv4, sent, cache, workPc, workNode, workAddr, pending, respNode>>
        /\ fwdPc = "enqueue" /\ fwdPc' = "take" /\ Enqueue("bundle", fwdNode)
    BY DEF FwdEnqueue, worker
  <1>2. fwdNode \in Nodes
    BY <1>1 DEF TypeInv, Holding
  <1>3. ipv4[fwdNode] = AddrOf(NameOf(fwdNode))
    BY <1>1 DEF FaithInv, MatchedInv, ByUpstream
  <1>4. /\ \A m \in Range(ring'["forward"]) : m \in Range(ring["forward"])
        /\ \A m \in Range(ring'["bundle"]) : m \in Range(ring["bundle"]) \/ m = fwdNode
    BY <1>1, <1>2, EnqueueRings DEF Rings, TypeInv, TypeOK
  <1> QED BY <1>1, <1>3, <1>4
      DEF FaithInv, CacheFaithful, ConfiguredCached, SearchedInv, ForwardedInv, MatchedInv, ReplyInv,
          AnswerFaithful, ByUpstream, NameOf

LEMMA RespondFaith ==
  ASSUME TypeInv, FaithInv, Respond
  PROVE  FaithInv'
  <1>1. UNCHANGED <<req, ipv4, cache, workPc, workNode, workAddr, fwdPc, fwdNode, pending>>
    BY DEF Respond, RespTake, RespSend, nodes, worker, forwarder
  <1>2. CASE RespTake
    <2>1. PICK n \in Nodes : Dequeue("bundle", n) /\ respNode' = n
      BY <1>2 DEF RespTake
    <2>2. /\ n \in Range(ring["bundle"])
          /\ Range(ring'["forward"]) \subseteq Range(ring["forward"])
          /\ Range(ring'["bundle"]) \subseteq Range(ring["bundle"])
      BY <2>1, DequeueRings DEF Rings, TypeInv, TypeOK
    <2>3. UNCHANGED sent
      BY <1>2 DEF RespTake, nodes
    <2> QED BY <1>1, <2>1, <2>2, <2>3
        DEF FaithInv, CacheFaithful, ConfiguredCached, SearchedInv, ForwardedInv, MatchedInv, ReplyInv,
            AnswerFaithful, ByUpstream, NameOf
  <1>3. CASE RespSend
    <2>1. /\ respNode # None /\ respNode' = None /\ UNCHANGED ring
          /\ sent' = sent \cup {[node |-> respNode, addr |-> ipv4[respNode]]}
      BY <1>3 DEF RespSend
    <2>2. ipv4[respNode] = AddrOf(NameOf(respNode))
      BY <2>1 DEF FaithInv, ReplyInv
    <2>3. AnswerFaithful'
      BY <1>1, <2>1, <2>2 DEF FaithInv, AnswerFaithful, NameOf
    <2> QED BY <1>1, <2>1, <2>3
        DEF FaithInv, CacheFaithful, ConfiguredCached, SearchedInv, ForwardedInv, MatchedInv, ReplyInv,
            ByUpstream, NameOf
  <1> QED BY <1>2, <1>3 DEF Respond

LEMMA UpstreamFaith ==
  ASSUME FaithInv, Upstream
  PROVE  FaithInv'
  <1>1. UNCHANGED <<nodes, ring, cache, worker, forwarder, respNode>>
    BY DEF Upstream, UpstreamAnswer, UpstreamAnswerTwice, UpstreamLoss
  <1> QED BY <1>1
      DEF FaithInv, CacheFaithful, ConfiguredCached, SearchedInv, ForwardedInv, MatchedInv, ReplyInv,
          AnswerFaithful, ByUpstream, NameOf, nodes, worker, forwarder

LEMMA NextFaithInv ==
  ASSUME IdentifiersTellNames, ~MayMisread, TypeInv, FaithInv, [Next]_vars
  PROVE  FaithInv'
  <1>1. CASE UNCHANGED vars
    BY <1>1
    DEF FaithInv, CacheFaithful, ConfiguredCached, SearchedInv, ForwardedInv, MatchedInv, ReplyInv,
        AnswerFaithful, ByUpstream, NameOf, vars, nodes, worker, forwarder
  <1>2. CASE Main
    BY <1>2, ReceiveQueryFaith DEF Main
  <1>3. CASE Work
    BY <1>3, WorkTakeFaith, WorkSearchFaith, WorkRouteFaith DEF Work
  <1>4. CASE Forward
    BY <1>4, FwdTakeFaith, FwdIdleFaith, FwdMatchFaith, FwdInsertFaith, FwdEnqueueFaith DEF Forward
  <1> QED BY <1>1, <1>2, <1>3, <1>4, RespondFaith, UpstreamFaith DEF Next

(* The invariant as a whole. *)
THEOREM ServerFaith ==
  ASSUME IdentifiersTellNames, ~MayMisread
  PROVE  Spec => [](TypeInv /\ FaithInv)
  <1>1. TypeInv /\ FaithInv /\ [Next]_vars => (TypeInv /\ FaithInv)'
    BY NextTypeInv, NextFaithInv
  <1> QED BY <1>1, InitTypeInv, InitFaithInv, PTL DEF Spec

(* The cache never holds anything but the configured record of a name or   *)
(* upstream's address of it, whoever inserts first.                        *)
THEOREM ServerCacheFaithful ==
  ASSUME IdentifiersTellNames, ~MayMisread
  PROVE  Spec => []CacheFaithful
  <1>1. FaithInv => CacheFaithful
    BY DEF FaithInv
  <1> QED BY <1>1, ServerFaith, PTL

(* No client is ever told the address of another name, whatever is lost,   *)
(* duplicated, refused by a ring or inserted by someone else meanwhile.    *)
THEOREM ServerAnswerFaithful ==
  ASSUME IdentifiersTellNames, ~MayMisread
  PROVE  Spec => []AnswerFaithful
  <1>1. FaithInv => AnswerFaithful
    BY DEF FaithInv
  <1> QED BY <1>1, ServerFaith, PTL

-----------------------------------------------------------------------------
(* Counting.  Positions(s, T) are the places in s that hold a member of T. *)

Positions(s, T) == {i \in DOMAIN s : s[i] \in T}
Count(s, T) == Cardinality(Positions(s, T))

LEMMA CountType ==
  ASSUME NEW S, NEW s \in Seq(S), NEW T
  PROVE  /\ IsFiniteSet(Positions(s, T)) /\ Count(s, T) \in Nat
         /\ Count(s, T) = 0 <=> \A i \in 1 .. Len(s) : s[i] \notin T
  <1>1. DOMAIN s = 1 .. Len(s) /\ Len(s) \in Nat
    BY LenProperties
  <1>2. IsFiniteSet(1 .. Len(s))
    BY <1>1, FS_Interval
  <1>3. IsFiniteSet(Positions(s, T))
    BY <1>1, <1>2, FS_Subset DEF Positions
  <1>4. Count(s, T) \in Nat /\ (Count(s, T) = 0 <=> Positions(s, T) = {})
    BY <1>3, FS_CardinalityType, FS_EmptySet DEF Count
  <1> QED BY <1>1, <1>3, <1>4 DEF Positions

LEMMA CountEmpty == \A T : Count(<< >>, T) = 0
  <1>1. \A T : Positions(<< >>, T) = {}
    BY EmptySeq, LenProperties DEF Positions
  <1> QED BY <1>1, FS_EmptySet DEF Count

(* A set that agrees with T on the elements of s counts the same.          *)
LEMMA CountAgree ==
  ASSUME NEW S, NEW s \in Seq(S), NEW T, NEW U, \A x \in S : x \in T <=> x \in U
  PROVE  Count(s, T) = Count(s, U)
  <1>1. Positions(s, T) = Positions(s, U)
    BY LenProperties, ElementOfSeq DEF Positions
  <1> QED BY <1>1 DEF Count

(* t is s without its k-th element.                                        *)
LEMMA CountWithoutOne ==
  ASSUME NEW S, NEW s \in Seq(S), NEW t \in Seq(S), NEW k \in 1 .. Len(s), NEW T,
         Len(s) = Len(t) + 1,
         \A j \in 1 .. Len(t) : t[j] = IF j < k THEN s[j] ELSE s[j + 1]
  PROVE  Count(s, T) = Count(t, T) + OneIf(s[k] \in T)
  <1> DEFINE A == Positions(s, T)
             B == Positions(t, T)
             f == [j \in B |-> IF j < k THEN j ELSE j + 1]
  <1>1. /\ DOMAIN s = 1 .. Len(s) /\ Len(s) \in Nat
        /\ DOMAIN t = 1 .. Len(t) /\ Len(t) \in Nat
    BY LenProperties
  <1>2. f \in Bijection(B, A \ {k})
    <2>1. \A j \in B : f[j] \in A \ {k}
      BY <1>1 DEF Positions
    <2>2. \A i, j \in B : f[i] = f[j] => i = j
      BY <1>1 DEF Positions
    <2>3. ASSUME NEW i \in A \ {k} PROVE \E j \in B : f[j] = i
      <3>1. CASE i < k
        <4>1. i \in B /\ f[i] = i
          BY <1>1, <3>1 DEF Positions
        <4> QED BY <4>1
      <3>2. CASE i > k
        <4>1. i - 1 \in 1 .. Len(t) /\ t[i - 1] = s[i]
          BY <1>1, <3>2 DEF Positions
        <4>2. i - 1 \in B
          BY <1>1, <4>1 DEF Positions
        <4>3. f[i - 1] = i
          BY <1>1, <3>2, <4>2 DEF Positions
        <4> QED BY <4>2, <4>3
      <3>3. i \in Int /\ k \in Int /\ i # k
        BY <1>1 DEF Positions
      <3> QED BY <3>1, <3>2, <3>3
    <2>4. f \in [B -> A \ {k}]
      BY <2>1
    <2> HIDE DEF f, A, B
    <2> QED BY <2>2, <2>3, <2>4 DEF Bijection, Injection, Surjection, IsInjective
  <1>3. IsFiniteSet(A) /\ IsFiniteSet(B) /\ Cardinality(A) \in Nat
    BY CountType, FS_CardinalityType
  <1>4. Cardinality(A \ {k}) = Cardinality(B)
    BY <1>2, <1>3, FS_Bijection DEF ExistsBijection
  <1>5. Cardinality(A \ {k}) = IF k \in A THEN Cardinality(A) - 1 ELSE Cardinality(A)
    BY <1>3, FS_RemoveElement
  <1>6. k \in A <=> s[k] \in T
    BY <1>1 DEF Positions
  <1> QED BY <1>3, <1>4, <1>5, <1>6 DEF Count, OneIf

LEMMA CountAppend ==
  ASSUME NEW S, NEW s \in Seq(S), NEW x \in S, NEW T
  PROVE  Count(Append(s, x), T) = Count(s, T) + OneIf(x \in T)
  <1> DEFINE t == Append(s, x)
  <1>1. /\ t \in Seq(S) /\ Len(t) = Len(s) + 1 /\ Len(s) \in Nat
        /\ \A i \in 1 .. Len(s) : t[i] = s[i]
        /\ t[Len(s) + 1] = x
    BY AppendProperties, LenProperties
  <1> HIDE DEF t
  <1>2. /\ Len(t) \in 1 .. Len(t)
        /\ \A j \in 1 .. Len(s) : s[j] = IF j < Len(t) THEN t[j] ELSE t[j + 1]
    BY <1>1
  <1>3. Count(t, T) = Count(s, T) + OneIf(t[Len(t)] \in T)
    BY <1>1, <1>2, CountWithoutOne
  <1> QED BY <1>1, <1>3 DEF t

LEMMA CountTail ==
  ASSUME NEW S, NEW s \in Seq(S), s # << >>, NEW T
  PROVE  Count(s, T) = Count(Tail(s), T) + OneIf(Head(s) \in T)
  <1> DEFINE t == Tail(s)
  <1>1. /\ t \in Seq(S) /\ Len(t) = Len(s) - 1 /\ Len(s) \in Nat \ {0}
        /\ \A j \in 1 .. Len(t) : t[j] = s[j + 1]
        /\ Head(s) = s[1]
    BY HeadTailProperties, EmptySeq
  <1> HIDE DEF t
  <1>2. /\ 1 \in 1 .. Len(s) /\ Len(s) = Len(t) + 1
        /\ \A j \in 1 .. Len(t) : t[j] = IF j < 1 THEN s[j] ELSE s[j + 1]
    BY <1>1
  <1>3. Count(s, T) = Count(t, T) + OneIf(s[1] \in T)
    BY <1>1, <1>2, CountWithoutOne
  <1> QED BY <1>1, <1>3 DEF t

LEMMA CountWithout ==
  ASSUME NEW S, NEW s \in Seq(S), NEW i \in 1 .. Len(s), NEW T
  PROVE  Count(s, T) = Count(WithoutElement(s, i), T) + OneIf(s[i] \in T)
  <1> DEFINE t == WithoutElement(s, i)
  <1>1. /\ t \in Seq(S) /\ Len(t) = Len(s) - 1 /\ Len(s) \in Nat
        /\ \A j \in 1 .. Len(s) - 1 : t[j] = IF j < i THEN s[j] ELSE s[j + 1]
    BY WithoutProperties, LenProperties
  <1> HIDE DEF t
  <1>2. Count(s, T) = Count(t, T) + OneIf(s[i] \in T)
    BY <1>1, CountWithoutOne
  <1> QED BY <1>2 DEF t

-----------------------------------------------------------------------------
(* A node on the rings: how often, and how a call of theirs changes that.  *)

LEMMA OccurrencesCount == \A s, n : Occurrences(s, n) = Count(s, {n})
  <1>1. \A s, n : {i \in DOMAIN s : s[i] = n} = Positions(s, {n})
    BY DEF Positions
  <1> QED BY <1>1 DEF Occurrences, Count

LEMMA OccurrencesType ==
  ASSUME NEW S, NEW s \in Seq(S), NEW n
  PROVE  /\ Occurrences(s, n) \in Nat
         /\ n \notin S => Occurrences(s, n) = 0
  <1>1. /\ Occurrences(s, n) \in Nat
        /\ Occurrences(s, n) = 0 <=> \A i \in 1 .. Len(s) : s[i] \notin {n}
    BY CountType, OccurrencesCount
  <1>2. \A i \in 1 .. Len(s) : s[i] \in S
    BY ElementOfSeq
  <1> QED BY <1>1, <1>2

OnRings(n) ==
  Occurrences(ring["work"], n) + Occurrences(ring["forward"], n) + Occurrences(ring["bundle"], n)

LEMMA OnRingsType ==
  ASSUME NEW S, ring \in [Rings -> Seq(S)], NEW n
  PROVE  /\ OnRings(n) \in Nat
         /\ n \notin S => OnRings(n) = 0
  <1>1. /\ ring["work"] \in Seq(S) /\ ring["forward"] \in Seq(S) /\ ring["bundle"] \in Seq(S)
    BY DEF Rings
  <1> QED BY <1>1, OccurrencesType DEF OnRings

(* The owners of a node in two groups: the rings or nobody, which the      *)
(* calls on rings change, and the threads, the list and malloc.            *)
Shelved(n) == OnRings(n) + OneIf(n \in lost)
InUse(n) ==
  Occurrences(pending, n) + OneIf(workNode = n) + OneIf(fwdNode = n) + OneIf(respNode = n)
  + OneIf(n \in freed)

OwnersSummed ==
  \A n : Shelved(n) \in Nat /\ InUse(n) \in Nat /\ Owners(n) = Shelved(n) + InUse(n)

LEMMA OwnersParts == TypeInv => OwnersSummed
  <1> SUFFICES ASSUME TypeInv, NEW n
               PROVE  Shelved(n) \in Nat /\ InUse(n) \in Nat /\ Owners(n) = Shelved(n) + InUse(n)
    BY DEF OwnersSummed
  <1>1. ring \in [Rings -> Seq(Nodes)] /\ pending \in Seq(Nodes)
    BY DEF TypeInv, TypeOK
  <1>2. OnRings(n) \in Nat /\ Occurrences(pending, n) \in Nat
    BY <1>1, OnRingsType, OccurrencesType
  <1>3. Shelved(n) \in Nat /\ InUse(n) \in Nat
    BY <1>2 DEF Shelved, InUse, OneIf
  <1>4. \A r \in {"work", "forward", "bundle"} : Occurrences(ring[r], n) \in Nat
    BY <1>1, OccurrencesType DEF Rings
  <1>5. /\ OneIf(workNode = n) \in Nat /\ OneIf(fwdNode = n) \in Nat
        /\ OneIf(respNode = n) \in Nat /\ OneIf(n \in freed) \in Nat /\ OneIf(n \in lost) \in Nat
    BY DEF OneIf
  <1> QED BY <1>2, <1>3, <1>4, <1>5 DEF OnRings, Shelved, InUse, Owners

LEMMA OwnersPartsNext == TypeInv' => OwnersSummed'
  BY OwnersParts, PTL

(* The owners of a node before and after a step. *)
LEMMA OwnersStep ==
  ASSUME TypeInv, TypeInv', NEW n
  PROVE  /\ Shelved(n) \in Nat /\ InUse(n) \in Nat /\ Shelved(n)' \in Nat /\ InUse(n)' \in Nat
         /\ Occurrences(pending, n) \in Nat /\ Occurrences(pending', n) \in Nat
         /\ Owners(n) = Shelved(n) + InUse(n)
         /\ Owners(n)' = Shelved(n)' + InUse(n)'
  <1>1. pending \in Seq(Nodes) /\ pending' \in Seq(Nodes')
    BY DEF TypeInv, TypeOK
  <1> QED BY <1>1, OwnersParts, OwnersPartsNext, OccurrencesType DEF OwnersSummed

(* A refused node is lost, any other is on one ring once more. *)
LEMMA EnqueueOwners ==
  ASSUME NEW S, ring \in [Rings -> Seq(S)], NEW r \in Rings, NEW n \in S, n \notin lost,
         Enqueue(r, n), NEW m
  PROVE  Shelved(m)' = Shelved(m) + OneIf(n = m)
  <1>1. OnRings(m) \in Nat
    BY OnRingsType
  <1>2. CASE UNCHANGED ring /\ lost' = lost \cup {n}
    BY <1>1, <1>2 DEF OnRings, Shelved, OneIf
  <1>3. CASE ring' = [ring EXCEPT ![r] = Append(@, n)] /\ UNCHANGED lost
    <2>1. \A q \in Rings : ring[q] \in Seq(S) /\ Occurrences(ring[q], m) \in Nat
      BY CountType, OccurrencesCount
    <2>2. Occurrences(Append(ring[r], n), m) = Occurrences(ring[r], m) + OneIf(n = m)
      <3>1. Count(Append(ring[r], n), {m}) = Count(ring[r], {m}) + OneIf(n \in {m})
        BY <2>1, CountAppend
      <3> QED BY <3>1, OccurrencesCount DEF OneIf
    <2>3. \A q \in Rings :
            Occurrences(ring'[q], m)
              = IF q = r THEN Occurrences(ring[q], m) + OneIf(n = m) ELSE Occurrences(ring[q], m)
      BY <1>3, <2>2
    <2>4. OnRings(m)' = OnRings(m) + OneIf(n = m)
      BY <2>1, <2>3 DEF OnRings, Rings, OneIf
    <2> QED BY <1>1, <1>3, <2>4 DEF Shelved, OneIf
  <1> QED BY <1>2, <1>3 DEF Enqueue

LEMMA DequeueOwners ==
  ASSUME TypeInv, NEW r \in Rings, NEW n, Dequeue(r, n), NEW m
  PROVE  OnRings(m) = OnRings(m)' + OneIf(n = m) /\ OnRings(m)' \in Nat
  <1>1. ring \in [Rings -> Seq(Nodes)]
    BY DEF TypeInv, TypeOK
  <1>2. ring[r] # << >> /\ n = Head(ring[r]) /\ ring' = [ring EXCEPT ![r] = Tail(@)]
    BY DEF Dequeue
  <1>3. \A q \in Rings :
          /\ ring[q] \in Seq(Nodes) /\ Occurrences(ring[q], m) \in Nat
          /\ ring'[q] \in Seq(Nodes) /\ Occurrences(ring'[q], m) \in Nat
    <2>1. \A q \in Rings : ring[q] \in Seq(Nodes)
      BY <1>1
    <2>2. \A q \in Rings : ring'[q] \in Seq(Nodes)
      BY <1>1, <1>2, <2>1, HeadTailProperties
    <2> QED BY <2>1, <2>2, CountType, OccurrencesCount
  <1>4. Occurrences(ring[r], m) = Occurrences(Tail(ring[r]), m) + OneIf(n = m)
    <2>1. Count(ring[r], {m}) = Count(Tail(ring[r]), {m}) + OneIf(n \in {m})
      BY <1>2, <1>3, CountTail
    <2> QED BY <2>1, OccurrencesCount DEF OneIf
  <1>5. \A q \in Rings :
          Occurrences(ring[q], m)
            = IF q = r THEN Occurrences(ring'[q], m) + OneIf(n = m) ELSE Occurrences(ring'[q], m)
    BY <1>1, <1>2, <1>4
  <1>6. \A q \in {"work", "forward", "bundle"} :
          /\ Occurrences(ring[q], m) \in Nat /\ Occurrences(ring'[q], m) \in Nat
          /\ Occurrences(ring[q], m) = Occurrences(ring'[q], m) + OneIf(q = r /\ n = m)
    BY <1>3, <1>5 DEF Rings, OneIf
  <1>7. CASE n = m
    BY <1>6, <1>7 DEF OnRings, Rings, OneIf
  <1>8. CASE n # m
    BY <1>6, <1>8 DEF OnRings, OneIf
  <1> QED BY <1>7, <1>8

-----------------------------------------------------------------------------
(* The invariant: besides one owner per node, a thread without work has no *)
(* node in hand.                                                           *)

AtRest ==
  /\ workPc = "idle" => workNode = None
  /\ fwdPc \in {"take", "poll"} => fwdNode = None

OwnerInv == NodeOwnedOnce /\ AtRest

(* While no node is allocated, it is enough that none changes its owners.  *)
LEMMA SameOwners ==
  ASSUME OwnerInv, UNCHANGED req, \A m \in Nodes : Owners(m)' = Owners(m)
  PROVE  NodeOwnedOnce'
  BY DEF OwnerInv, NodeOwnedOnce, Nodes

(* A new node is on the work ring, or lost; the others are where they were. *)
LEMMA ReceiveQueryOwners ==
  ASSUME TypeInv, TypeInv', OwnerInv, NEW q \in Datagrams, ReceiveQuery(q)
  PROVE  OwnerInv'
  <1> PICK n : n = Len(req) + 1
    OBVIOUS
  <1>1. /\ Len(req) \in Nat /\ Nodes' = Nodes \cup {n} /\ n \notin Nodes /\ n # None
    <2>1. req \in Seq(Datagrams) /\ Len(req) \in Nat
      BY LenProperties DEF TypeInv, TypeOK
    <2>2. Len(req') = n
      BY <2>1, AppendProperties DEF ReceiveQuery
    <2> QED BY <2>1, <2>2 DEF Nodes, None
  <1>2. UNCHANGED <<pending, workNode, fwdNode, respNode, freed, workPc, fwdPc>>
    BY DEF ReceiveQuery, worker, forwarder
  <1>3. ring \in [Rings -> Seq(Nodes)] /\ lost \subseteq Nodes /\ n \notin lost
    BY <1>1 DEF TypeInv, TypeOK
  <1>4. ASSUME NEW m
        PROVE  Shelved(m)' = Shelved(m) + OneIf(n = m)
    <2>1. CASE q.kind = "empty"
      <3>1. ring' = ring /\ lost' = lost \cup {n} /\ OnRings(m) \in Nat
        BY <1>3, <2>1, OnRingsType DEF ReceiveQuery
      <3> QED BY <1>3, <3>1 DEF OnRings, Shelved, OneIf
    <2>2. CASE q.kind # "empty"
      <3>1. ring \in [Rings -> Seq(Nodes \cup {n})]
        <4>1. \A r \in Rings : ring[r] \in Seq(Nodes \cup {n})
          BY <1>3, SeqMonotonic
        <4> QED BY <1>3, <4>1
      <3>2. Enqueue("work", n) /\ "work" \in Rings /\ n \in Nodes \cup {n}
        BY <2>2 DEF ReceiveQuery, Rings
      <3> QED BY <1>3, <3>1, <3>2, EnqueueOwners
    <2> QED BY <2>1, <2>2
  <1>5. ASSUME NEW m \in Nodes PROVE Owners(m)' = 1
    <2>1. n # m /\ Owners(m) = 1
      BY <1>1 DEF OwnerInv, NodeOwnedOnce
    <2>2. Shelved(m)' = Shelved(m)
      BY <1>4, <2>1, OwnersStep DEF OneIf
    <2>3. InUse(m)' = InUse(m)
      BY <1>2 DEF InUse
    <2> QED BY <2>1, <2>2, <2>3, OwnersStep
  <1>6. Owners(n)' = 1
    <2>1. OnRings(n) = 0 /\ Occurrences(pending, n) = 0
      <3>1. pending \in Seq(Nodes)
        BY DEF TypeInv, TypeOK
      <3> QED BY <1>1, <1>3, <3>1, OnRingsType, OccurrencesType
    <2>2. Shelved(n) = 0
      BY <1>3, <2>1 DEF Shelved, OneIf
    <2>3. n \notin freed /\ workNode # n /\ fwdNode # n /\ respNode # n
      BY <1>1 DEF TypeInv, TypeOK
    <2>4. InUse(n)' = 0
      BY <1>2, <2>1, <2>3 DEF InUse, OneIf
    <2>5. Shelved(n)' = 1
      BY <1>4, <2>2 DEF OneIf
    <2> QED BY <2>4, <2>5, OwnersStep
  <1> QED BY <1>1, <1>2, <1>5, <1>6 DEF OwnerInv, NodeOwnedOnce, AtRest

(* A node on a ring or in a thread's hand is neither lost nor freed. *)
LEMMA OneOwner ==
  ASSUME TypeInv, OwnerInv, NEW n \in Nodes,
         OnRings(n) > 0 \/ workNode = n \/ fwdNode = n \/ respNode = n
  PROVE  n \notin lost /\ n \notin freed
  <1>1. ring \in [Rings -> Seq(Nodes)] /\ pending \in Seq(Nodes)
    BY DEF TypeInv, TypeOK
  <1>2. OnRings(n) \in Nat /\ Occurrences(pending, n) \in Nat
    BY <1>1, OnRingsType, OccurrencesType
  <1>3. /\ OneIf(workNode = n) \in Nat /\ OneIf(fwdNode = n) \in Nat
        /\ OneIf(respNode = n) \in Nat /\ OneIf(n \in freed) \in Nat /\ OneIf(n \in lost) \in Nat
    BY DEF OneIf
  <1>4. OnRings(n) + Occurrences(pending, n) + OneIf(workNode = n) + OneIf(fwdNode = n)
        + OneIf(respNode = n) + OneIf(n \in freed) + OneIf(n \in lost) = 1
    <2>1. Shelved(n) + InUse(n) = 1
      BY OwnersParts DEF OwnersSummed, OwnerInv, NodeOwnedOnce
    <2> QED BY <1>2, <1>3, <2>1 DEF Shelved, InUse
  <1>5. OnRings(n) + OneIf(workNode = n) + OneIf(fwdNode = n) + OneIf(respNode = n) > 0
    BY <1>2, <1>3 DEF OneIf
  <1>6. OneIf(n \in freed) = 0 /\ OneIf(n \in lost) = 0
    BY <1>2, <1>3, <1>4, <1>5
  <1> QED BY <1>6 DEF OneIf

LEMMA WorkOwners ==
  ASSUME TypeInv, TypeInv', OwnerInv, Work
  PROVE  OwnerInv'
  <1>1. /\ ring \in [Rings -> Seq(Nodes)] /\ lost \subseteq Nodes
        /\ None \notin Nodes /\ "work" \in Rings /\ "forward" \in Rings /\ "bundle" \in Rings
    BY DEF TypeInv, TypeOK, Rings, None, Nodes
  <1>2. /\ UNCHANGED <<req, pending, fwdNode, fwdPc, respNode, freed>>
        /\ \A m : OneIf(m \in freed') = OneIf(m \in freed)
    BY DEF Work, WorkTake, WorkSearch, WorkRoute, nodes, forwarder
  <1>3. CASE WorkTake
    <2>1. PICK n \in Nodes :
            /\ Dequeue("work", n)
            /\ \/ workPc' = "search" /\ workNode' = n /\ UNCHANGED lost
               \/ lost' = lost \cup {n} /\ UNCHANGED <<workPc, workNode>>
      BY <1>3 DEF WorkTake
    <2>2. workPc = "idle" /\ workNode = None
      BY <1>3 DEF WorkTake, OwnerInv, AtRest
    <2>3. n \notin lost
      <3>1. OnRings(n) = OnRings(n)' + 1 /\ OnRings(n)' \in Nat
        BY <1>1, <2>1, DequeueOwners DEF OneIf
      <3> QED BY <3>1, OneOwner
    <2>4. ASSUME NEW m \in Nodes PROVE Owners(m)' = Owners(m)
      <3>1. OnRings(m) = OnRings(m)' + OneIf(n = m) /\ OnRings(m)' \in Nat
        BY <1>1, <2>1, DequeueOwners
      <3>2. CASE workNode' = n /\ UNCHANGED lost
        <4>1. Shelved(m) = Shelved(m)' + OneIf(n = m)
          BY <3>1, <3>2 DEF Shelved, OneIf
        <4>2. InUse(m)' = InUse(m) + OneIf(n = m)
          BY <1>1, <1>2, <2>2, <3>2, OwnersStep DEF InUse, OneIf
        <4> QED BY <4>1, <4>2, OwnersStep DEF OneIf
      <3>3. CASE lost' = lost \cup {n} /\ UNCHANGED workNode
        <4>1. Shelved(m)' = Shelved(m)
          BY <2>3, <3>1, <3>3 DEF Shelved, OneIf
        <4>2. InUse(m)' = InUse(m)
          BY <1>2, <3>3 DEF InUse
        <4> QED BY <4>1, <4>2, OwnersStep
      <3> QED BY <2>1, <3>2, <3>3
    <2>5. AtRest'
      BY <1>2, <2>1, <2>2 DEF OwnerInv, AtRest
    <2> QED BY <1>2, <2>4, <2>5, SameOwners DEF OwnerInv
  <1>4. CASE WorkSearch
    <2>1. UNCHANGED <<ring, workNode, lost>> /\ workPc' = "route"
      BY <1>4 DEF WorkSearch, nodes
    <2>2. \A m \in Nodes : Owners(m)' = Owners(m)
      BY <1>2, <2>1 DEF Owners
    <2> QED BY <1>2, <2>1, <2>2, SameOwners DEF OwnerInv, AtRest
  <1>5. CASE WorkRoute
    <2>1. PICK r \in Rings : Enqueue(r, workNode)
      BY <1>1, <1>5 DEF WorkRoute
    <2>2. workNode \in Nodes /\ workNode' = None /\ workPc' = "idle"
      BY <1>5 DEF WorkRoute, TypeInv, Holding
    <2>3. ASSUME NEW m \in Nodes
          PROVE  InUse(m) = InUse(m)' + OneIf(workNode = m)
      BY <1>1, <1>2, <2>2, OwnersStep DEF InUse, OneIf
    <2>4. workNode \notin lost
      BY <2>2, OneOwner
    <2>5. ASSUME NEW m \in Nodes PROVE Owners(m)' = Owners(m)
      <3>1. Shelved(m)' = Shelved(m) + OneIf(workNode = m)
        BY <1>1, <2>1, <2>2, <2>4, EnqueueOwners
      <3> QED BY <2>3, <3>1, OwnersStep DEF OneIf
    <2>6. AtRest'
      BY <1>2, <2>2 DEF OwnerInv, AtRest
    <2> QED BY <1>2, <2>5, <2>6, SameOwners DEF OwnerInv
  <1> QED BY <1>3, <1>4, <1>5 DEF Work

LEMMA FwdTakeOwners ==
  ASSUME TypeInv, TypeInv', OwnerInv, FwdTake
  PROVE  OwnerInv'
  <1>1. PICK n \in Nodes : Dequeue("forward", n) /\ pending' = Append(pending, n)
    BY DEF FwdTake
  <1>2. UNCHANGED <<req, lost, freed, workPc, workNode, fwdNode, respNode>> /\ fwdPc' = "poll"
    BY DEF FwdTake, nodes, worker
  <1>3. ASSUME NEW m \in Nodes PROVE Owners(m)' = Owners(m)
    <2>1. OnRings(m) = OnRings(m)' + OneIf(n = m) /\ OnRings(m)' \in Nat
      BY <1>1, DequeueOwners DEF Rings
    <2>2. Occurrences(pending', m) = Occurrences(pending, m) + OneIf(n = m)
      <3>1. Count(pending', {m}) = Count(pending, {m}) + OneIf(n \in {m})
        BY <1>1, CountAppend DEF TypeInv, TypeOK
      <3> QED BY <3>1, OccurrencesCount DEF OneIf
    <2>3. Shelved(m) = Shelved(m)' + OneIf(n = m)
      BY <1>2, <2>1 DEF Shelved, OneIf
    <2>4. InUse(m)' = InUse(m) + OneIf(n = m)
      BY <1>2, <2>2, OwnersStep DEF InUse, OneIf
    <2> QED BY <2>3, <2>4, OwnersStep DEF OneIf
  <1>4. AtRest'
    BY <1>2 DEF FwdTake, OwnerInv, AtRest
  <1> QED BY <1>2, <1>3, <1>4, SameOwners DEF OwnerInv

LEMMA FwdMatchOwners ==
  ASSUME TypeInv, TypeInv', OwnerInv, FwdMatch
  PROVE  OwnerInv'
  <1>1. PICK i \in 1 .. Len(pending) : pending' = WithoutElement(pending, i) /\ fwdNode' = pending[i]
    BY LenProperties DEF FwdMatch, TypeInv, TypeOK
  <1>2. /\ UNCHANGED <<req, ring, lost, freed, workPc, workNode, respNode>>
        /\ fwdPc' = "insert" /\ fwdNode = None
    BY DEF FwdMatch, worker, OwnerInv, AtRest
  <1>3. None \notin Nodes
    BY DEF None, Nodes
  <1>4. ASSUME NEW m \in Nodes PROVE Owners(m)' = Owners(m)
    <2>1. Occurrences(pending, m) = Occurrences(pending', m) + OneIf(pending[i] = m)
      <3>1. Count(pending, {m}) = Count(pending', {m}) + OneIf(pending[i] \in {m})
        BY <1>1, CountWithout DEF TypeInv, TypeOK
      <3> QED BY <3>1, OccurrencesCount DEF OneIf
    <2>2. OneIf(fwdNode = m) = 0 /\ OneIf(fwdNode' = m) = OneIf(pending[i] = m)
      BY <1>1, <1>2, <1>3 DEF OneIf
    <2>3. Shelved(m)' = Shelved(m)
      BY <1>2 DEF Shelved, OnRings
    <2>4. InUse(m)' = InUse(m)
      BY <1>2, <2>1, <2>2, OwnersStep DEF InUse, OneIf
    <2> QED BY <2>3, <2>4, OwnersStep
  <1>5. AtRest'
    BY <1>2 DEF OwnerInv, AtRest
  <1> QED BY <1>2, <1>4, <1>5, SameOwners DEF OwnerInv

LEMMA FwdOwners ==
  ASSUME TypeInv, TypeInv', OwnerInv, Forward
  PROVE  OwnerInv'
  <1>1. CASE FwdNothingToTake \/ FwdPollNothing \/ FwdNoMatch \/ FwdInsert
    <2>1. /\ UNCHANGED <<req, ring, pending, workPc, workNode, fwdNode, respNode, freed, lost>>
          /\ fwdPc' \in {"take", "poll"} => fwdPc \in {"take", "poll"}
      BY <1>1 DEF FwdNothingToTake, FwdPollNothing, FwdNoMatch, FwdInsert, nodes, worker, forwarder
    <2>2. \A m \in Nodes : Owners(m)' = Owners(m)
      BY <2>1 DEF Owners
    <2> QED BY <2>1, <2>2, SameOwners DEF OwnerInv, AtRest
  <1>2. CASE FwdEnqueue
    <2>1. /\ ring \in [Rings -> Seq(Nodes)] /\ fwdNode \in Nodes /\ fwdNode' = None /\ fwdPc' = "take"
          /\ Enqueue("bundle", fwdNode) /\ "bundle" \in Rings /\ None \notin Nodes
          /\ UNCHANGED <<req, pending, workPc, workNode, respNode, freed>>
      BY <1>2 DEF FwdEnqueue, TypeInv, TypeOK, Holding, Rings, None, Nodes, worker
    <2>2. fwdNode \notin lost
      BY <2>1, OneOwner
    <2>3. ASSUME NEW m \in Nodes PROVE Owners(m)' = Owners(m)
      <3>1. Shelved(m)' = Shelved(m) + OneIf(fwdNode = m)
        BY <2>1, <2>2, EnqueueOwners
      <3>2. InUse(m) = InUse(m)' + OneIf(fwdNode = m)
        BY <2>1, OwnersStep DEF InUse, OneIf
      <3> QED BY <3>1, <3>2, OwnersStep DEF OneIf
    <2> QED BY <2>1, <2>3, SameOwners DEF OwnerInv, AtRest
  <1> QED BY <1>1, <1>2, FwdTakeOwners, FwdMatchOwners DEF Forward

LEMMA RespondOwners ==
  ASSUME TypeInv, TypeInv', OwnerInv, Respond
  PROVE  OwnerInv'
  <1>1. /\ UNCHANGED <<req, pending, workPc, workNode, fwdPc, fwdNode, lost>>
        /\ None \notin Nodes
    BY DEF Respond, RespTake, RespSend, nodes, worker, forwarder, None, Nodes
  <1>2. AtRest'
    BY <1>1 DEF OwnerInv, AtRest
  <1>3. CASE RespTake
    <2>1. PICK n \in Nodes : Dequeue("bundle", n) /\ respNode' = n
      BY <1>3 DEF RespTake
    <2>2. respNode = None /\ UNCHANGED freed
      BY <1>3 DEF RespTake, nodes
    <2>3. ASSUME NEW m \in Nodes PROVE Owners(m)' = Owners(m)
      <3>1. OnRings(m) = OnRings(m)' + OneIf(n = m) /\ OnRings(m)' \in Nat
        BY <2>1, DequeueOwners DEF Rings
      <3>2. Shelved(m) = Shelved(m)' + OneIf(n = m)
        BY <1>1, <3>1 DEF Shelved, OneIf
      <3>3. InUse(m)' = InUse(m) + OneIf(n = m)
        BY <1>1, <2>1, <2>2, OwnersStep DEF InUse, OneIf
      <3> QED BY <3>2, <3>3, OwnersStep DEF OneIf
    <2> QED BY <1>1, <1>2, <2>3, SameOwners DEF OwnerInv
  <1>4. CASE RespSend
    <2>1. /\ respNode \in Nodes /\ respNode' = None /\ UNCHANGED ring
          /\ freed' = freed \cup {respNode}
      BY <1>4 DEF RespSend, TypeInv, TypeOK
    <2>2. respNode \notin freed
      BY <2>1, OneOwner
    <2>3. ASSUME NEW m \in Nodes PROVE Owners(m)' = Owners(m)
      <3>1. Shelved(m)' = Shelved(m)
        BY <1>1, <2>1 DEF Shelved, OnRings
      <3>2. InUse(m)' = InUse(m)
        BY <1>1, <2>1, <2>2, OwnersStep DEF InUse, OneIf
      <3> QED BY <3>1, <3>2, OwnersStep
    <2> QED BY <1>1, <1>2, <2>3, SameOwners DEF OwnerInv
  <1> QED BY <1>3, <1>4 DEF Respond

LEMMA NextOwnerInv ==
  ASSUME TypeInv, TypeInv', OwnerInv, [Next]_vars
  PROVE  OwnerInv'
  <1>1. CASE UNCHANGED vars \/ Upstream
    <2>1. UNCHANGED <<req, ring, pending, workPc, workNode, fwdPc, fwdNode, respNode, freed, lost>>
      BY <1>1 DEF vars, nodes, worker, forwarder,
                  Upstream, UpstreamAnswer, UpstreamAnswerTwice, UpstreamLoss
    <2>2. \A m \in Nodes : Owners(m)' = Owners(m)
      BY <2>1 DEF Owners
    <2> QED BY <2>1, <2>2, SameOwners DEF OwnerInv, AtRest
  <1>2. CASE Main
    BY <1>2, ReceiveQueryOwners DEF Main
  <1> QED BY <1>1, <1>2, WorkOwners, FwdOwners, RespondOwners DEF Next

(* The invariant as a whole. *)
THEOREM ServerOwners == Spec => [](TypeInv /\ OwnerInv)
  <1>1. Init => OwnerInv
    BY DEF Init, OwnerInv, NodeOwnedOnce, AtRest, Nodes
  <1>2. TypeInv /\ TypeInv' /\ OwnerInv /\ [Next]_vars => OwnerInv'
    BY NextOwnerInv
  <1> QED BY <1>1, <1>2, InitTypeInv, NextTypeInv, PTL DEF Spec

(* Every node that carries a datagram has exactly one owner, at any time,  *)
(* whatever the rings refuse and the network loses or repeats: none is     *)
(* used by two threads or after it was freed, and none is forgotten.       *)
THEOREM ServerNodeOwnedOnce == Spec => []NodeOwnedOnce
  <1>1. OwnerInv => NodeOwnedOnce
    BY DEF OwnerInv
  <1> QED BY <1>1, ServerOwners, PTL

-----------------------------------------------------------------------------
(* Answers that are due are counted per identifier, as the forwarder goes  *)
(* by nothing else.  For each there is a listed request with its           *)
(* identifier, unless an answer came once more.  A request may be listed   *)
(* for ever, when its answer gets lost, hence the inequality.              *)

Idens == {d.iden : d \in Datagrams}
WithIden(i) == {n \in Nodes : req[n].iden = i}

Members(A, T) == Cardinality(A \cap T)
Due(i) == Members(asked, WithIden(i)) + Count(sock, WithIden(i))
AnswersCovered == \A i \in Idens : Due(i) <= Count(pending, WithIden(i)) + dups

(* The list head is taken for a node only if an answer came twice.         *)
BrokenByDuplicate == broken => dups > 0

AnswerInv == AnswersCovered /\ BrokenByDuplicate

LEMMA MembersChange ==
  ASSUME NEW A, IsFiniteSet(A), NEW T, NEW n
  PROVE  /\ Members(A, T) \in Nat /\ Members(A \cup {n}, T) \in Nat /\ Members(A \ {n}, T) \in Nat
         /\ Members(A \cup {n}, T) <= Members(A, T) + OneIf(n \in T)
         /\ Members(A \ {n}, T) = Members(A, T) - OneIf(n \in A \cap T)
  <1> DEFINE W == A \cap T
  <1>1. IsFiniteSet(W) /\ Cardinality(W) \in Nat /\ Members(A, T) = Cardinality(W)
    BY FS_Intersection, FS_CardinalityType DEF Members
  <1>2. (A \cup {n}) \cap T = IF n \in T THEN W \cup {n} ELSE W
    OBVIOUS
  <1>3. (A \ {n}) \cap T = W \ {n}
    OBVIOUS
  <1>4. n \in A \cap T <=> n \in W
    OBVIOUS
  <1> HIDE DEF W
  <1>5. Cardinality(W \cup {n}) = IF n \in W THEN Cardinality(W) ELSE Cardinality(W) + 1
    BY <1>1, FS_AddElement
  <1>6. Cardinality(W \ {n}) = IF n \in W THEN Cardinality(W) - 1 ELSE Cardinality(W)
    BY <1>1, FS_RemoveElement
  <1>7. Cardinality(W \ {n}) \in Nat
    BY <1>1, FS_RemoveElement, FS_CardinalityType
  <1>8. Members(A \cup {n}, T) = IF n \in T THEN Cardinality(W \cup {n}) ELSE Cardinality(W)
    BY <1>2 DEF Members
  <1>9. Members(A \ {n}, T) = Cardinality(W \ {n})
    BY <1>3 DEF Members
  <1>10. Members(A \cup {n}, T) \in Nat /\ Members(A \cup {n}, T) <= Members(A, T) + OneIf(n \in T)
    BY <1>1, <1>5, <1>8 DEF OneIf
  <1>11. Members(A \ {n}, T) = Members(A, T) - OneIf(n \in A \cap T)
    BY <1>1, <1>4, <1>6, <1>9 DEF OneIf
  <1> QED BY <1>1, <1>7, <1>9, <1>10, <1>11

LEMMA DueTypes ==
  ASSUME TypeInv, NEW T
  PROVE  /\ IsFiniteSet(asked) /\ Members(asked, T) \in Nat
         /\ Count(sock, T) \in Nat /\ Count(pending, T) \in Nat /\ dups \in Nat
  <1>1. /\ Len(req) \in Nat /\ asked \subseteq 1 .. Len(req)
        /\ sock \in Seq(Nodes) /\ pending \in Seq(Nodes) /\ dups \in 0 .. MaxDups /\ MaxDups \in Nat
    BY LenProperties, ServerAssumption DEF TypeInv, TypeOK, Nodes
  <1>2. IsFiniteSet(asked)
    <2>1. IsFiniteSet(1 .. Len(req))
      BY <1>1, FS_Interval
    <2> QED BY <1>1, <2>1, FS_Subset
  <1>3. Members(asked, T) \in Nat
    BY <1>2, MembersChange
  <1>4. Count(sock, T) \in Nat /\ Count(pending, T) \in Nat
    BY <1>1, CountType
  <1> QED BY <1>1, <1>2, <1>3, <1>4

(* The count of one identifier, before and after a step. *)
LEMMA CoveredBefore ==
  ASSUME AnswerInv, NEW i \in Idens
  PROVE  Members(asked, WithIden(i)) + Count(sock, WithIden(i)) <= Count(pending, WithIden(i)) + dups
  BY DEF AnswerInv, AnswersCovered, Due

LEMMA CoveredAfter ==
  ASSUME UNCHANGED req,
         \A i \in Idens : Members(asked', WithIden(i)) + Count(sock', WithIden(i))
                            <= Count(pending', WithIden(i)) + dups'
  PROVE  AnswersCovered'
  <1>1. \A i : WithIden(i)' = WithIden(i)
    BY DEF WithIden, Nodes
  <1> QED BY <1>1 DEF AnswersCovered, Due

(* An identifier keeps its nodes until another is allocated. *)
LEMMA SameAnswers ==
  ASSUME AnswerInv, UNCHANGED <<req, asked, sock, pending, dups, broken>>
  PROVE  AnswerInv'
  BY DEF AnswerInv, AnswersCovered, Due, WithIden, Nodes, BrokenByDuplicate

LEMMA ReceiveQueryAnswers ==
  ASSUME TypeInv, AnswerInv, NEW q \in Datagrams, ReceiveQuery(q)
  PROVE  AnswerInv'
  <1>1. UNCHANGED <<asked, sock, pending, dups, broken>>
    BY DEF ReceiveQuery, Alive, upstream, forwarder
  <1>2. /\ sock \in Seq(Nodes) /\ pending \in Seq(Nodes) /\ asked \subseteq Nodes
    BY DEF TypeInv, TypeOK
  <1>3. \A i : \A n \in Nodes : n \in WithIden(i) <=> n \in WithIden(i)'
    <2>1. req \in Seq(Datagrams) /\ Len(req) \in Nat /\ req' = Append(req, q)
      BY LenProperties DEF ReceiveQuery, TypeInv, TypeOK
    <2>2. Len(req') = Len(req) + 1 /\ \A n \in 1 .. Len(req) : req'[n] = req[n]
      BY <2>1, AppendProperties
    <2> QED BY <2>1, <2>2 DEF WithIden, Nodes
  <1>4. ASSUME NEW i \in Idens PROVE Due(i)' <= Count(pending, WithIden(i))' + dups'
    <2>1. PICK T, U : T = WithIden(i) /\ U = WithIden(i)'
      OBVIOUS
    <2>2. Count(sock, T) = Count(sock, U) /\ Count(pending, T) = Count(pending, U)
      BY <1>2, <1>3, <2>1, CountAgree
    <2>3. asked \cap T = asked \cap U
      BY <1>2, <1>3, <2>1
    <2> QED BY <1>1, <2>1, <2>2, <2>3 DEF AnswerInv, AnswersCovered, Due, Members
  <1> QED BY <1>1, <1>4 DEF AnswerInv, AnswersCovered, BrokenByDuplicate

(* A request is listed before it is sent. *)
LEMMA FwdTakeAnswers ==
  ASSUME TypeInv, AnswerInv, FwdTake
  PROVE  AnswerInv'
  <1>1. PICK n \in Nodes : pending' = Append(pending, n) /\ asked' = asked \cup {n}
    BY DEF FwdTake
  <1>2. UNCHANGED <<req, sock, dups, broken>>
    BY DEF FwdTake, nodes, Alive
  <1>3. AnswersCovered'
    <2> SUFFICES ASSUME NEW i \in Idens, NEW T, T = WithIden(i)
                 PROVE  Members(asked', T) + Count(sock, T) <= Count(pending', T) + dups
      BY <1>2, CoveredAfter
    <2>1. Count(pending', T) = Count(pending, T) + OneIf(n \in T)
      BY <1>1, CountAppend DEF TypeInv, TypeOK
    <2>2. Members(asked', T) \in Nat /\ Members(asked', T) <= Members(asked, T) + OneIf(n \in T)
      BY <1>1, DueTypes, MembersChange
    <2>3. OneIf(n \in T) \in Nat
      BY DEF OneIf
    <2>4. Members(asked, T) + Count(sock, T) <= Count(pending, T) + dups
      BY CoveredBefore
    <2> QED BY <2>1, <2>2, <2>3, <2>4, DueTypes
  <1> QED BY <1>2, <1>3 DEF AnswerInv, BrokenByDuplicate

LEMMA FwdMatchAnswers ==
  ASSUME TypeInv, AnswerInv, FwdMatch
  PROVE  AnswerInv'
  <1>1. PICK k \in 1 .. Len(pending) :
          pending' = WithoutElement(pending, k) /\ FirstMatch(k, Head(sock))
    BY LenProperties DEF FwdMatch, TypeInv, TypeOK
  <1>2. PICK n, m : n = pending[k] /\ m = Head(sock)
    OBVIOUS
  <1>3. UNCHANGED <<req, asked, dups, broken>> /\ sock # << >> /\ sock' = Tail(sock)
    BY DEF FwdMatch, Alive
  <1>4. /\ sock \in Seq(Nodes) /\ pending \in Seq(Nodes)
        /\ n \in Nodes /\ m \in Nodes /\ req[n].iden = req[m].iden
    BY <1>1, <1>2, <1>3, ElementOfSeq, TailRange DEF TypeInv, TypeOK, FirstMatch, Matches
  <1>5. AnswersCovered'
    <2> SUFFICES ASSUME NEW i \in Idens, NEW T, T = WithIden(i)
                 PROVE  Members(asked, T) + Count(sock', T) <= Count(pending', T) + dups
      BY <1>3, CoveredAfter
    <2>1. Count(pending, T) = Count(pending', T) + OneIf(n \in T)
      BY <1>1, <1>2, <1>4, CountWithout
    <2>2. Count(sock, T) = Count(sock', T) + OneIf(m \in T)
      BY <1>2, <1>3, <1>4, CountTail
    <2>3. OneIf(n \in T) = OneIf(m \in T) /\ OneIf(n \in T) \in Nat
      BY <1>4 DEF WithIden, OneIf
    <2>4. Count(pending', T) \in Nat /\ Count(sock', T) \in Nat
      BY <1>1, <1>3, <1>4, TailRange, WithoutProperties, CountType
    <2>5. Members(asked, T) + Count(sock, T) <= Count(pending, T) + dups
      BY CoveredBefore
    <2> QED BY <2>1, <2>2, <2>3, <2>4, <2>5, DueTypes
  <1> QED BY <1>3, <1>5 DEF AnswerInv, BrokenByDuplicate

(* An answer without a listed request is one too many. *)
LEMMA FwdNoMatchAnswers ==
  ASSUME TypeInv, AnswerInv, FwdNoMatch
  PROVE  AnswerInv'
  <1>1. /\ UNCHANGED <<req, asked, sock, pending, dups>>
        /\ sock # << >> /\ ~Matched(Head(sock))
    BY DEF FwdNoMatch, nodes, upstream, forwarder
  <1>2. /\ sock \in Seq(Nodes) /\ pending \in Seq(Nodes) /\ req \in Seq(Datagrams)
        /\ Head(sock) \in Nodes
    BY <1>1, TailRange DEF TypeInv, TypeOK
  <1>3. PICK i : i = req[Head(sock)].iden
    OBVIOUS
  <1>4. PICK T : T = WithIden(i)
    OBVIOUS
  <1>5. i \in Idens /\ Head(sock) \in T
    BY <1>2, <1>3, <1>4, ElementOfSeq DEF Nodes, Idens, WithIden
  <1>6. Count(sock, T) = Count(Tail(sock), T) + 1 /\ Count(Tail(sock), T) \in Nat
    BY <1>1, <1>2, <1>5, CountTail, TailRange, CountType DEF OneIf
  <1>7. Count(pending, T) = 0
    <2>1. \A j \in 1 .. Len(pending) : pending[j] \notin T
      BY <1>1, <1>2, <1>3, <1>4, LenProperties DEF Matched, Matches, WithIden
    <2> QED BY <1>2, <2>1, CountType
  <1>8. dups > 0
    <2>1. Members(asked, T) + Count(sock, T) <= Count(pending, T) + dups
      BY <1>4, <1>5, CoveredBefore
    <2> QED BY <1>6, <1>7, <2>1, DueTypes
  <1>9. AnswersCovered'
    BY <1>1, CoveredAfter, CoveredBefore
  <1> QED BY <1>1, <1>8, <1>9 DEF AnswerInv, BrokenByDuplicate

(* An answer reaches the forwarder, once or twice, or does not. *)
LEMMA UpstreamAnswers ==
  ASSUME TypeInv, AnswerInv, Upstream
  PROVE  AnswerInv'
  <1>1. PICK n \in Nodes :
          \/ n \in asked /\ asked' = asked \ {n} /\ sock' = Append(sock, n) /\ dups' = dups
          \/ UNCHANGED asked /\ sock' = Append(sock, n) /\ dups' = dups + 1
          \/ asked' = asked \ {n} /\ UNCHANGED <<sock, dups>>
    BY DEF Upstream, UpstreamAnswer, UpstreamAnswerTwice, UpstreamLoss
  <1>2. UNCHANGED <<req, pending, broken>> /\ sock \in Seq(Nodes)
    BY DEF Upstream, UpstreamAnswer, UpstreamAnswerTwice, UpstreamLoss, Alive, nodes, forwarder,
           TypeInv, TypeOK
  <1>3. AnswersCovered'
    <2> SUFFICES ASSUME NEW i \in Idens, NEW T, T = WithIden(i)
                 PROVE  Members(asked', T) + Count(sock', T) <= Count(pending, T) + dups'
      BY <1>2, CoveredAfter
    <2>1. Members(asked, T) + Count(sock, T) <= Count(pending, T) + dups
      BY CoveredBefore
    <2>2. /\ Members(asked \ {n}, T) \in Nat
          /\ Members(asked \ {n}, T) = Members(asked, T) - OneIf(n \in asked \cap T)
      BY DueTypes, MembersChange
    <2>3. Count(Append(sock, n), T) = Count(sock, T) + OneIf(n \in T)
      BY <1>2, CountAppend
    <2>4. OneIf(n \in T) \in {0, 1} /\ OneIf(n \in asked \cap T) \in {0, 1}
      BY DEF OneIf
    <2>5. CASE n \in asked /\ asked' = asked \ {n} /\ sock' = Append(sock, n) /\ dups' = dups
      <3>1. OneIf(n \in asked \cap T) = OneIf(n \in T)
        BY <2>5 DEF OneIf
      <3> QED BY <2>1, <2>2, <2>3, <2>4, <2>5, <3>1, DueTypes
    <2>6. CASE UNCHANGED asked /\ sock' = Append(sock, n) /\ dups' = dups + 1
      BY <2>1, <2>3, <2>4, <2>6, DueTypes
    <2>7. CASE asked' = asked \ {n} /\ UNCHANGED <<sock, dups>>
      BY <2>1, <2>2, <2>4, <2>7, DueTypes
    <2> QED BY <1>1, <2>5, <2>6, <2>7
  <1>4. BrokenByDuplicate'
    <2>1. dups \in Nat
      BY DueTypes
    <2> QED BY <1>1, <1>2, <2>1 DEF AnswerInv, BrokenByDuplicate
  <1> QED BY <1>3, <1>4 DEF AnswerInv

LEMMA NextAnswerInv ==
  ASSUME TypeInv, AnswerInv, [Next]_vars
  PROVE  AnswerInv'
  <1>1. CASE UNCHANGED vars \/ Work \/ Respond \/ FwdNothingToTake \/ FwdPollNothing
             \/ FwdInsert \/ FwdEnqueue
    <2>1. UNCHANGED <<req, asked, sock, pending, dups, broken>>
      BY <1>1 DEF vars, nodes, upstream, forwarder, Alive, Work, WorkTake, WorkSearch, WorkRoute,
                  Respond, RespTake, RespSend, FwdNothingToTake, FwdPollNothing, FwdInsert, FwdEnqueue
    <2> QED BY <2>1, SameAnswers
  <1>2. CASE Main
    BY <1>2, ReceiveQueryAnswers DEF Main
  <1>3. CASE FwdTake \/ FwdMatch \/ FwdNoMatch
    BY <1>3, FwdTakeAnswers, FwdMatchAnswers, FwdNoMatchAnswers
  <1> QED BY <1>1, <1>2, <1>3, UpstreamAnswers DEF Next, Forward

(* The forwarder meets an answer it has no request for only after some     *)
(* answer came twice: losses, reordering and identifiers that clients      *)
(* share never lead there.                                                 *)
THEOREM ServerBrokenByDuplicate == Spec => [](AnswersCovered /\ BrokenByDuplicate)
  <1>1. Init => AnswerInv
    <2> SUFFICES ASSUME Init PROVE AnswerInv
      OBVIOUS
    <2>1. \A T : Members(asked, T) = 0 /\ Count(sock, T) = 0 /\ Count(pending, T) = 0
      BY CountEmpty, FS_EmptySet DEF Init, Members
    <2>2. dups = 0 /\ broken = FALSE
      BY DEF Init
    <2> QED BY <2>1, <2>2 DEF AnswerInv, AnswersCovered, Due, BrokenByDuplicate
  <1>2. TypeInv /\ AnswerInv /\ [Next]_vars => AnswerInv'
    BY NextAnswerInv
  <1> QED BY <1>1, <1>2, InitTypeInv, NextTypeInv, PTL DEF Spec, AnswerInv

(* When the network delivers no answer twice, the forwarder finds a listed *)
(* request for every answer that reaches it, whatever identifiers the      *)
(* clients choose.                                                         *)
THEOREM ServerEveryAnswerMatches ==
  ASSUME MaxDups = 0
  PROVE  Spec => []EveryAnswerMatches
  <1>1. TypeInv /\ BrokenByDuplicate => EveryAnswerMatches
    BY DEF TypeInv, TypeOK, BrokenByDuplicate, EveryAnswerMatches
  <1>2. Spec => []TypeInv
    BY InitTypeInv, NextTypeInv, PTL DEF Spec
  <1> QED BY <1>1, <1>2, ServerBrokenByDuplicate, PTL

-----------------------------------------------------------------------------
(* The server implements DnsService: whatever its threads do, a datagram   *)
(* is replied to or dropped, once, and a reply is the right one.           *)

(* Nothing but a query the parser accepts goes further than the worker.    *)
AcceptedOnly ==
  /\ \A n \in Range(ring["forward"]) \cup Range(ring["bundle"]) \cup Range(pending) :
       req[n].kind = "a"
  /\ workPc # "idle" => req[workNode].kind = "a"
  /\ fwdPc \in {"insert", "enqueue"} => req[fwdNode].kind = "a"
  /\ respNode # None => req[respNode].kind = "a"

(* What is replied to has been given back. *)
SentFreed == \A s \in sent : s.node \in freed

AcceptInv == AcceptedOnly /\ SentFreed

LEMMA ReceiveQueryAccepts ==
  ASSUME TypeInv, AcceptInv, NEW q \in Datagrams, ReceiveQuery(q)
  PROVE  AcceptInv'
  <1>1. \A n \in Nodes : req'[n] = req[n]
    <2>1. req \in Seq(Datagrams)
      BY DEF TypeInv, TypeOK
    <2> QED BY <2>1, AppendProperties DEF ReceiveQuery, Nodes
  <1>2. ring'["forward"] = ring["forward"] /\ ring'["bundle"] = ring["bundle"]
    BY DEF ReceiveQuery, Enqueue, Rings, TypeInv, TypeOK
  <1>3. /\ Range(ring["forward"]) \subseteq Nodes /\ Range(ring["bundle"]) \subseteq Nodes
        /\ Range(pending) \subseteq Nodes
    BY OnTheWay DEF Rings
  <1>4. UNCHANGED <<sent, freed, workPc, workNode, fwdPc, fwdNode, pending, respNode>>
    BY DEF ReceiveQuery, worker, forwarder
  <1>5. AcceptedOnly'
    BY <1>1, <1>2, <1>3, <1>4 DEF AcceptInv, AcceptedOnly, TypeInv, TypeOK, Holding
  <1> QED BY <1>4, <1>5 DEF AcceptInv, SentFreed

LEMMA WorkAccepts ==
  ASSUME TypeInv, AcceptInv, Work
  PROVE  AcceptInv'
  <1>1. UNCHANGED <<req, sent, freed, fwdPc, fwdNode, pending, respNode>>
    BY DEF Work, WorkTake, WorkSearch, WorkRoute, nodes, forwarder
  <1>2. CASE WorkTake
    <2>1. \/ workPc' = "search" /\ req[workNode'].kind = "a"
          \/ workPc' = "idle"
      BY <1>2 DEF WorkTake
    <2>2. ring'["forward"] = ring["forward"] /\ ring'["bundle"] = ring["bundle"]
      BY <1>2 DEF WorkTake, Dequeue, Rings, TypeInv, TypeOK
    <2> QED BY <1>1, <2>1, <2>2 DEF AcceptInv, AcceptedOnly, SentFreed
  <1>3. CASE WorkSearch
    BY <1>1, <1>3 DEF WorkSearch, AcceptInv, AcceptedOnly, SentFreed
  <1>4. CASE WorkRoute
    <2>1. workNode \in Nodes /\ req[workNode].kind = "a" /\ workPc' = "idle"
      BY <1>4 DEF WorkRoute, TypeInv, Holding, AcceptInv, AcceptedOnly
    <2>2. PICK r \in Rings : Enqueue(r, workNode)
      BY <1>4 DEF WorkRoute, Rings
    <2>3. \A t \in Rings : \A m \in Range(ring'[t]) : m \in Range(ring[t]) \/ m = workNode
      BY <2>1, <2>2, EnqueueRings DEF TypeInv, TypeOK
    <2> QED BY <1>1, <2>1, <2>3 DEF AcceptInv, AcceptedOnly, SentFreed, Rings
  <1> QED BY <1>2, <1>3, <1>4 DEF Work

LEMMA FwdAccepts ==
  ASSUME TypeInv, AcceptInv, Forward
  PROVE  AcceptInv'
  <1>1. UNCHANGED <<req, sent, freed, workPc, workNode, respNode>>
    BY DEF Forward, FwdTake, FwdNothingToTake, FwdPollNothing, FwdMatch, FwdNoMatch, FwdInsert,
           FwdEnqueue, nodes, worker
  <1>2. CASE FwdTake
    <2>1. PICK n \in Nodes : Dequeue("forward", n) /\ pending' = Append(pending, n)
      BY <1>2 DEF FwdTake
    <2>2. fwdPc' = "poll"
      BY <1>2 DEF FwdTake
    <2>3. /\ n \in Range(ring["forward"])
          /\ Range(ring'["forward"]) \subseteq Range(ring["forward"])
          /\ Range(ring'["bundle"]) \subseteq Range(ring["bundle"])
      BY <2>1, DequeueRings DEF Rings, TypeInv, TypeOK
    <2>4. \A m \in Range(pending') : m \in Range(pending) \/ m = n
      BY <2>1, AppendRange DEF TypeInv, TypeOK
    <2> QED BY <1>1, <2>2, <2>3, <2>4 DEF AcceptInv, AcceptedOnly, SentFreed
  <1>3. CASE FwdMatch
    <2>1. PICK i \in 1 .. Len(pending) :
            pending' = WithoutElement(pending, i) /\ fwdNode' = pending[i]
      BY <1>3, LenProperties DEF FwdMatch, TypeInv, TypeOK
    <2>2. Range(pending') \subseteq Range(pending) /\ fwdNode' \in Range(pending)
      BY <2>1, WithoutRange, InRange DEF TypeInv, TypeOK
    <2>3. UNCHANGED ring
      BY <1>3 DEF FwdMatch
    <2> QED BY <1>1, <2>2, <2>3 DEF AcceptInv, AcceptedOnly, SentFreed
  <1>4. CASE FwdNothingToTake \/ FwdPollNothing \/ FwdNoMatch \/ FwdInsert
    <2>1. /\ UNCHANGED <<ring, pending, fwdNode>>
          /\ fwdPc' \in {"insert", "enqueue"} => fwdPc \in {"insert", "enqueue"}
      BY <1>4 DEF FwdNothingToTake, FwdPollNothing, FwdNoMatch, FwdInsert, forwarder
    <2> QED BY <1>1, <2>1 DEF AcceptInv, AcceptedOnly, SentFreed
  <1>5. CASE FwdEnqueue
    <2>1. /\ fwdNode \in Nodes /\ req[fwdNode].kind = "a" /\ fwdPc' = "take" /\ UNCHANGED pending
          /\ Enqueue("bundle", fwdNode) /\ "bundle" \in Rings
      BY <1>5 DEF FwdEnqueue, TypeInv, Holding, AcceptInv, AcceptedOnly, Rings
    <2>2. \A t \in Rings : \A m \in Range(ring'[t]) : m \in Range(ring[t]) \/ m = fwdNode
      BY <2>1, EnqueueRings DEF TypeInv, TypeOK
    <2> QED BY <1>1, <2>1, <2>2 DEF AcceptInv, AcceptedOnly, SentFreed, Rings
  <1> QED BY <1>2, <1>3, <1>4, <1>5 DEF Forward

LEMMA RespondAccepts ==
  ASSUME TypeInv, AcceptInv, Respond
  PROVE  AcceptInv'
  <1>1. UNCHANGED <<req, workPc, workNode, fwdPc, fwdNode, pending>>
    BY DEF Respond, RespTake, RespSend, nodes, worker, forwarder
  <1>2. CASE RespTake
    <2>1. PICK n \in Nodes : Dequeue("bundle", n) /\ respNode' = n
      BY <1>2 DEF RespTake
    <2>2. /\ n \in Range(ring["bundle"])
          /\ Range(ring'["forward"]) \subseteq Range(ring["forward"])
          /\ Range(ring'["bundle"]) \subseteq Range(ring["bundle"])
      BY <2>1, DequeueRings DEF Rings, TypeInv, TypeOK
    <2>3. UNCHANGED <<sent, freed>>
      BY <1>2 DEF RespTake, nodes
    <2> QED BY <1>1, <2>1, <2>2, <2>3 DEF AcceptInv, AcceptedOnly, SentFreed
  <1>3. CASE RespSend
    BY <1>1, <1>3 DEF RespSend, AcceptInv, AcceptedOnly, SentFreed
  <1> QED BY <1>2, <1>3 DEF Respond

LEMMA NextAcceptInv ==
  ASSUME TypeInv, AcceptInv, [Next]_vars
  PROVE  AcceptInv'
  <1>1. CASE UNCHANGED vars \/ Upstream
    <2>1. UNCHANGED <<nodes, ring, worker, forwarder, respNode>>
      BY <1>1 DEF vars, Upstream, UpstreamAnswer, UpstreamAnswerTwice, UpstreamLoss
    <2> QED BY <2>1 DEF AcceptInv, AcceptedOnly, SentFreed, nodes, worker, forwarder
  <1>2. CASE Main
    BY <1>2, ReceiveQueryAccepts DEF Main
  <1> QED BY <1>1, <1>2, WorkAccepts, FwdAccepts, RespondAccepts DEF Next

LEMMA InitAcceptInv == Init => AcceptInv
  <1> SUFFICES ASSUME Init PROVE AcceptInv
    OBVIOUS
  <1>1. \A n : n \notin Range(<< >>)
    BY DEF Range
  <1> QED BY <1>1 DEF Init, AcceptInv, AcceptedOnly, SentFreed, Rings

-----------------------------------------------------------------------------
(* The steps of DnsService.                                                *)

(* A node on a ring or in hand has neither been answered nor dropped. *)
LEMMA StillOpen ==
  ASSUME TypeInv, OwnerInv, AcceptInv, NEW n \in Nodes,
         OnRings(n) > 0 \/ workNode = n \/ fwdNode = n \/ respNode = n
  PROVE  n \in Service!Open
  <1>1. n \notin lost /\ n \notin freed
    BY OneOwner
  <1> QED BY <1>1 DEF Service!Open, Nodes, AcceptInv, SentFreed

(* A datagram is received; when the worker's ring refuses it, or there is  *)
(* nothing in it, it is dropped on arrival.                                *)
LEMMA ReceiveQueryIsReceive ==
  ASSUME TypeInv, NEW q \in Datagrams, ReceiveQuery(q)
  PROVE  Service!Receive(q)
  <1>1. Len(req) \in Nat /\ MaxQueries \in Nat
    BY LenProperties, ServerAssumption DEF TypeInv, TypeOK
  <1>2. Len(req) < MaxQueries /\ req' = Append(req, q) /\ UNCHANGED sent
    BY <1>1 DEF ReceiveQuery, Node
  <1>3. lost' \in {lost, lost \cup {Len(req) + 1}}
    BY DEF ReceiveQuery, Enqueue
  <1> QED BY <1>2, <1>3 DEF Service!Receive

(* A thread passes a node on, or drops it when the ring refuses it. *)
LEMMA EnqueueIsDrop ==
  ASSUME TypeInv, OwnerInv, AcceptInv, UNCHANGED <<req, sent>>,
         NEW r \in Rings, NEW n \in Nodes, Enqueue(r, n), workNode = n \/ fwdNode = n
  PROVE  [Service!Next]_Service!vars
  <1>1. n \in Service!Open
    BY StillOpen
  <1>2. UNCHANGED lost \/ Service!Drop(n)
    BY DEF Enqueue, Service!Drop
  <1> QED BY <1>1, <1>2 DEF Service!Next, Service!vars

(* The reply carries the address of the name asked for. *)
LEMMA RespSendIsReply ==
  ASSUME TypeInv, OwnerInv, AcceptInv, FaithInv, RespSend
  PROVE  [Service!Next]_Service!vars
  <1>1. respNode \in Nodes /\ respNode # None
    BY DEF RespSend, TypeInv, TypeOK
  <1>2. respNode \in Service!Open
    BY <1>1, StillOpen
  <1>3. ipv4[respNode] = AddrOf(req[respNode].name) /\ req[respNode].kind = "a"
    BY <1>1 DEF FaithInv, ReplyInv, NameOf, AcceptInv, AcceptedOnly
  <1>4. Service!Reply(respNode)
    BY <1>3 DEF RespSend, Service!Reply
  <1> QED BY <1>2, <1>4 DEF Service!Next

LEMMA StepRefines ==
  ASSUME TypeInv, OwnerInv, AcceptInv, FaithInv, [Next]_vars
  PROVE  [Service!Next]_Service!vars
  <1>1. CASE UNCHANGED vars \/ WorkSearch \/ FwdTake \/ FwdNothingToTake \/ FwdPollNothing \/ FwdMatch
             \/ FwdNoMatch \/ FwdInsert \/ RespTake \/ Upstream
    <2>1. UNCHANGED <<req, sent, lost>>
      BY <1>1 DEF vars, nodes, WorkSearch, FwdTake, FwdNothingToTake, FwdPollNothing, FwdMatch,
                  FwdNoMatch, FwdInsert, RespTake, Upstream, UpstreamAnswer, UpstreamAnswerTwice,
                  UpstreamLoss
    <2> QED BY <2>1 DEF Service!vars
  <1>2. CASE Main
    BY <1>2, ReceiveQueryIsReceive DEF Main, Service!Next
  <1>3. CASE WorkTake
    <2>1. PICK n \in Nodes : Dequeue("work", n) /\ lost' \in {lost, lost \cup {n}}
      BY <1>3 DEF WorkTake
    <2>2. n \in Service!Open
      <3>1. OnRings(n) = OnRings(n)' + 1 /\ OnRings(n)' \in Nat
        BY <2>1, DequeueOwners DEF Rings, OneIf
      <3> QED BY <3>1, StillOpen
    <2>3. UNCHANGED <<req, sent>>
      BY <1>3 DEF WorkTake
    <2> QED BY <2>1, <2>2, <2>3 DEF Service!Next, Service!Drop, Service!vars
  <1>4. CASE WorkRoute
    <2>1. /\ workNode \in Nodes /\ UNCHANGED <<req, sent>>
          /\ \E r \in Rings : Enqueue(r, workNode)
      BY <1>4 DEF WorkRoute, TypeInv, Holding, Rings
    <2> QED BY <2>1, EnqueueIsDrop
  <1>5. CASE FwdEnqueue
    <2>1. /\ fwdNode \in Nodes /\ UNCHANGED <<req, sent>>
          /\ Enqueue("bundle", fwdNode) /\ "bundle" \in Rings
      BY <1>5 DEF FwdEnqueue, TypeInv, Holding, Rings
    <2> QED BY <2>1, EnqueueIsDrop
  <1>6. CASE RespSend
    BY <1>6, RespSendIsReply
  <1> QED BY <1>1, <1>2, <1>3, <1>4, <1>5, <1>6 DEF Next, Work, Forward, Respond

(* Every behaviour of the four threads is one of DnsService: a datagram is *)
(* replied to at most once, never after it was dropped, and with the       *)
(* address of the name it asks for.                                        *)
THEOREM ServerImplementsService ==
  ASSUME IdentifiersTellNames, ~MayMisread
  PROVE  Spec => ImplementsService
  <1>1. Init => Service!Init
    BY DEF Init, Service!Init
  <1>2. TypeInv /\ AcceptInv /\ [Next]_vars => AcceptInv'
    BY NextAcceptInv
  <1>3. TypeInv /\ OwnerInv /\ AcceptInv /\ FaithInv /\ [Next]_vars => [Service!Next]_Service!vars
    BY StepRefines
  <1> QED BY <1>1, <1>2, <1>3, InitAcceptInv, ServerOwners, ServerFaith, PTL
      DEF Spec, ImplementsService, Service!Spec
=============================================================================
