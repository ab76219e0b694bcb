----------------------------- MODULE DnsService -----------------------------
(***************************************************************************)
(* What the server promises its clients, whatever threads and rings are    *)
(* inside: every datagram received is disposed of at most once, either     *)
(* with one reply that carries what the upstream server says of the name   *)
(* asked for, or without any.                                              *)
(***************************************************************************)
EXTENDS Naturals, Sequences

CONSTANTS
  Datagram,      \* what a client can send: records with a name and a kind
  AddrOf(_),     \* the upstream server's answer for a name
  MaxQueries     \* bound: datagrams received

VARIABLES
  req,           \* the datagrams received, in order of arrival
  replies,       \* the replies sent: the query each is for, and its address
  dropped        \* the datagrams that will have no reply

vars == <<req, replies, dropped>>

Open == {n \in 1 .. Len(req) : n \notin dropped /\ ~\E r \in replies : r.node = n}

Init == req = << >> /\ replies = {} /\ dropped = {}

(* A datagram arrives, and may be discarded on arrival. *)
Receive(q) ==
  /\ Len(req) < MaxQueries
  /\ req' = Append(req, q)
  /\ dropped' \in {dropped, dropped \cup {Len(req) + 1}}
  /\ UNCHANGED replies

(* Only a query the parser accepts is answered. *)
Reply(n) ==
  /\ req[n].kind = "a"
  /\ replies' = replies \cup {[node |-> n, addr |-> AddrOf(req[n].name)]}
  /\ UNCHANGED <<req, dropped>>

Drop(n) ==
  /\ dropped' = dropped \cup {n}
  /\ UNCHANGED <<req, replies>>

Next ==
  \/ \E q \in Datagram : Receive(q)
  \/ \E n \in Open : Reply(n) \/ Drop(n)

Spec == Init /\ [][Next]_vars
=============================================================================
