---------------------------- MODULE MCDnsServer ----------------------------
(* Instances of DnsServer for TLC. *)
EXTENDS DnsServer

CONSTANTS c1, c2, na, nb, nc, i1, i2, i3

Query(client, iden, name) == [client |-> client, iden |-> iden, name |-> name, kind |-> "a"]
Junk(kind) == [client |-> c1, iden |-> i1, name |-> na, kind |-> kind]

(* Clients that share no identifier unless they ask for the same name. *)
IdenPerName == {Query(c1, i1, na), Query(c2, i1, na), Query(c2, i2, nb)}
(* Besides, a name with a configured record and datagrams nobody answers.  *)
IdenPerNameAndMore == IdenPerName \cup {Query(c2, i3, nc), Junk("other"), Junk("empty")}

(* Two clients that happen to pick the same identifier. *)
SharedIden == {Query(c1, i1, na), Query(c2, i1, nb)}
SharedAndOwnIden == SharedIden \cup {Query(c1, i2, nc)}

AllNames == {na, nb, nc}
NoName == {}
JustB == {nb}

(* DNS.conf gives nc an address, or one that inet_pton rejects.            *)
GoodRecord == [x \in {nc} |-> na]
BadRecord == [x \in {nc} |-> NoAddr]
=============================================================================
