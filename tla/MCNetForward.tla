---------------------------- MODULE MCNetForward ----------------------------
(* Instances of NetForward for TLC. *)
EXTENDS NetForward

CONSTANTS b1, b2, n1, n2, n3, u1

TwoBuckets == {b1, b2}
ThreeNodes == {n1, n2, n3}
Pointers == TwoBuckets \cup ThreeNodes \cup {u1}
SymmetricNodes == Permutations(ThreeNodes)

(* Identifiers 1 and 2 share a bucket. *)
FourIdens == [i \in 1 .. 4 |-> IF i <= 2 THEN b1 ELSE b2]

(* The names a.b, cc and d. *)
AB == <<<<97>>, <<98>>>>
CC == <<<<99, 99>>>>
D == <<<<100>>>>
Root == << >>
TypeAAAA == 28

Asks(iden, name) == [iden |-> iden, name |-> name, type |-> TypeA, edns |-> FALSE]
AsksEdns(iden, name) == [Asks(iden, name) EXCEPT !.edns = TRUE]

(* Three names, one of them asked for with an additional record, and what  *)
(* the parser turns away.                                                  *)
SeveralQueries ==
  {AsksEdns(1, AB), Asks(2, CC), Asks(3, D),
   [Asks(3, D) EXCEPT !.type = TypeAAAA], Asks(4, Root)}
PlainAndEdns == {Asks(1, AB), AsksEdns(2, CC)}
JustPlain == {Asks(1, AB), Asks(2, CC)}
TwoIdens == [i \in 1 .. 2 |-> b1]

(* The records begin behind the question; the data of the first of them    *)
(* lies 12 octets further, where its owner is a pointer.                   *)
RecordsAt(name) == HeaderLen + Len(WireName(name)) + 4
PointerTo(offset) == <<192, offset>>
ToQuestion == PointerTo(HeaderLen)
Address(owner, last) == [owner |-> owner, type |-> TypeA, data |-> <<10, 0, 0, last>>]
Alias(target) == [owner |-> ToQuestion, type |-> TypeCNAME, data |-> target]

(* a.b is an alias of ee.b, whose record has a pointer into the alias for  *)
(* its owner, or the name in full; cc has an address of its own, and with  *)
(* it a second in full; d has an alias without one.                       *)
EEB == <<<<101, 101>>, <<98>>>>
SeveralAnswers ==
  [name \in {AB, CC, D, Root} |->
     CASE name = AB -> {<<Alias(WireName(EEB)), Address(PointerTo(RecordsAt(AB) + 12), 1)>>,
                        <<Alias(WireName(EEB)), Address(WireName(EEB), 2)>>}
       [] name = CC -> {<<Address(ToQuestion, 3), Address(WireName(CC), 4)>>}
       [] OTHER     -> {<<Alias(WireName(EEB))>>}]

(* a.b is an alias of f.b: one letter and a pointer to the ".b" of a.b.    *)
ShortAlias == <<1, 102>> \o PointerTo(HeaderLen + 2)
AnswersWithShortAlias ==
  [name \in {AB, CC} |->
     IF name = AB THEN {<<Alias(ShortAlias), Address(PointerTo(RecordsAt(AB) + 12), 1)>>}
                  ELSE {<<Address(ToQuestion, 3)>>}]

(* What the theorems about addresses and replies are under: forward.cfg    *)
(* meets all of it, forward_cname.cfg has four octets of data in an alias. *)
ASSUME InstancesReadable == IdensApart /\ OwnersReadable /\ NamesApart
ASSUME InstancesFour == JustAddressesFour <=> Answers # AnswersWithShortAlias
=============================================================================
