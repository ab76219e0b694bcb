----------------------------- MODULE DnsMessage -----------------------------
(***************************************************************************)
(* How the server reads and writes DNS messages: the worker's parser, the  *)
(* forwarder's walk over the records of an answer, the responder's reply.  *)
(* A message is the sequence of its octets, so that the offsets are those  *)
(* of the code plus one; the header takes the first twelve.                *)
(***************************************************************************)
EXTENDS Integers, Sequences, SequencesExt

U16(msg, i) == 256 * msg[i] + msg[i + 1]
Octets16(n) == <<n \div 256, n % 256>>
WithBit(octet, bit) == IF (octet \div bit) % 2 = 1 THEN octet ELSE octet + bit

HeaderLen == 12
Iden(msg) == U16(msg, 1)
QdCount(msg) == U16(msg, 5)
AnCount(msg) == U16(msg, 7)
NsCount(msg) == U16(msg, 9)
ArCount(msg) == U16(msg, 11)

TypeA == 1
TypeCNAME == 5
ClassIN == 1
Unresolved == <<0, 0, 0, 0>>   \* ipv4 = 0
Dot == 46                      \* '.'

(* What a message is put together from.  Labels and records are those of   *)
(* RFC 1035: no label is empty or longer than 63 octets, and the length of *)
(* a record's data is a word.                                              *)
Octet == 0 .. 255
Word == 0 .. 256 * 256 - 1
Label == {s \in Seq(Octet) : Len(s) \in 1 .. 63}
Records == [owner : Seq(Octet), type : Word, data : {s \in Seq(Octet) : Len(s) \in Word}]

-----------------------------------------------------------------------------
(* net_work_module_inside_parser *)

(* Seeded fault: every label is followed by a dot, the last one, too.      *)
QuestionDotted(msg) ==
  LET from[p \in Nat] ==
        IF msg[p] = 0 THEN [host |-> << >>, end |-> p + 1]
        ELSE LET rest == p + 1 + msg[p]
             IN  [host |-> SubSeq(msg, p + 1, rest - 1) \o <<Dot>> \o from[rest].host,
                  end  |-> from[rest].end]
  IN  from[HeaderLen + 1]

(* node->data.request is zero behind what recvfrom puts there.             *)
Zero(msg, p) == p > Len(msg) \/ msg[p] = 0

(* The question's name, its labels joined by dots, and where it ends. *)
Question(msg) ==
  LET from[p \in Nat \ {0}] ==
        IF Zero(msg, p) THEN [host |-> << >>, end |-> p + 1]
        ELSE LET rest == p + 1 + msg[p]
                 dot  == IF Zero(msg, rest) THEN << >> ELSE <<Dot>>
             IN  [host |-> SubSeq(msg, p + 1, rest - 1) \o dot \o from[rest].host,
                  end  |-> from[rest].end]
  IN  from[HeaderLen + 1]

(* One question, of type A and not for the root; no records but at most    *)
(* one additional one.  The length of the first label is read as a signed  *)
(* char.                                                                   *)
Accepted(msg) ==
  /\ QdCount(msg) = 1 /\ AnCount(msg) = 0 /\ NsCount(msg) = 0 /\ ArCount(msg) <= 1
  /\ msg[HeaderLen + 1] \in 1 .. 127
  /\ U16(msg, Question(msg).end) = TypeA

-----------------------------------------------------------------------------
(* net_forward_module_inside_gethostaddr and _parse_response *)

(* The flags are a little-endian load of octets 3 and 4: 0x1 is RD.        *)
AskRecursion(msg) == [msg EXCEPT ![3] = WithBit(@, 1)]

(* while( *pos++ != 0); a name without a zero would end with the message.  *)
AfterZero(msg, p) ==
  1 + (CHOOSE z \in p .. Len(msg) + 1 : Zero(msg, z) /\ \A y \in p .. z - 1 : ~Zero(msg, y))

(* Seeded fault: the length of the data is not looked at. *)
AddressInAnyLength(msg, hostLen) ==
  LET p == HeaderLen + hostLen + 6 + 1
      fixed == IF msg[p] >= 192 THEN p + 2 ELSE AfterZero(msg, p)
  IN  IF p > Len(msg) THEN Unresolved
      ELSE SubSeq(msg, fixed + 10, fixed + 9 + U16(msg, fixed + 8))

(* Seeded fault: an owner name that is spelled out is taken for a pointer. *)
AddressInAllCompressed(msg, hostLen) ==
  LET from[p \in Nat] ==
        IF p > Len(msg) THEN Unresolved
        ELSE LET data == p + 2 + 10
                 len  == U16(msg, data - 2)
             IN  IF len = 4 THEN SubSeq(msg, data, data + 3) ELSE from[data + len]
  IN  from[HeaderLen + hostLen + 6 + 1]

(* The records start behind the question, whose length the name without    *)
(* its dots' encoding gives.  An owner name is a pointer of two octets, or *)
(* runs up to a zero; after type, class and TTL comes the length, and four *)
(* octets of data are an address, whatever the type of the record.  It     *)
(* goes on behind the data until the message ends.                         *)
AddressIn(msg, hostLen) ==
  LET start == HeaderLen + hostLen + 6 + 1
      from[p \in 1 .. Len(msg)] ==
        LET fixed == IF msg[p] >= 192 THEN p + 2 ELSE AfterZero(msg, p)
            data  == fixed + 10
            len   == U16(msg, data - 2)
        IN  IF len = 4 THEN SubSeq(msg, data, data + 3)
            ELSE IF data + len \in p + 1 .. Len(msg) THEN from[data + len] ELSE Unresolved
  IN  IF start > Len(msg) THEN Unresolved ELSE from[start]

-----------------------------------------------------------------------------
(* net_bundle_core_module_inside_write_back *)

(* Seeded fault: the answer count stays as it was. *)
ReplyUncounted(msg, addr) ==
  [msg EXCEPT ![3] = WithBit(@, 128), ![4] = WithBit(@, 128)]
  \o <<192, HeaderLen>> \o Octets16(TypeA) \o Octets16(ClassIN)
  \o Octets16(128) \o <<0, 0>> \o Octets16(4) \o addr

(* The query becomes the reply: QR and RA are set, one answer is counted,  *)
(* and the record is put behind the last octet received.  Only the upper   *)
(* half of the TTL is written; the buffer was zeroed.                      *)
Reply(msg, addr) ==
  [msg EXCEPT ![3] = WithBit(@, 128), ![4] = WithBit(@, 128), ![7] = 0, ![8] = 1]
  \o <<192, HeaderLen>> \o Octets16(TypeA) \o Octets16(ClassIN)
  \o Octets16(128) \o <<0, 0>> \o Octets16(4) \o addr

-----------------------------------------------------------------------------
(* The other side, from RFC 1035: what clients and upstream send, and how  *)
(* a client reads what it gets.                                            *)

TypeOPT == 41

WireName(labels) == FlattenSeq([i \in DOMAIN labels |-> <<Len(labels[i])>> \o labels[i]]) \o <<0>>
Dotted(labels) ==
  FlattenSeq([i \in DOMAIN labels |-> labels[i] \o (IF i < Len(labels) THEN <<Dot>> ELSE << >>)])

WireRecord(r) ==
  r.owner \o Octets16(r.type) \o Octets16(ClassIN) \o <<0, 0, 0, 60>> \o Octets16(Len(r.data)) \o r.data
WireRecords(records) == FlattenSeq([i \in DOMAIN records |-> WireRecord(records[i])])

OptRecord == [owner |-> <<0>>, type |-> TypeOPT, data |-> << >>]
Extras(q) == IF q.edns THEN <<OptRecord>> ELSE << >>

(* The datagram of a query: [iden, name, type, edns]. *)
WireQuery(q) ==
  Octets16(q.iden) \o <<1, 0>> \o Octets16(1) \o Octets16(0) \o Octets16(0) \o Octets16(Len(Extras(q)))
  \o WireName(q.name) \o Octets16(q.type) \o Octets16(ClassIN) \o WireRecords(Extras(q))

(* Upstream's answer to it, with these records in the answer section.      *)
WireAnswer(q, records) ==
  Octets16(q.iden) \o <<129, 128>> \o Octets16(1) \o Octets16(Len(records)) \o Octets16(0)
  \o Octets16(Len(Extras(q)))
  \o WireName(q.name) \o Octets16(q.type) \o Octets16(ClassIN)
  \o WireRecords(records \o Extras(q))

(* Owner names the walk gets past: a pointer, or labels up to a zero.      *)
ReadableOwner(owner) ==
  \/ Len(owner) = 2 /\ owner[1] >= 192
  \/ /\ owner # << >> /\ owner[1] < 192 /\ owner[Len(owner)] = 0
     /\ \A i \in 1 .. Len(owner) - 1 : owner[i] # 0
Readable(records) == \A i \in DOMAIN records : ReadableOwner(records[i].owner)

(* The walk takes the length of the data for the type of the record.       *)
FoursAreA(records) == \A i \in DOMAIN records : records[i].type = TypeA <=> Len(records[i].data) = 4

(* The address upstream gives: that of the first A record.                 *)
AddressOf(records) ==
  LET i == SelectInSeq(records, LAMBDA r : r.type = TypeA)
  IN  IF i = 0 THEN Unresolved ELSE records[i].data

(* What a client finds in the first record of the answer section, and how  *)
(* much of the datagram is left behind it.  An owner is a pointer or root. *)
ReadReply(msg) ==
  LET owner == Question(msg).end + 4
      fixed == IF msg[owner] = 0 THEN owner + 1 ELSE owner + 2
      len   == U16(msg, fixed + 8)
  IN  [iden |-> Iden(msg), response |-> msg[3] >= 128, counts |-> <<QdCount(msg), AnCount(msg)>>,
       type |-> U16(msg, fixed), class |-> U16(msg, fixed + 2),
       data |-> SubSeq(msg, fixed + 10, fixed + 9 + len), left |-> Len(msg) - (fixed + 9 + len)]
=============================================================================
