----------------------------- MODULE MCNetRing -----------------------------
(* Small instances of the ring for TLC. *)
EXTENDS NetRing

CONSTANTS p1, p2, c1, c2

TwoProducers == {p1, p2}
OneProducer == {p1}
OneConsumer == {c1}
TwoConsumers == {c1, c2}

(* Nine calls, or two of the one producer. *)
FiveAndFour == [p \in {p1, p2} |-> IF p = p1 THEN 5 ELSE 4]
JustTwo == [p \in {p1} |-> 2]

CreatedSize == AlignPow2(Requested)
=============================================================================
