---------------------------- MODULE MCNetHashmap ----------------------------
(* An instance of NetHashmap for TLC. *)
EXTENDS NetHashmap

CONSTANTS forwarder, worker, x, y

(* Eight names of one bucket in the order of strcmp: one that begins with  *)
(* an octet that is negative as a char, and a.yt, dwa, gqd, gu, gu with    *)
(* such an octet behind it, h.ea, hoe.                                     *)
Keys == 1 .. 8
EightNames ==
  <<<<139, 112, 97>>, <<97, 46, 121, 116>>, <<100, 119, 97>>, <<103, 113, 100>>,
    <<103, 117>>, <<103, 117, 224>>, <<104, 46, 101, 97>>, <<104, 111, 101>>>>
OneInserter == {forwarder}
OneSearcher == {worker}
OneBucket == {1}
Addresses == {x, y}
(* Every name with one address, and one of them with another, too.         *)
OneAddressButForTwo == {<<k, x>> : k \in Keys} \cup {<<2, y>>}
JustTwo == {2}
=============================================================================
