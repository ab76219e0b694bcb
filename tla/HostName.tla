------------------------------ MODULE HostName ------------------------------
(***************************************************************************)
(* How net_hashmap/net_hashmap_core.c hashes and compares host names.  A   *)
(* name is the sequence of its octets, without the zero that ends it.      *)
(***************************************************************************)
EXTENDS Integers, Sequences, SequencesExt

DomainLen == 512   \* NET_HASHMAP_DOMAIN_LEN

(* char is signed. *)
Signed(octet) == IF octet < 128 THEN octet ELSE octet - 256

(* h * 33 + octet, of which only the lowest ten bits are used: the code's  *)
(* 32 bits wrap at a multiple of the size of the array.                    *)
ArraySize == 1024   \* NET_HASHMAP_ARRAY_SIZE
Hash(name) == FoldLeft(LAMBDA h, octet : (33 * h + Signed(octet)) % ArraySize, 5381 % ArraySize, name)

(* Seeded fault: a name that ends early is not told from the longer one.   *)
StrcmpCommonPart(p1, p2) ==
  LET from[i \in Nat \ {0}] ==
        IF i > Len(p1) \/ i > Len(p2) THEN 0
        ELSE CASE Signed(p1[i]) > Signed(p2[i]) -> 1
               [] Signed(p1[i]) < Signed(p2[i]) -> -1
               [] OTHER -> from[i + 1]
  IN  from[1]

(* Octet by octet up to the end of either name; the comparison gives up    *)
(* after more equal octets than a name can have.                           *)
Strcmp(p1, p2) ==
  LET from[i \in Nat \ {0}] ==
        IF i > Len(p1) \/ i > Len(p2)
        THEN IF Len(p1) = Len(p2) THEN 0 ELSE IF i > Len(p1) THEN -1 ELSE 1
        ELSE CASE Signed(p1[i]) > Signed(p2[i]) -> 1
               [] Signed(p1[i]) < Signed(p2[i]) -> -1
               [] p1[i] = p2[i] /\ i > DomainLen -> -1
               [] OTHER -> from[i + 1]
  IN  from[1]
=============================================================================
