--------------------------- MODULE PendingQueues ---------------------------
(***************************************************************************)
(* What the list of forwarded requests is for, without its buckets and     *)
(* pointers: for every identifier a queue of the requests that wait for an *)
(* answer.  An answer serves the oldest request with its identifier.       *)
(***************************************************************************)
EXTENDS Naturals, Sequences

CONSTANTS
  Idens,    \* identifiers
  Request   \* requests

VARIABLES
  waiting,   \* the requests that wait, for each identifier
  released   \* the requests answered so far, in order

vars == <<waiting, released>>

Init == waiting = [i \in Idens |-> << >>] /\ released = << >>

Ask(i, r) ==
  /\ waiting' = [waiting EXCEPT ![i] = Append(@, r)]
  /\ UNCHANGED released

Answer(i) ==
  /\ waiting[i] # << >>
  /\ released' = Append(released, Head(waiting[i]))
  /\ waiting' = [waiting EXCEPT ![i] = Tail(@)]

Next == \E i \in Idens : Answer(i) \/ \E r \in Request : Ask(i, r)

Spec == Init /\ [][Next]_vars
=============================================================================
