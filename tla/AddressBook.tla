---------------------------- MODULE AddressBook ----------------------------
(***************************************************************************)
(* What the hash map promises the threads that call it: each call takes    *)
(* effect at one moment between its invocation and its return.  An insert  *)
(* adds a name that is absent and leaves one that is present alone.        *)
(***************************************************************************)
CONSTANTS
  Threads, Key, Addr,
  NoAddr   \* what a search returns for an absent name

VARIABLES
  book,    \* a function from the names inserted to their addresses
  call     \* what each thread asks for or has been told

vars == <<book, call>>

Idle == [op |-> "none"]
Request == [op : {"insert"}, key : Key, addr : Addr] \cup [op : {"search"}, key : Key]

Init == book = << >> /\ call = [t \in Threads |-> Idle]

Invoke(t, request) ==
  /\ call[t] = Idle
  /\ call' = [call EXCEPT ![t] = request]
  /\ UNCHANGED book

Insert(t) ==
  /\ call[t].op = "insert"
  /\ book' = [k \in DOMAIN book \cup {call[t].key} |->
                IF k \in DOMAIN book THEN book[k] ELSE call[t].addr]
  /\ call' = [call EXCEPT ![t] = [op |-> "inserted"]]

Search(t) ==
  /\ call[t].op = "search"
  /\ LET k == call[t].key IN
     call' = [call EXCEPT ![t] = [op |-> "found",
                                  addr |-> IF k \in DOMAIN book THEN book[k] ELSE NoAddr]]
  /\ UNCHANGED book

Return(t) ==
  /\ call[t].op \in {"inserted", "found"}
  /\ call' = [call EXCEPT ![t] = Idle]
  /\ UNCHANGED book

Next ==
  \E t \in Threads :
    \/ \E request \in Request : Invoke(t, request)
    \/ Insert(t) \/ Search(t) \/ Return(t)

Spec == Init /\ [][Next]_vars
=============================================================================
