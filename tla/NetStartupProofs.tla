-------------------------- MODULE NetStartupProofs --------------------------
(***************************************************************************)
(* Proofs about the start of the server: for any file and any failures no  *)
(* thread uses a ring that is not there unless a call has failed, a server *)
(* that serves has its threads, and what DNS.conf says is in force.        *)
(***************************************************************************)
EXTENDS NetStartup, DataLemmas

-----------------------------------------------------------------------------
(* The ports by their bounds, so that no proof looks at them one by one.   *)
LEMMA PortMembers ==
  \A n : n \in Port <=> n \in Int /\ 0 <= n /\ n <= 65535
<1>1. PICK b \in Int : b = 65535
  OBVIOUS
<1>2. Port = 0 .. b
  BY <1>1, SMTT(30) DEF Port
<1>3. \A n : n \in 0 .. b <=> n \in Int /\ 0 <= n /\ n <= b
  OBVIOUS
<1>4. \A n : n \in Port <=> n \in Int /\ 0 <= n /\ n <= b
  BY ONLY <1>2, <1>3
<1> QED
  BY ONLY <1>1, <1>4

(* An unsigned short holds the remainder of any integer, and a port is its *)
(* own remainder.                                                          *)
LEMMA PortOfInt ==
  \A n \in Int : n % 65536 \in Port
<1>1. \A n \in Int : n % 65536 \in Int /\ 0 <= n % 65536 /\ n % 65536 <= 65535
  BY SMTT(30)
<1> QED
  BY <1>1, PortMembers, SMTT(30)

LEMMA PortIsItself ==
  \A n \in Port \ {0} : n % 65536 # 0
<1>1. \A n \in Int : 0 < n /\ n <= 65535 => n % 65536 = n
  BY SMTT(30)
<1> QED
  BY <1>1, PortMembers, SMTT(30)

-----------------------------------------------------------------------------
(* The invariant.  Main works off the init of each module in order, and    *)
(* nothing it has worked off is undone.                                    *)

(* The init of the current module without its first k steps. *)
Remaining(k) == [i \in 1 .. Len(InitOps(Current)) - k |-> InitOps(Current)[i + k]]

(* What a step of m's init leaves behind. *)
Effect(m, op) == op = "ring" => m \in rings

DoneUpTo(m, k) == \A j \in 1 .. k : Effect(m, InitOps(m)[j])

WorkedOff ==
  /\ \A i \in 1 .. at - 1 : DoneUpTo(Module[i], Len(InitOps(Module[i])))
  /\ \E k \in 0 .. Len(InitOps(Current)) : todo = Remaining(k) /\ DoneUpTo(Current, k)

Phases ==
  /\ step # "init" => at > 1 /\ todo = << >>
  /\ step \in {"serve", "exit"} => at = Len(Module)
  /\ queued => step \in {"serve", "exit"}

(* A thread is past its wait only after its module's run, hence after the  *)
(* whole of its module's init.                                             *)
Entered == \A m \in Modules : thread[m] \in {"woken", "awake", "running"} => m \in rings

Orderly == ~CallFailed => ~crashed /\ WorkedOff /\ Entered

StartInv == Phases /\ Orderly

(* Every module that main has come to has a thread, or an init that was    *)
(* cut short, or the step that creates the thread is still to come.        *)
Threaded(m) == thread[m] # "none" \/ InitCutShort(m)
ToBeCreated(i) == i = at /\ step = "init" /\ \E j \in 1 .. Len(todo) : todo[j] = "create"
ThreadsInv == \A i \in 2 .. at : Threaded(Module[i]) \/ ToBeCreated(i)

(* The settings are final before the first module with a thread begins.    *)
Settled ==
  ConfigLoad(file) =>
    /\ config = ParseForward(ParseServer(NoConfig, file.root), file.root)
    /\ records = Records(file.root)

ConfigInv ==
  /\ at = 1 => opened = {} /\ thread = [m \in Modules |-> "none"]
  /\ \/ at = 1 /\ todo = <<"load", "parse">> /\ config = NoConfig /\ records = << >>
     \/ /\ at = 1 /\ todo = <<"parse">> /\ config = NoConfig /\ records = << >>
        /\ loaded = ConfigLoad(file)
     \/ at = 1 /\ todo = << >> /\ Settled
     \/ at > 1 /\ Settled
  /\ "bundle" \in opened => bound.port = config.port
  /\ "forward" \in opened => upstream = config.forwdip

-----------------------------------------------------------------------------
(* The modules and the steps of their inits.                               *)
LEMMA ModuleFacts ==
  /\ Len(Module) = 4
  /\ Module[1] = "config" /\ Module[2] = "work" /\ Module[3] = "forward" /\ Module[4] = "bundle"
  /\ \A i \in 2 .. 4 : Module[i] \in Modules
  /\ \A i \in 1 .. 4 : Module[i] # "config" => Module[i] \in Modules
BY DEF Module, Modules

LEMMA InitOpsFacts ==
  /\ InitOps("config") = <<"load", "parse">>
  /\ InitOps("work") = <<"ring", "lock", "create">>
  /\ InitOps("forward") = <<"sock", "ring", "lock", "create">>
  /\ InitOps("bundle") = <<"sock", "lock", "create", "ring">>
BY DEF InitOps

(* The steps of an init are steps, and the configuration's are load and    *)
(* parse, which no other module has.                                       *)
LEMMA InitOpsType ==
  ASSUME NEW m \in {"config", "work", "forward", "bundle"}
  PROVE  /\ InitOps(m) \in Seq(Op)
         /\ Len(InitOps(m)) \in 2 .. 4
         /\ m # "config" => InitOps(m) \in Seq(Op \ {"load", "parse"})
<1>1. CASE m = "config"
  <2>1. /\ <<"load", "parse">> \in Seq(Op)
        /\ Len(<<"load", "parse">>) \in 2 .. 4
    BY DEF Op
  <2> QED
    BY <1>1, <2>1, InitOpsFacts
<1>2. CASE m = "work"
  <2>1. /\ <<"ring", "lock", "create">> \in Seq(Op)
        /\ Len(<<"ring", "lock", "create">>) \in 2 .. 4
    BY DEF Op
  <2>2. <<"ring", "lock", "create">> \in Seq(Op \ {"load", "parse"})
    BY DEF Op
  <2> QED
    BY <1>2, <2>1, <2>2, InitOpsFacts
<1>3. CASE m = "forward"
  <2>1. /\ <<"sock", "ring", "lock", "create">> \in Seq(Op)
        /\ Len(<<"sock", "ring", "lock", "create">>) \in 2 .. 4
    BY DEF Op
  <2>2. <<"sock", "ring", "lock", "create">> \in Seq(Op \ {"load", "parse"})
    BY DEF Op
  <2> QED
    BY <1>3, <2>1, <2>2, InitOpsFacts
<1>4. CASE m = "bundle"
  <2>1. /\ <<"sock", "lock", "create", "ring">> \in Seq(Op)
        /\ Len(<<"sock", "lock", "create", "ring">>) \in 2 .. 4
    BY DEF Op
  <2>2. <<"sock", "lock", "create", "ring">> \in Seq(Op \ {"load", "parse"})
    BY DEF Op
  <2> QED
    BY <1>4, <2>1, <2>2, InitOpsFacts
<1> QED
  BY <1>1, <1>2, <1>3, <1>4

LEMMA MainType ==
  ASSUME TypeOK
  PROVE  /\ at \in 1 .. 4 /\ todo \in Seq(Op)
         /\ Current \in {"config", "work", "forward", "bundle"}
         /\ Current # "config" => Current \in Modules
<1>1. at \in 1 .. 4 /\ todo \in Seq(Op)
  BY ModuleFacts DEF TypeOK
<1> QED
  <2>1. at = 1 \/ at \in 2 .. 4
    BY <1>1
  <2> QED
    BY <1>1, <2>1, ModuleFacts DEF Current, Modules

(* A step that is due is the head of what is left.                         *)
LEMMA DoingFacts ==
  ASSUME TypeOK, NEW op, Doing(op)
  PROVE  /\ todo # << >> /\ Head(todo) = op /\ step = "init"
         /\ Tail(todo) \in Seq(Op)
<1>1. todo \in Seq(Op)
  BY MainType
<1> QED
  BY <1>1 DEF Doing

-----------------------------------------------------------------------------
(* Searching a list of nodes.                                              *)

(* Every set of natural numbers has a least one.                           *)
LEMMA LeastOf ==
  ASSUME NEW S \in SUBSET Nat, S # {}
  PROVE  Min(S) \in S /\ \A n \in S : Min(S) <= n
<1>1. PICK m \in S : \A n \in S : m <= n
  BY LeastNat
<1> QED
  BY <1>1 DEF Min

LEMMA SiblingsFacts ==
  ASSUME NEW list, Siblings(list)
  PROVE  /\ Len(list) \in Nat /\ list \in Seq(ToSet(list))
         /\ ToSet(list) = {list[i] : i \in 1 .. Len(list)}
BY IsASeq DEF Siblings, ToSet

(* A search stops at the first node of the name, and gives up only when    *)
(* there is none.                                                          *)
LEMMA SearchListFinds ==
  ASSUME NEW list, Siblings(list), NEW v
  PROVE  \/ /\ SearchList(list, v) = << >>
            /\ \A i \in 1 .. Len(list) : list[i].name # v
         \/ \E i \in 1 .. Len(list) :
              /\ list[i].name = v
              /\ \A j \in 1 .. i - 1 : list[j].name # v
              /\ SearchList(list, v) # << >>
              /\ Head(SearchList(list, v)) = list[i]
              /\ ToSet(SearchList(list, v)) = {list[j] : j \in i .. Len(list)}
              /\ Siblings(SearchList(list, v))
<1> DEFINE I == {i \in 1 .. Len(list) : list[i].name = v}
<1>1. Len(list) \in Nat /\ list \in Seq(ToSet(list))
  BY SiblingsFacts
<1>2. CASE I = {}
  BY <1>2 DEF SearchList, SelectInSeq
<1>3. CASE I # {}
  <2>1. PICK i : i = Min(I)
    OBVIOUS
  <2>2. I \in SUBSET Nat
    BY <1>1
  <2>3. i \in I /\ \A n \in I : i <= n
    <3> HIDE DEF I
    <3> QED
      BY <1>3, <2>1, <2>2, LeastOf
  <2>4. SearchList(list, v) = SubSeq(list, i, Len(list))
    <3>1. SelectInSeq(list, LAMBDA n : n.name = v) = i
      BY <1>3, <2>1 DEF SelectInSeq
    <3>2. i # 0
      BY <1>1, <2>3
    <3> HIDE DEF I
    <3> QED
      BY <3>1, <3>2 DEF SearchList
  <2>5. PICK found : found = SubSeq(list, i, Len(list))
    OBVIOUS
  <2>6. i \in 1 .. Len(list) /\ list[i].name = v /\ \A j \in 1 .. i - 1 : list[j].name # v
    BY <1>1, <2>3
  <2>7. /\ found \in Seq(ToSet(list))
        /\ Len(found) = Len(list) - i + 1
        /\ \A k \in 1 .. Len(list) - i + 1 : found[k] = list[i + k - 1]
    <3>1. \A k \in i .. Len(list) : list[k] \in ToSet(list)
      BY <1>1, <2>6, SiblingsFacts
    <3>2. i \in Int /\ Len(list) \in Int /\ i <= Len(list)
      BY <1>1, <2>6
    <3> HIDE DEF I
    <3> QED
      BY <2>5, <3>1, <3>2, SubSeqProperties
  <2>8. found # << >> /\ Head(found) = list[i]
    BY <1>1, <2>6, <2>7, EmptySeq
  <2>9. DOMAIN found = 1 .. Len(found) /\ Len(found) \in Nat
    BY <2>7, LenProperties
  <2>10. ToSet(found) = {list[j] : j \in i .. Len(list)}
    <3>1. ASSUME NEW j \in i .. Len(list) PROVE \E k \in 1 .. Len(found) : found[k] = list[j]
      <4>1. j - i + 1 \in 1 .. Len(found) /\ i + (j - i + 1) - 1 = j
        BY <1>1, <2>6, <2>7
      <4> QED
        BY <2>7, <4>1
    <3>2. ASSUME NEW k \in 1 .. Len(found) PROVE \E j \in i .. Len(list) : found[k] = list[j]
      <4>1. i + k - 1 \in i .. Len(list)
        BY <1>1, <2>6, <2>7
      <4> QED
        BY <2>7, <4>1
    <3>3. ToSet(found) = {found[k] : k \in 1 .. Len(found)}
      BY <2>9 DEF ToSet
    <3> HIDE DEF I
    <3>4. ToSet(found) \subseteq {list[j] : j \in i .. Len(list)}
      BY <3>2, <3>3
    <3>5. {list[j] : j \in i .. Len(list)} \subseteq ToSet(found)
      BY <3>1, <3>3
    <3> QED
      BY <3>4, <3>5
  <2>11. Siblings(found)
    BY <2>7, <2>9 DEF Siblings
  <2> QED
    BY <2>4, <2>5, <2>6, <2>8, <2>10, <2>11
<1> QED
  BY <1>2, <1>3

-----------------------------------------------------------------------------
(* Type correctness.                                                       *)

(* The nodes behind the pointer config_search4 returns are nodes of the    *)
(* file of which it has looked at the names.                               *)
LEMMA Search3Finds ==
  ASSUME NEW f \in Files, NEW f2, NEW f3
  PROVE  LET ptr == Search3(f.root, "DNSCONFIG", f2, f3) IN
         ptr # << >> =>
           \E i \in 1 .. Len(f.root.children) :
             /\ f.root.children[i].name = f2
             /\ \A j \in 1 .. i - 1 : f.root.children[j].name # f2
             /\ Head(ptr) \in ToSet(f.root.children[i].children)
             /\ Head(ptr).name = f3
             /\ ToSet(ptr) \subseteq ToSet(f.root.children[i].children)
             /\ \A n \in ToSet(f.root.children[i].children) : n.name = f3 => n \in ToSet(ptr)
             /\ Siblings(ptr)
<1> DEFINE ptr == Search3(f.root, "DNSCONFIG", f2, f3)
           pnode == SearchList(f.root.children, f2)
<1> SUFFICES ASSUME ptr # << >>
             PROVE  \E i \in 1 .. Len(f.root.children) :
                      /\ f.root.children[i].name = f2
                      /\ \A j \in 1 .. i - 1 : f.root.children[j].name # f2
                      /\ Head(ptr) \in ToSet(f.root.children[i].children)
                      /\ Head(ptr).name = f3
                      /\ ToSet(ptr) \subseteq ToSet(f.root.children[i].children)
                      /\ \A n \in ToSet(f.root.children[i].children) : n.name = f3 => n \in ToSet(ptr)
                      /\ Siblings(ptr)
  OBVIOUS
<1>1. pnode # << >> /\ ptr = SearchList(Head(pnode).children, f3)
  <2>1. Head(<<f.root>>) = f.root
    OBVIOUS
  <2> QED
    BY <2>1 DEF Search3, SearchChildren
<1>2. Siblings(f.root.children)
  BY FilesAssumption
<1> HIDE DEF ptr
<1>3. PICK i \in 1 .. Len(f.root.children) :
        /\ f.root.children[i].name = f2
        /\ \A j \in 1 .. i - 1 : f.root.children[j].name # f2
        /\ Head(pnode) = f.root.children[i]
  BY <1>1, <1>2, SearchListFinds
<1>4. f.root.children[i] \in ToSet(f.root.children)
  BY <1>2, SiblingsFacts
<1> DEFINE list == f.root.children[i].children
<1>5. Siblings(list)
  BY <1>4, FilesAssumption
<1>6. ptr = SearchList(list, f3)
  BY <1>1, <1>3
<1> HIDE DEF list, pnode
<1>7. PICK k \in 1 .. Len(list) :
        /\ list[k].name = f3
        /\ \A j \in 1 .. k - 1 : list[j].name # f3
        /\ Head(ptr) = list[k]
        /\ ToSet(ptr) = {list[j] : j \in k .. Len(list)}
        /\ Siblings(ptr)
  BY <1>5, <1>6, SearchListFinds
<1>8. Len(list) \in Nat /\ ToSet(list) = {list[j] : j \in 1 .. Len(list)}
  BY <1>5, SiblingsFacts
<1>9. Head(ptr) \in ToSet(list) /\ ToSet(ptr) \subseteq ToSet(list)
  BY <1>7, <1>8
<1>10. ASSUME NEW n \in ToSet(list), n.name = f3 PROVE n \in ToSet(ptr)
  <2>1. PICK j \in 1 .. Len(list) : n = list[j]
    BY <1>8
  <2>2. ~ (j \in 1 .. k - 1)
    BY <1>7, <1>10, <2>1
  <2>3. j \in k .. Len(list)
    BY <1>8, <2>1, <2>2
  <2> QED
    BY <1>7, <2>1, <2>3
<1> QED
  BY <1>3, <1>7, <1>9, <1>10 DEF list

(* The head of a pointer to one node is the node.                          *)
LEMMA ValueOfHead == \A ptr, attr : Value(ptr, attr) = Value(<<Head(ptr)>>, attr)
BY DEF Value

(* Both parts of the configuration change their own settings only, to what *)
(* the attributes of the node found say.                                   *)
LEMMA ParseServerType ==
  ASSUME NEW f \in Files, NEW c \in Settings
  PROVE  ParseServer(c, f.root) \in Settings
<1> DEFINE ptr == Search3(f.root, "DNSCONFIG", "Server", "BindSource")
           ip == Value(ptr, "ipaddr")
           number == Numbers[Value(ptr, "port")] % 65536
           port == IF Value(ptr, "port") = "" THEN DnsPort ELSE number
<1>1. CASE ptr = << >>
  BY <1>1 DEF ParseServer
<1>2. CASE ptr # << >>
  <2>1. Value(ptr, "port") \in DOMAIN Numbers
    <3>1. PICK i \in 1 .. Len(f.root.children) : Head(ptr) \in ToSet(f.root.children[i].children)
      BY <1>2, Search3Finds
    <3>2. f.root.children[i] \in ToSet(f.root.children)
      BY FilesAssumption, SiblingsFacts
    <3> QED
      BY <3>1, <3>2, FilesAssumption, ValueOfHead
  <2>2. Numbers[Value(ptr, "port")] \in Int
    BY <2>1, AtoiAssumption
  <2>3. port \in Port
    <3>1. \A n \in Int : n % 65536 \in Port
      BY PortOfInt
    <3>2. DnsPort \in Port
      BY PortMembers DEF DnsPort
    <3>3. number \in Port
      BY <2>2, <3>1
    <3> HIDE DEF number
    <3> QED
      BY <3>2, <3>3
  <2>4. c.bindip \in Addresses
    BY DEF Settings
  <2>5. (IF ip = "" THEN NoIp ELSE InetPton(ip, c.bindip)) \in Addresses
    BY <2>4, AddressesAssumption DEF InetPton
  <2>6. ParseServer(c, f.root)
        = [c EXCEPT !.bindip = IF ip = "" THEN NoIp ELSE InetPton(ip, c.bindip), !.port = port]
    BY <1>2 DEF ParseServer
  <2> HIDE DEF ip, port
  <2> QED
    BY <2>3, <2>5, <2>6 DEF Settings
<1> QED
  BY <1>1, <1>2

LEMMA ParseForwardType ==
  ASSUME NEW f \in Files, NEW c \in Settings
  PROVE  ParseForward(c, f.root) \in Settings
<1> DEFINE ptr == Search3(f.root, "DNSCONFIG", "Record", "Forward")
           ip == Value(ptr, "ipaddr")
<1>1. c.forwdip \in Addresses
  BY DEF Settings
<1>2. (IF ip = "" THEN DefaultForward ELSE InetPton(ip, c.forwdip)) \in Addresses
  BY <1>1, AddressesAssumption DEF InetPton
<1>3. \/ ParseForward(c, f.root) = c
      \/ ParseForward(c, f.root)
         = [c EXCEPT !.forwdip = IF ip = "" THEN DefaultForward ELSE InetPton(ip, c.forwdip)]
  BY DEF ParseForward
<1> HIDE DEF ip
<1> QED
  BY <1>2, <1>3 DEF Settings

(* The configuration has only load and parse to do, so that no socket, ring*)
(* or thread is ever its.                                                  *)
TypeInv ==
  /\ TypeOK
  /\ at = 1 => todo \in Seq({"load", "parse"})
  /\ at # 1 => todo \in Seq(Op \ {"load", "parse"})

LEMMA OwnStep ==
  ASSUME TypeInv, NEW op, Doing(op), op \notin {"load", "parse"}
  PROVE  Current \in Modules /\ at # 1
<1>1. at # 1
  <2> SUFFICES ASSUME at = 1 PROVE FALSE
    OBVIOUS
  <2>1. todo \in Seq({"load", "parse"}) /\ todo # << >> /\ Head(todo) = op
    BY DEF TypeInv, Doing
  <2> QED
    BY <2>1, HeadTailProperties
<1> QED
  BY <1>1, MainType, ModuleFacts DEF TypeInv, Current

LEMMA ConfigStep ==
  ASSUME TypeInv, NEW op, Doing(op), op \in {"load", "parse"}
  PROVE  at = 1
<1> SUFFICES ASSUME at # 1 PROVE FALSE
  OBVIOUS
<1>1. todo \in Seq(Op \ {"load", "parse"}) /\ todo # << >> /\ Head(todo) = op
  BY DEF TypeInv, Doing
<1> QED
  BY <1>1, HeadTailProperties

LEMMA NoConfigType ==
  NoConfig \in Settings /\ [ip |-> NoIp, port |-> 0] \in Endpoint /\ NoIp \in Addresses
<1>1. 0 \in Port
  BY PortMembers
<1> QED
  BY <1>1, AddressesAssumption DEF NoConfig, Settings, Endpoint

LEMMA InitTypeInv == Init => TypeInv
<1> SUFFICES ASSUME Init PROVE TypeInv
  OBVIOUS
<1>1. NoConfig \in Settings /\ [ip |-> NoIp, port |-> 0] \in Endpoint /\ NoIp \in Addresses
  BY NoConfigType
<1>2. at \in 1 .. Len(Module) /\ todo \in Seq(Op) /\ todo \in Seq({"load", "parse"})
  <2>1. at = 1 /\ todo = <<"load", "parse">>
    BY ModuleFacts, InitOpsFacts DEF Init
  <2> QED
    BY <2>1, ModuleFacts DEF Op
<1> QED
  BY <1>1, <1>2 DEF Init, TypeInv, TypeOK, ThreadState

(* What main's steps leave alone and what they make of the rest.           *)
LEMMA MainTypeOK ==
  ASSUME TypeInv, MainStep
  PROVE  TypeOK'
<1> TypeOK
  BY DEF TypeInv
<1> USE MainType
<1>1. CASE LoadFile
  BY <1>1, DoingFacts DEF LoadFile, TypeOK, ConfigLoad
<1>2. CASE ParseFile
  <2>1. config' \in Settings
    <3>1. file \in Files /\ config \in Settings
      BY DEF TypeOK
    <3>2. ParseForward(ParseServer(config, file.root), file.root) \in Settings
      BY <3>1, ParseServerType, ParseForwardType
    <3> QED
      BY <1>2, <3>1, <3>2 DEF ParseFile
  <2>2. todo' \in Seq(Op)
    BY <1>2, DoingFacts DEF ParseFile
  <2> QED
    BY <1>2, <2>1, <2>2 DEF ParseFile, TypeOK
<1>3. CASE OpenSockets
  <2>1. [ip |-> config.bindip, port |-> config.port] \in Endpoint /\ config.forwdip \in Addresses
    <3>1. config \in Settings
      BY DEF TypeOK
    <3> QED
      BY <3>1 DEF Settings, Endpoint
  <2>2. bound' \in Endpoint /\ upstream' \in Addresses
    BY <1>3, <2>1 DEF OpenSockets, TypeOK
  <2>3. opened' \subseteq Modules
    BY <1>3, OwnStep DEF OpenSockets, TypeOK
  <2> QED
    BY <1>3, <2>2, <2>3, DoingFacts DEF OpenSockets, TypeOK
<1>4. CASE CreateRing
  BY <1>4, DoingFacts, OwnStep DEF CreateRing, TypeOK, settings
<1>5. CASE CreateRingUnset
  BY <1>5, DoingFacts DEF CreateRingUnset, TypeOK, settings
<1>6. CASE InitMutex
  BY <1>6, DoingFacts DEF InitMutex, TypeOK, resources, settings
<1>7. CASE CreateThread
  BY <1>7, DoingFacts DEF CreateThread, TypeOK, resources, settings, ThreadState
<1>8. CASE InitFails
  <2>1. PICK op \in {"sock", "ring", "create"} :
          /\ Doing(op)
          /\ failed' = failed \cup {<<Current, op>>}
          /\ todo' = IF Current = "bundle" /\ op = "create" THEN Tail(todo) ELSE << >>
    BY <1>8 DEF InitFails
  <2>2. todo' \in Seq(Op)
    BY <2>1, DoingFacts
  <2>3. failed' \subseteq Modules \X (Op \cup {"ret", "wake"})
    BY <2>1, OwnStep DEF TypeOK, Op
  <2> QED
    BY <1>8, <2>2, <2>3 DEF InitFails, TypeOK, settings
<1>9. CASE ConfigDone \/ (RunUnlock /\ at < Len(Module))
  <2>1. at' \in 1 .. 4 /\ step' = "init" /\ todo' = InitOps(Module[at'])
    BY <1>9, ModuleFacts DEF ConfigDone, RunUnlock, Proceed, Current
  <2>2. todo' \in Seq(Op)
    BY <2>1, ModuleFacts, InitOpsType DEF Modules
  <2>3. mutex' \in [Modules -> {"free", "main", "thread"}]
    BY <1>9 DEF ConfigDone, RunUnlock, resources, settings, TypeOK
  <2> QED
    BY <1>9, <2>1, <2>2, <2>3, ModuleFacts DEF ConfigDone, RunUnlock, TypeOK, resources, settings
<1>10. CASE InitDone
  BY <1>10 DEF InitDone, TypeOK, resources, settings
<1>11. CASE RunLock
  BY <1>11 DEF RunLock, TypeOK, resources, settings
<1>12. CASE RunSignal
  BY <1>12 DEF RunSignal, TypeOK, resources, settings, ThreadState
<1>13. CASE RunUnlock
  <2>1. CASE at < Len(Module)
    BY <1>9, <1>13, <2>1
  <2>2. CASE ~(at < Len(Module))
    BY <1>13, <2>2 DEF RunUnlock, TypeOK, resources, settings
  <2> QED
    BY <2>1, <2>2
<1> HIDE MainType
<1> QED
  BY <1>1, <1>2, <1>3, <1>4, <1>5, <1>6, <1>7, <1>8, <1>9, <1>10, <1>11, <1>12, <1>13 DEF MainStep

(* While main stays with a module it only works off what is left to do.    *)
LEMMA TodoShrinks ==
  ASSUME TypeOK, MainStep
  PROVE  \/ at' = at /\ (todo' = todo \/ todo' = << >> \/ (todo # << >> /\ todo' = Tail(todo)))
         \/ at < Len(Module) /\ at' = at + 1 /\ todo' = InitOps(Module[at + 1])
<1>1. CASE LoadFile \/ ParseFile \/ OpenSockets \/ CreateRing \/ InitMutex \/ CreateThread
  BY <1>1 DEF LoadFile, ParseFile, OpenSockets, CreateRing, InitMutex, CreateThread, Doing
<1>2. CASE CreateRingUnset \/ InitFails
  BY <1>2 DEF CreateRingUnset, InitFails, Doing
<1>3. CASE InitDone \/ RunLock \/ RunSignal \/ RunUnlock
  BY <1>3 DEF InitDone, RunLock, RunSignal, RunUnlock, Proceed
<1>4. CASE ConfigDone
  <2>1. at \in 1 .. 4 /\ at # 4
    BY <1>4, MainType, ModuleFacts DEF ConfigDone, Current
  <2> QED
    BY <1>4, <2>1, ModuleFacts DEF ConfigDone, Proceed
<1> QED
  BY <1>1, <1>2, <1>3, <1>4 DEF MainStep

(* Main never goes back to the configuration, and only works it off.       *)
LEMMA MainTypeInv ==
  ASSUME TypeInv, MainStep
  PROVE  TypeInv'
<1> TypeOK
  BY DEF TypeInv
<1>1. ASSUME at' = 1 PROVE todo' \in Seq({"load", "parse"})
  <2>1. CASE at = 1
    <3>1. todo \in Seq({"load", "parse"})
      BY <2>1 DEF TypeInv
    <3>2. at' = at
      BY <1>1, <2>1
    <3>3. todo' = todo \/ todo' = << >> \/ (todo # << >> /\ todo' = Tail(todo))
      BY <2>1, <3>2, TodoShrinks
    <3> QED
      BY <3>1, <3>3, EmptySeq, HeadTailProperties
  <2>2. CASE at # 1
    BY <1>1, <2>2, MainType, TodoShrinks
  <2> QED
    BY <2>1, <2>2
<1>2. ASSUME at' # 1 PROVE todo' \in Seq(Op \ {"load", "parse"})
  <2>1. CASE at' = at
    <3>1. PICK S : S = Op \ {"load", "parse"}
      OBVIOUS
    <3>2. todo \in Seq(S)
      BY <1>2, <2>1, <3>1 DEF TypeInv
    <3>3. todo' = todo \/ todo' = << >> \/ (todo # << >> /\ todo' = Tail(todo))
      BY <2>1, MainType, TodoShrinks
    <3>4. todo' \in Seq(S)
      BY <3>2, <3>3, EmptySeq, HeadTailProperties
    <3> QED
      BY <3>1, <3>4
  <2>2. CASE at' # at
    <3>1. at \in 1 .. 3 /\ todo' = InitOps(Module[at + 1])
      BY <2>2, MainType, TodoShrinks, ModuleFacts
    <3>2. Module[at + 1] \in {"work", "forward", "bundle"}
      BY <3>1, ModuleFacts DEF Modules
    <3> QED
      BY <3>1, <3>2, InitOpsType
  <2> QED
    BY <2>1, <2>2
<1> QED
  BY <1>1, <1>2, MainTypeOK DEF TypeInv

LEMMA OthersTypeInv ==
  ASSUME TypeInv,
         ServeQuery \/ WorkerForwards \/ \E m \in Modules : ThreadStep(m) \/ WakeUnsignalled(m)
  PROVE  TypeInv'
<1> TypeOK
  BY DEF TypeInv
<1>1. CASE ServeQuery
  BY <1>1 DEF ServeQuery, TypeInv, TypeOK, main, resources, settings
<1>2. CASE WorkerForwards
  BY <1>2 DEF WorkerForwards, TypeInv, TypeOK, main, resources, settings
<1>3. ASSUME NEW m \in Modules, ThreadStep(m) PROVE TypeInv'
  BY ZenonT(60), <1>3 DEF ThreadStep, CondWait, CondWaitReturns, EnterLoop, DequeueFromNull,
              TypeInv, TypeOK, main, resources, settings, ThreadState
<1>4. ASSUME NEW m \in Modules, WakeUnsignalled(m) PROVE TypeInv'
  BY <1>4 DEF WakeUnsignalled, TypeInv, TypeOK, main, resources, settings, ThreadState
<1> QED
  BY <1>1, <1>2, <1>3, <1>4

LEMMA NextTypeInv == TypeInv /\ [Next]_vars => TypeInv'
<1>1. ASSUME TypeInv, UNCHANGED vars PROVE TypeInv'
  BY <1>1 DEF TypeInv, TypeOK, vars, main, resources, settings
<1> QED
  BY <1>1, MainTypeInv, OthersTypeInv DEF Next

(* Type correctness of the start, whatever the file and the failures.      *)
THEOREM StartTypeOK == Spec => []TypeOK
<1>1. TypeInv => TypeOK
  BY DEF TypeInv
<1> QED
  BY <1>1, InitTypeInv, NextTypeInv, PTL DEF Spec

-----------------------------------------------------------------------------
(* No ring is used before it is there.                                     *)

LEMMA InitStartInv == Init => StartInv
<1> SUFFICES ASSUME Init PROVE StartInv
  OBVIOUS
<1>1. at = 1 /\ step = "init" /\ todo = <<"load", "parse">> /\ Current = "config"
  BY ModuleFacts, InitOpsFacts DEF Init, Current
<1>2. Remaining(0) = <<"load", "parse">>
  <2>1. Remaining(0) = [i \in 1 .. 2 - 0 |-> <<"load", "parse">>[i + 0]]
    BY <1>1, InitOpsFacts DEF Remaining
  <2>2. [i \in 1 .. 2 - 0 |-> <<"load", "parse">>[i + 0]] = [i \in 1 .. 2 |-> <<"load", "parse">>[i]]
    OBVIOUS
  <2>3. [i \in 1 .. 2 |-> <<"load", "parse">>[i]] = <<"load", "parse">>
    OBVIOUS
  <2> QED
    BY <2>1, <2>2, <2>3
<1>3. WorkedOff
  <2>1. 0 \in 0 .. Len(InitOps(Current)) /\ todo = Remaining(0)
    BY <1>1, <1>2, InitOpsFacts
  <2> QED
    BY <1>1, <2>1 DEF WorkedOff, DoneUpTo
<1>4. Phases /\ Entered /\ ~crashed
  BY <1>1 DEF Init, Phases, Entered
<1> QED
  BY <1>3, <1>4 DEF StartInv, Orderly

(* Of the steps that are left the first is the next one in order.          *)
LEMMA NextInOrder ==
  ASSUME TypeOK, NEW k \in 0 .. Len(InitOps(Current)), todo = Remaining(k), todo # << >>
  PROVE  /\ k + 1 \in 1 .. Len(InitOps(Current))
         /\ Head(todo) = InitOps(Current)[k + 1]
         /\ Tail(todo) = Remaining(k + 1)
<1> DEFINE ops == InitOps(Current)
<1>1. ops \in Seq(Op) /\ Len(ops) \in Nat
  BY MainType, InitOpsType
<1> HIDE DEF ops
<1>2. Remaining(k) = [i \in 1 .. Len(ops) - k |-> ops[i + k]]
  BY DEF Remaining, ops
<1>3. Remaining(k + 1) = [i \in 1 .. Len(ops) - (k + 1) |-> ops[i + (k + 1)]]
  BY DEF Remaining, ops
<1>4. k \in 0 .. Len(ops)
  BY DEF ops
<1>5. k # Len(ops)
  <2> SUFFICES ASSUME k = Len(ops) PROVE FALSE
    OBVIOUS
  <2> QED
    BY <1>1, <1>2
<1>6. k + 1 \in 1 .. Len(ops)
  BY <1>1, <1>4, <1>5
<1>7. todo \in Seq(Op) /\ Len(todo) = Len(ops) - k
  <2>1. \A i \in 1 .. Len(ops) - k : ops[i + k] \in Op
    BY <1>1, <1>4
  <2> QED
    BY <1>1, <1>2, <1>4, <2>1, IsASeq
<1>8. Head(todo) = ops[k + 1]
  BY <1>1, <1>2, <1>4, <1>6, <1>7
<1>9. Tail(todo) = [i \in 1 .. Len(ops) - (k + 1) |-> ops[i + (k + 1)]]
  BY <1>1, <1>2, <1>4, <1>6, <1>7
<1> QED
  BY <1>3, <1>6, <1>8, <1>9 DEF ops

(* What a step has left behind stays: rings are not destroyed, threads do  *)
(* not end, and failures are not forgotten.                                *)
Lasting ==
  /\ rings \subseteq rings' /\ failed \subseteq failed'
  /\ \A m \in Modules : thread[m] # "none" => thread'[m] # "none"

LEMMA DoneStays ==
  ASSUME Lasting, NEW i \in 1 .. 4, NEW k \in 0 .. Len(InitOps(Module[i])), DoneUpTo(Module[i], k)
  PROVE  DoneUpTo(Module[i], k)'
<1>1. SUFFICES ASSUME NEW j \in 1 .. k PROVE Effect(Module[i], InitOps(Module[i])[j])'
  BY DEF DoneUpTo
<1>3. Effect(Module[i], InitOps(Module[i])[j])
  BY DEF DoneUpTo
<1> QED
  BY <1>3 DEF Effect, Lasting

LEMMA EarlierStays ==
  ASSUME TypeOK, WorkedOff, Lasting
  PROVE  \A i \in 1 .. at - 1 : DoneUpTo(Module[i], Len(InitOps(Module[i])))'
<1>1. at \in 1 .. 4
  BY MainType
<1>2. SUFFICES ASSUME NEW i \in 1 .. at - 1
               PROVE  DoneUpTo(Module[i], Len(InitOps(Module[i])))'
  OBVIOUS
<1>3. i \in 1 .. 4 /\ DoneUpTo(Module[i], Len(InitOps(Module[i])))
  BY <1>1 DEF WorkedOff
<1>4. Len(InitOps(Module[i])) \in 0 .. Len(InitOps(Module[i]))
  BY <1>3, InitOpsType, ModuleFacts
<1> QED
  BY <1>3, <1>4, DoneStays

(* Main stays with its module and has k steps of the init behind it.       *)
LEMMA SameModule ==
  ASSUME TypeOK, WorkedOff, Lasting, at' = at,
         NEW k \in 0 .. Len(InitOps(Current)), todo' = Remaining(k), DoneUpTo(Module[at], k)'
  PROVE  WorkedOff'
<1>1. Current' = Current /\ Current = Module[at]
  BY DEF Current
<1>2. Remaining(k)' = Remaining(k)
  BY <1>1 DEF Remaining
<1>3. DoneUpTo(Current, k)'
  BY <1>1
<1> QED
  BY <1>1, <1>2, <1>3, EarlierStays DEF WorkedOff

(* Main stays where it is, and at most other threads have moved.           *)
LEMMA StandStill ==
  ASSUME TypeOK, WorkedOff, Lasting, at' = at, todo' = todo
  PROVE  WorkedOff'
<1>1. at \in 1 .. 4 /\ Current = Module[at]
  BY MainType DEF Current
<1>2. PICK k \in 0 .. Len(InitOps(Current)) : todo = Remaining(k) /\ DoneUpTo(Module[at], k)
  BY <1>1 DEF WorkedOff
<1>3. DoneUpTo(Module[at], k)'
  <2> SUFFICES ASSUME NEW i \in 1 .. 4, i = at PROVE DoneUpTo(Module[i], k)'
    BY <1>1
  <2> QED
    BY <1>1, <1>2, DoneStays
<1> QED
  BY <1>2, <1>3, SameModule

(* Main takes the next step of the init and leaves its effect.             *)
LEMMA NextStep ==
  ASSUME TypeOK, WorkedOff, Lasting, at' = at, todo # << >>, todo' = Tail(todo),
         NEW op, op = Head(todo), Effect(Module[at], op)'
  PROVE  WorkedOff'
<1>1. at \in 1 .. 4 /\ Current = Module[at]
  BY MainType DEF Current
<1>2. PICK k \in 0 .. Len(InitOps(Current)) : todo = Remaining(k) /\ DoneUpTo(Module[at], k)
  BY <1>1 DEF WorkedOff
<1>3. DoneUpTo(Module[at], k)'
  <2> SUFFICES ASSUME NEW i \in 1 .. 4, i = at PROVE DoneUpTo(Module[i], k)'
    BY <1>1
  <2> QED
    BY <1>1, <1>2, DoneStays
<1>4. /\ k + 1 \in 0 .. Len(InitOps(Current))
      /\ op = InitOps(Module[at])[k + 1]
      /\ todo' = Remaining(k + 1)
  BY <1>1, <1>2, NextInOrder
<1>5. DoneUpTo(Module[at], k + 1)'
  <2> SUFFICES ASSUME NEW j \in 1 .. k + 1 PROVE Effect(Module[at], InitOps(Module[at])[j])'
    BY DEF DoneUpTo
  <2>1. CASE j \in 1 .. k
    BY <1>3, <2>1 DEF DoneUpTo
  <2>2. CASE j = k + 1
    BY <1>4, <2>2
  <2> QED
    BY <2>1, <2>2
<1> QED
  BY <1>4, <1>5, SameModule

LEMMA NothingLeft ==
  ASSUME TypeOK, NEW k \in 0 .. Len(InitOps(Current)), Remaining(k) = << >>
  PROVE  k = Len(InitOps(Current))
<1>1. PICK ops : ops = InitOps(Current)
  OBVIOUS
<1>2. Len(ops) \in Nat /\ k \in 0 .. Len(ops)
  BY <1>1, MainType, InitOpsType
<1>3. DOMAIN Remaining(k) = 1 .. Len(ops) - k
  BY <1>1 DEF Remaining
<1>4. DOMAIN << >> = {}
  OBVIOUS
<1>5. ~ (1 \in 1 .. Len(ops) - k)
  BY <1>3, <1>4
<1> QED
  BY <1>1, <1>2, <1>5

(* Main goes on to the next module when nothing is left of the init.       *)
LEMMA NextModule ==
  ASSUME TypeOK, WorkedOff, Lasting, at < 4, todo = << >>,
         at' = at + 1, todo' = InitOps(Module[at + 1])
  PROVE  WorkedOff'
<1>1. at \in 1 .. 4 /\ Current = Module[at]
  BY MainType DEF Current
<1>2. PICK k \in 0 .. Len(InitOps(Module[at])) : todo = Remaining(k) /\ DoneUpTo(Module[at], k)
  BY <1>1 DEF WorkedOff
<1>3. k = Len(InitOps(Module[at]))
  BY <1>1, <1>2, NothingLeft
<1>4. \A i \in 1 .. at' - 1 : DoneUpTo(Module[i], Len(InitOps(Module[i])))'
  <2> SUFFICES ASSUME NEW i \in 1 .. at PROVE DoneUpTo(Module[i], Len(InitOps(Module[i])))'
    BY <1>1
  <2>1. CASE i = at
    <3>1. i \in 1 .. 4 /\ k \in 0 .. Len(InitOps(Module[i])) /\ DoneUpTo(Module[i], k)
      BY <1>1, <1>2, <2>1
    <3>2. DoneUpTo(Module[i], k)'
      BY <3>1, DoneStays
    <3> QED
      BY <1>3, <2>1, <3>2
  <2>2. CASE i # at
    BY <1>1, <2>2, EarlierStays
  <2> QED
    BY <2>1, <2>2
<1>5. 0 \in 0 .. Len(InitOps(Current))' /\ todo' = Remaining(0)' /\ DoneUpTo(Current, 0)'
  <2>1. at + 1 \in 1 .. 4 /\ Current' = Module[at + 1]
    BY <1>1 DEF Current
  <2>2. PICK ops : ops = InitOps(Module[at + 1])
    OBVIOUS
  <2>3. ops \in Seq(Op) /\ Len(ops) \in Nat
    BY <2>1, <2>2, InitOpsType, ModuleFacts
  <2>4. Remaining(0)' = [i \in 1 .. Len(ops) - 0 |-> ops[i + 0]]
    BY <2>1, <2>2 DEF Remaining
  <2>5. [i \in 1 .. Len(ops) - 0 |-> ops[i + 0]] = [i \in 1 .. Len(ops) |-> ops[i]]
    BY <2>3
  <2>6. [i \in 1 .. Len(ops) |-> ops[i]] = ops
    BY <2>3
  <2>7. DoneUpTo(Current, 0)'
    BY DEF DoneUpTo
  <2> QED
    BY <2>1, <2>2, <2>3, <2>4, <2>5, <2>6, <2>7
<1> QED
  BY <1>4, <1>5 DEF WorkedOff

-----------------------------------------------------------------------------
(* The steps of main.                                                      *)

(* Main is at another step of run only when the init is over.              *)
LEMMA MainPhases ==
  ASSUME TypeInv, Phases, MainStep
  PROVE  Phases'
<1> TypeOK
  BY DEF TypeInv
<1> USE MainType
<1>1. CASE LoadFile \/ ParseFile \/ OpenSockets \/ CreateRing \/ InitMutex \/ CreateThread
  BY <1>1 DEF LoadFile, ParseFile, OpenSockets, CreateRing, InitMutex, CreateThread, Doing, Phases,
              resources, settings
<1>2. CASE CreateRingUnset \/ InitFails
  BY <1>2 DEF CreateRingUnset, InitFails, Doing, Phases
<1>3. CASE ConfigDone
  BY <1>3 DEF ConfigDone, Proceed, Phases
<1>4. CASE InitDone
  BY <1>4, ModuleFacts DEF InitDone, Phases, Current
<1>5. CASE RunLock \/ RunSignal
  BY <1>5 DEF RunLock, RunSignal, Phases
<1>6. CASE RunUnlock
  <2>1. CASE at < Len(Module)
    BY <1>6, <2>1 DEF RunUnlock, Proceed, Phases
  <2>2. CASE ~(at < Len(Module))
    BY <1>6, <2>2, ModuleFacts DEF RunUnlock, Phases
  <2> QED
    BY <2>1, <2>2
<1> HIDE MainType
<1> QED
  BY <1>1, <1>2, <1>3, <1>4, <1>5, <1>6 DEF MainStep

LEMMA MainLasting ==
  ASSUME TypeInv, MainStep
  PROVE  Lasting /\ (CallFailed => CallFailed')
<1> TypeOK
  BY DEF TypeInv
<1>1. CASE LoadFile \/ ParseFile \/ OpenSockets \/ CreateRing \/ InitMutex
  BY <1>1 DEF LoadFile, ParseFile, OpenSockets, CreateRing, InitMutex, Lasting, CallFailed,
              resources, settings
<1>2. CASE CreateThread
  BY <1>2, OwnStep DEF CreateThread, Lasting, CallFailed, resources, settings, TypeOK
<1>3. CASE CreateRingUnset \/ InitFails
  BY <1>3 DEF CreateRingUnset, InitFails, Lasting, CallFailed, settings
<1>4. CASE ConfigDone \/ InitDone \/ RunLock \/ RunUnlock
  BY <1>4 DEF ConfigDone, InitDone, RunLock, RunUnlock, Lasting, CallFailed, resources, settings
<1>5. CASE RunSignal
  BY <1>5 DEF RunSignal, Lasting, CallFailed, resources, settings, TypeOK
<1> QED
  BY <1>1, <1>2, <1>3, <1>4, <1>5 DEF MainStep

LEMMA MainWorkedOff ==
  ASSUME TypeInv, Phases, WorkedOff, MainStep, ~CallFailed'
  PROVE  WorkedOff'
<1> TypeOK /\ Lasting
  BY MainLasting DEF TypeInv
<1>0. at \in 1 .. 4 /\ Current = Module[at]
  BY MainType DEF Current
<1>1. CASE LoadFile \/ ParseFile \/ OpenSockets \/ InitMutex
  <2>1. at' = at /\ todo # << >> /\ todo' = Tail(todo)
        /\ Head(todo) \in {"load", "parse", "sock", "lock"}
    BY <1>1 DEF LoadFile, ParseFile, OpenSockets, InitMutex, Doing, resources, settings
  <2>2. \A op \in {"load", "parse", "sock", "lock"} : Effect(Module[at], op)'
    BY DEF Effect
  <2> QED
    BY <2>1, <2>2, NextStep
<1>2. CASE CreateRing
  <2>1. at' = at /\ todo # << >> /\ todo' = Tail(todo) /\ Head(todo) = "ring"
    BY <1>2 DEF CreateRing, Doing
  <2>2. Effect(Module[at], "ring")'
    BY <1>0, <1>2 DEF CreateRing, Effect
  <2> QED
    BY <2>1, <2>2, NextStep
<1>3. CASE CreateThread
  <2>1. at' = at /\ todo # << >> /\ todo' = Tail(todo) /\ Head(todo) = "create"
    BY <1>3 DEF CreateThread, Doing
  <2>2. Effect(Module[at], "create")'
    BY DEF Effect
  <2> QED
    BY <2>1, <2>2, NextStep
<1>4. CASE CreateRingUnset
  <2>1. at' = at /\ Current = "forward" /\ todo' = << >> /\ "forward" \in rings' /\ failed' # {}
    BY <1>4 DEF CreateRingUnset
  <2>2. Len(InitOps(Current)) = 4
    BY <2>1, InitOpsFacts
  <2>3. Remaining(4) = << >>
    BY <2>2 DEF Remaining
  <2>4. DoneUpTo(Module[at], 4)'
    BY <1>0, <2>1 DEF DoneUpTo, Effect
  <2> QED
    <3>1. 4 \in 0 .. Len(InitOps(Current)) /\ todo' = Remaining(4)
      BY <2>1, <2>2, <2>3
    <3> QED
      BY <2>1, <2>4, <3>1, SameModule
<1>5. CASE InitFails
  <2>1. CallFailed'
    <3>1. PICK op \in {"sock", "ring", "create"} : <<Current, op>> \in failed'
      BY <1>5 DEF InitFails
    <3>2. <<Current, op>>[2] # "ret"
      OBVIOUS
    <3> QED
      BY <3>1, <3>2 DEF CallFailed
  <2> QED
    BY <2>1
<1>6. CASE InitDone \/ RunLock \/ RunSignal
  <2>1. at' = at /\ todo' = todo
    BY <1>6 DEF InitDone, RunLock, RunSignal
  <2> QED
    BY <2>1, StandStill
<1>7. CASE ConfigDone
  <2>1. at < 4 /\ todo = << >> /\ at' = at + 1 /\ todo' = InitOps(Module[at + 1])
    BY <1>0, <1>7, ModuleFacts DEF ConfigDone, Proceed, Current
  <2> QED
    BY <2>1, NextModule
<1>8. CASE RunUnlock
  <2>1. CASE at < Len(Module)
    <3>1. at < 4 /\ todo = << >> /\ at' = at + 1 /\ todo' = InitOps(Module[at + 1])
      BY <1>8, <2>1, ModuleFacts DEF RunUnlock, Proceed, Phases
    <3> QED
      BY <3>1, NextModule
  <2>2. CASE ~(at < Len(Module))
    <3>1. at' = at /\ todo' = todo
      BY <1>8, <2>2 DEF RunUnlock
    <3> QED
      BY <3>1, StandStill
  <2> QED
    BY <2>1, <2>2
<1> QED
  BY <1>1, <1>2, <1>3, <1>4, <1>5, <1>6, <1>7, <1>8 DEF MainStep

(* Every init but the configuration's makes a ring and a thread.           *)
LEMMA RingAndThread ==
  \A i \in 2 .. 4 : \E j, k \in 1 .. Len(InitOps(Module[i])) :
    InitOps(Module[i])[j] = "ring" /\ InitOps(Module[i])[k] = "create"
<1>1. \E j, k \in 1 .. Len(InitOps("work")) :
        InitOps("work")[j] = "ring" /\ InitOps("work")[k] = "create"
  <2>1. 1 \in 1 .. Len(<<"ring", "lock", "create">>) /\ 3 \in 1 .. Len(<<"ring", "lock", "create">>)
        /\ <<"ring", "lock", "create">>[1] = "ring" /\ <<"ring", "lock", "create">>[3] = "create"
    OBVIOUS
  <2> QED
    BY <2>1, InitOpsFacts
<1>2. \E j, k \in 1 .. Len(InitOps("forward")) :
        InitOps("forward")[j] = "ring" /\ InitOps("forward")[k] = "create"
  <2> DEFINE ops == <<"sock", "ring", "lock", "create">>
  <2>1. 2 \in 1 .. Len(ops) /\ 4 \in 1 .. Len(ops) /\ ops[2] = "ring" /\ ops[4] = "create"
    OBVIOUS
  <2> QED
    BY <2>1, InitOpsFacts
<1>3. \E j, k \in 1 .. Len(InitOps("bundle")) :
        InitOps("bundle")[j] = "ring" /\ InitOps("bundle")[k] = "create"
  <2> DEFINE ops == <<"sock", "lock", "create", "ring">>
  <2>1. 4 \in 1 .. Len(ops) /\ 3 \in 1 .. Len(ops) /\ ops[4] = "ring" /\ ops[3] = "create"
    OBVIOUS
  <2> QED
    BY <2>1, InitOpsFacts
<1> SUFFICES ASSUME NEW i \in 2 .. 4
             PROVE  \E j, k \in 1 .. Len(InitOps(Module[i])) :
                      InitOps(Module[i])[j] = "ring" /\ InitOps(Module[i])[k] = "create"
  OBVIOUS
<1>4. Module[i] = "work" \/ Module[i] = "forward" \/ Module[i] = "bundle"
  BY ModuleFacts
<1> QED
  BY SMTT(60), <1>1, <1>2, <1>3, <1>4

(* When the init is over the module's ring is there.                       *)
LEMMA InitOver ==
  ASSUME TypeOK, WorkedOff, todo = << >>
  PROVE  \A i \in 2 .. at : Module[i] \in rings
<1>1. at \in 1 .. 4 /\ Current = Module[at]
  BY MainType DEF Current
<1>2. PICK k \in 0 .. Len(InitOps(Current)) : todo = Remaining(k) /\ DoneUpTo(Module[at], k)
  BY <1>1 DEF WorkedOff
<1>3. k = Len(InitOps(Current))
  BY <1>2, NothingLeft
<1>4. \A i \in 2 .. at : DoneUpTo(Module[i], Len(InitOps(Module[i])))
  BY <1>1, <1>2, <1>3 DEF WorkedOff
<1> SUFFICES ASSUME NEW i \in 2 .. at PROVE Module[i] \in rings
  OBVIOUS
<1>5. PICK j, n \in 1 .. Len(InitOps(Module[i])) :
        InitOps(Module[i])[j] = "ring" /\ InitOps(Module[i])[n] = "create"
  <2>1. i \in 2 .. 4
    BY <1>1
  <2> QED
    BY <2>1, RingAndThread
<1>6. Effect(Module[i], "ring")
  BY <1>4, <1>5 DEF DoneUpTo
<1> QED
  BY <1>6 DEF Effect

LEMMA MainOrderly ==
  ASSUME TypeInv, StartInv, MainStep
  PROVE  Orderly'
<1> TypeOK /\ Lasting /\ Phases
  BY MainLasting DEF TypeInv, StartInv
<1> SUFFICES ASSUME ~CallFailed' PROVE ~crashed' /\ WorkedOff' /\ Entered'
  BY DEF Orderly
<1>1. ~crashed /\ WorkedOff /\ Entered
  BY MainLasting DEF StartInv, Orderly
<1>2. WorkedOff'
  BY <1>1, MainWorkedOff
<1>3. ~crashed'
  BY <1>1 DEF MainStep, LoadFile, ParseFile, OpenSockets, CreateRing, CreateRingUnset,
       InitMutex, CreateThread, InitFails, ConfigDone, InitDone, RunLock, RunSignal, RunUnlock
<1>4. Entered'
  <2>1. CASE RunSignal
    <3>1. Current \in rings
      BY <2>1, <1>1, InitOver, MainType, ModuleFacts DEF RunSignal, Phases, Current
    <3>2. rings' = rings /\ \A m \in Modules : m # Current => thread'[m] = thread[m]
      BY <2>1 DEF RunSignal, TypeOK, resources, settings
    <3> QED
      BY <3>1, <3>2, <1>1 DEF Entered
  <2>2. CASE CreateThread
    BY <2>2, <1>1 DEF CreateThread, Entered, TypeOK, resources, settings
  <2>3. CASE ~RunSignal /\ ~CreateThread
    <3>1. thread' = thread
      BY <2>3 DEF MainStep, LoadFile, ParseFile, OpenSockets, CreateRing, CreateRingUnset,
         InitMutex, InitFails, ConfigDone, InitDone, RunLock, RunUnlock
    <3> QED
      BY <1>1, <3>1 DEF Entered, Lasting
  <2> QED
    BY <2>1, <2>2, <2>3
<1> QED
  BY <1>1, <1>2, <1>3, <1>4

-----------------------------------------------------------------------------
(* The steps of the threads and of the clients.                            *)
LEMMA ClientStartInv ==
  ASSUME TypeInv, StartInv, ServeQuery \/ WorkerForwards
  PROVE  StartInv'
<1> TypeOK /\ Phases
  BY DEF TypeInv, StartInv
<1>1. UNCHANGED <<main, resources, mutex, thread>>
  BY DEF ServeQuery, WorkerForwards
<1>2. Phases'
  BY <1>1 DEF Phases, main, ServeQuery, WorkerForwards
<1>3. ASSUME ~CallFailed PROVE ~crashed'
  <2>1. ~crashed /\ WorkedOff
    BY <1>3 DEF StartInv, Orderly
  <2>2. step \in {"serve", "exit"}
    BY DEF ServeQuery, WorkerForwards, Phases
  <2>3. at = 4 /\ todo = << >>
    BY <2>2, ModuleFacts DEF Phases
  <2>4. Module[2] \in rings /\ Module[3] \in rings
    BY <2>1, <2>3, InitOver
  <2> QED
    BY <2>1, <2>4, ModuleFacts DEF ServeQuery, WorkerForwards
<1>4. (CallFailed' <=> CallFailed) /\ (WorkedOff => WorkedOff') /\ (Entered => Entered')
  <2>1. Lasting /\ at' = at /\ todo' = todo /\ thread' = thread /\ rings' = rings /\ failed' = failed
    BY <1>1 DEF Lasting, main, resources
  <2>2. WorkedOff => WorkedOff'
    BY <2>1, StandStill
  <2> QED
    BY <2>1, <2>2 DEF CallFailed, Entered
<1> QED
  BY <1>2, <1>3, <1>4 DEF StartInv, Orderly

LEMMA ThreadStartInv ==
  ASSUME TypeInv, StartInv, NEW m \in Modules, ThreadStep(m)
  PROVE  StartInv'
<1> TypeOK /\ Phases
  BY DEF TypeInv, StartInv
<1>1. /\ at' = at /\ todo' = todo /\ step' = step /\ queued' = queued
      /\ rings' = rings /\ failed' = failed
  BY DEF ThreadStep, CondWait, CondWaitReturns, EnterLoop, DequeueFromNull, main, resources
<1>2. Lasting
  BY <1>1 DEF ThreadStep, CondWait, CondWaitReturns, EnterLoop, DequeueFromNull, Lasting, TypeOK
<1>3. Phases' /\ (CallFailed' <=> CallFailed) /\ (WorkedOff => WorkedOff')
  <2>1. WorkedOff => WorkedOff'
    BY <1>1, <1>2, StandStill
  <2> QED
    BY <1>1, <2>1 DEF Phases, CallFailed
<1>4. ASSUME Entered, ~crashed PROVE Entered' /\ ~crashed'
  <2>1. ~DequeueFromNull(m)
    BY <1>4 DEF DequeueFromNull, Entered
  <2>2. ~crashed'
    BY <1>4, <2>1 DEF ThreadStep, CondWait, CondWaitReturns, EnterLoop
  <2>3. \A n \in Modules : n # m => thread'[n] = thread[n]
    BY <2>1 DEF ThreadStep, CondWait, CondWaitReturns, EnterLoop, TypeOK
  <2>4. thread'[m] = "waiting" \/ thread[m] \in {"woken", "awake"}
    BY <2>1 DEF ThreadStep, CondWait, CondWaitReturns, EnterLoop, TypeOK
  <2> QED
    BY <1>1, <1>4, <2>2, <2>3, <2>4 DEF Entered
<1> QED
  BY <1>3, <1>4 DEF StartInv, Orderly

LEMMA NextStartInv == TypeInv /\ StartInv /\ [Next]_vars => StartInv'
<1> SUFFICES ASSUME TypeInv, StartInv, [Next]_vars PROVE StartInv'
  OBVIOUS
<1>1. CASE MainStep
  BY <1>1, MainPhases, MainOrderly DEF StartInv
<1>2. CASE ServeQuery \/ WorkerForwards
  BY <1>2, ClientStartInv
<1>3. CASE \E m \in Modules : ThreadStep(m)
  BY <1>3, ThreadStartInv
<1>4. ASSUME NEW m \in Modules, WakeUnsignalled(m) PROVE StartInv'
  <2>1. CallFailed'
    <3>1. <<m, "wake">> \in failed' /\ <<m, "wake">>[2] # "ret"
      BY <1>4 DEF WakeUnsignalled
    <3> QED
      BY <3>1 DEF CallFailed
  <2>2. Phases'
    BY <1>4 DEF WakeUnsignalled, Phases, StartInv, main
  <2> QED
    BY <2>1, <2>2 DEF StartInv, Orderly
<1>5. CASE UNCHANGED vars
  BY <1>5 DEF vars, main, resources, settings, StartInv, Phases, Orderly, CallFailed, WorkedOff,
       Entered, Remaining, Current, DoneUpTo, Effect
<1> QED
  BY <1>1, <1>2, <1>3, <1>4, <1>5 DEF Next

(* No thread and no client makes the server use a ring that does not exist,*)
(* whatever the file and however the threads are scheduled, unless a call  *)
(* has failed or a wait was cut short.                                     *)
THEOREM StartNoNullRing == Spec => []NoNullRing
<1>1. StartInv => NoNullRing
  BY DEF StartInv, Orderly, NoNullRing
<1> QED
  BY <1>1, InitTypeInv, NextTypeInv, InitStartInv, NextStartInv, PTL DEF Spec

-----------------------------------------------------------------------------
(* Which threads there are.                                                *)

LEMMA ThreadedStays ==
  ASSUME Lasting, NEW m \in Modules, Threaded(m)
  PROVE  Threaded(m)'
BY DEF Lasting, Threaded, InitCutShort

(* Main is at the same module, and a creation that was to come has had its *)
(* effect or is still to come.                                             *)
LEMMA ThreadsGoOn ==
  ASSUME TypeOK, ThreadsInv, Lasting, at' = at,
         at # 1 => (ToBeCreated(at) => Threaded(Current)' \/ ToBeCreated(at)')
  PROVE  ThreadsInv'
<1> SUFFICES ASSUME NEW i \in 2 .. at PROVE Threaded(Module[i])' \/ ToBeCreated(i)'
  BY DEF ThreadsInv
<1>1. at \in 1 .. 4
  BY MainType
<1>2. Module[i] \in Modules /\ at # 1
  BY <1>1, ModuleFacts
<1>3. CASE Threaded(Module[i])
  BY <1>2, <1>3, ThreadedStays
<1>4. CASE ~Threaded(Module[i])
  <2>1. i = at /\ ToBeCreated(at)
    BY <1>4 DEF ThreadsInv, ToBeCreated
  <2>2. Threaded(Current)' \/ ToBeCreated(at)'
    BY <1>2, <2>1
  <2>3. CASE Threaded(Current)'
    BY <2>1, <2>3, at' = at DEF Current
  <2>4. CASE ToBeCreated(at)'
    BY <2>1, <2>4, at' = at
  <2> QED
    BY <2>2, <2>3, <2>4
<1> QED
  BY <1>3, <1>4

(* The first of the steps to come is done.                                 *)
LEMMA CreationLater ==
  ASSUME TypeOK, ToBeCreated(at), at' = at, step' = step, Head(todo) # "create", todo' = Tail(todo)
  PROVE  ToBeCreated(at)'
<1>1. todo \in Seq(Op)
  BY MainType
<1>2. PICK j \in 1 .. Len(todo) : todo[j] = "create"
  BY DEF ToBeCreated
<1>3. todo # << >> /\ j # 1
  BY <1>1, <1>2
<1>4. j - 1 \in 1 .. Len(Tail(todo)) /\ Tail(todo)[j - 1] = todo[j]
  BY <1>1, <1>2, <1>3
<1>5. j - 1 \in 1 .. Len(todo') /\ todo'[j - 1] = "create"
  BY <1>2, <1>4
<1> QED
  BY <1>5 DEF ToBeCreated

(* Main comes to the next module, which has its thread still to be created.*)
LEMMA ThreadsNextModule ==
  ASSUME TypeOK, ThreadsInv, Lasting, todo = << >>, at < 4,
         at' = at + 1, step' = "init", todo' = InitOps(Module[at + 1])
  PROVE  ThreadsInv'
<1>1. at \in 1 .. 4
  BY MainType
<1> SUFFICES ASSUME NEW i \in 2 .. at + 1 PROVE Threaded(Module[i])' \/ ToBeCreated(i)'
  BY <1>1 DEF ThreadsInv
<1>2. i \in 2 .. 4 /\ Module[i] \in Modules
  BY <1>1, ModuleFacts
<1>3. CASE i = at + 1
  <2>1. PICK k \in 1 .. Len(InitOps(Module[i])) : InitOps(Module[i])[k] = "create"
    BY <1>2, RingAndThread
  <2> QED
    BY <1>3, <2>1 DEF ToBeCreated
<1>4. CASE i # at + 1
  <2>1. i \in 2 .. at
    BY <1>1, <1>4
  <2>2. ~ToBeCreated(i)
    BY DEF ToBeCreated
  <2> QED
    BY <1>2, <2>1, <2>2, ThreadedStays DEF ThreadsInv
<1> QED
  BY <1>3, <1>4

LEMMA MainThreads ==
  ASSUME TypeInv, Phases, ThreadsInv, MainStep
  PROVE  ThreadsInv'
<1> TypeOK /\ Lasting
  BY MainLasting DEF TypeInv
<1>0. at \in 1 .. 4 /\ (at # 1 => Current \in Modules)
  BY MainType, ModuleFacts DEF Current
<1>1. CASE LoadFile \/ ParseFile \/ OpenSockets \/ InitMutex \/ CreateRing
  <2>1. at' = at /\ step' = step /\ todo' = Tail(todo)
        /\ Head(todo) \in {"load", "parse", "sock", "lock", "ring"}
    BY <1>1 DEF LoadFile, ParseFile, OpenSockets, InitMutex, CreateRing, Doing
  <2>2. ToBeCreated(at) => ToBeCreated(at)'
    BY <2>1, CreationLater
  <2> QED
    BY <2>1, <2>2, ThreadsGoOn
<1>2. CASE CreateThread
  <2>1. at' = at /\ Current \in Modules
    BY <1>2, OwnStep DEF CreateThread
  <2>2. thread'[Current] = "created" /\ Current' = Current
    BY <1>2, <2>1 DEF CreateThread, TypeOK, Current
  <2> QED
    BY <2>1, <2>2, ThreadsGoOn DEF Threaded
<1>3. CASE CreateRingUnset \/ InitFails
  <2>1. at' = at /\ Current' = Current
    BY <1>3 DEF CreateRingUnset, InitFails, Current
  <2>2. PICK op \in {"sock", "ring", "create", "ret"} : <<Current, op>> \in failed'
    BY <1>3 DEF CreateRingUnset, InitFails
  <2>3. <<Current, op>>[1] = Current /\ <<Current, op>>[2] # "wake"
    OBVIOUS
  <2>4. InitCutShort(Current)'
    BY <2>1, <2>2, <2>3 DEF InitCutShort
  <2> QED
    BY <2>1, <2>4, ThreadsGoOn DEF Threaded
<1>4. CASE InitDone
  <2>1. at' = at /\ ~ToBeCreated(at)
    BY <1>4 DEF InitDone, ToBeCreated
  <2> QED
    BY <2>1, ThreadsGoOn
<1>5. CASE RunLock \/ RunSignal \/ (RunUnlock /\ ~(at < Len(Module)))
  <2>1. at' = at /\ ~ToBeCreated(at)
    BY <1>5 DEF RunLock, RunSignal, RunUnlock, ToBeCreated
  <2> QED
    BY <2>1, ThreadsGoOn
<1>6. CASE ConfigDone \/ (RunUnlock /\ at < Len(Module))
  <2>1. at < 4 /\ todo = << >>
    BY <1>0, <1>6, ModuleFacts DEF ConfigDone, RunUnlock, Phases, Current
  <2>2. at' = at + 1 /\ step' = "init" /\ todo' = InitOps(Module[at + 1])
    BY <1>6 DEF ConfigDone, RunUnlock, Proceed
  <2> QED
    BY <2>1, <2>2, ThreadsNextModule
<1> QED
  BY <1>1, <1>2, <1>3, <1>4, <1>5, <1>6 DEF MainStep

LEMMA NextThreads == TypeInv /\ StartInv /\ ThreadsInv /\ [Next]_vars => ThreadsInv'
<1> SUFFICES ASSUME TypeInv, StartInv, ThreadsInv, [Next]_vars PROVE ThreadsInv'
  OBVIOUS
<1> TypeOK /\ Phases
  BY DEF TypeInv, StartInv
<1>1. CASE MainStep
  BY <1>1, MainThreads
<1>2. CASE ~MainStep
  <2>1. at' = at /\ step' = step /\ todo' = todo
    BY <1>2 DEF Next, ThreadStep, CondWait, CondWaitReturns, EnterLoop, DequeueFromNull,
                ServeQuery, WorkerForwards, WakeUnsignalled, vars, main
  <2>2. Lasting
    <3>1. CASE ServeQuery \/ WorkerForwards \/ UNCHANGED vars
      BY <3>1 DEF ServeQuery, WorkerForwards, vars, resources, Lasting
    <3>2. ASSUME NEW m \in Modules, ThreadStep(m) PROVE Lasting
      BY <3>2 DEF ThreadStep, CondWait, CondWaitReturns, EnterLoop, DequeueFromNull, Lasting, TypeOK, resources
    <3>3. ASSUME NEW m \in Modules, WakeUnsignalled(m) PROVE Lasting
      BY <3>3 DEF WakeUnsignalled, Lasting, TypeOK
    <3> QED
      BY <1>2, <3>1, <3>2, <3>3 DEF Next
  <2>3. ToBeCreated(at) => ToBeCreated(at)'
    BY <2>1 DEF ToBeCreated
  <2> QED
    BY <2>1, <2>2, <2>3, ThreadsGoOn
<1> QED
  BY <1>1, <1>2

(* When main comes to its event loop, every module has its thread unless   *)
(* that module's own init was cut short, whatever has failed elsewhere.    *)
THEOREM StartServesWithAllThreads == Spec => []ServesWithAllThreads
<1>1. Init => ThreadsInv
  BY DEF Init, ThreadsInv
<1>2. ASSUME StartInv, ThreadsInv PROVE ServesWithAllThreads
  <2> SUFFICES ASSUME step = "serve", NEW m \in Modules PROVE thread[m] # "none" \/ InitCutShort(m)
    BY DEF ServesWithAllThreads
  <2>1. at = 4
    BY <1>2, ModuleFacts DEF StartInv, Phases
  <2>2. \A i \in 2 .. 4 : Threaded(Module[i])
    BY <1>2, <2>1 DEF ThreadsInv, ToBeCreated
  <2> QED
    BY <2>2, ModuleFacts DEF Modules, Threaded
<1> QED
  BY <1>1, <1>2, InitTypeInv, NextTypeInv, InitStartInv, NextStartInv, NextThreads, PTL DEF Spec

-----------------------------------------------------------------------------
(* What a file that is in order says is in force.                          *)

(* A list with at most one node of a name has it at one place.             *)
LEMMA OnlyOne ==
  ASSUME NEW list, Siblings(list), NEW v,
         Cardinality({i \in DOMAIN list : list[i].name = v}) <= 1,
         NEW i \in 1 .. Len(list), list[i].name = v,
         NEW j \in 1 .. Len(list), list[j].name = v
  PROVE  i = j
<1> SUFFICES ASSUME i # j PROVE FALSE
  OBVIOUS
<1> DEFINE I == {n \in DOMAIN list : list[n].name = v}
<1>1. Len(list) \in Nat /\ DOMAIN list = 1 .. Len(list)
  BY SiblingsFacts DEF Siblings
<1>2. IsFiniteSet(I) /\ Cardinality(I) \in Nat
  <2>1. IsFiniteSet(1 .. Len(list)) /\ I \in SUBSET (1 .. Len(list))
    BY <1>1, FS_Interval
  <2> HIDE DEF I
  <2> QED
    BY <2>1, FS_Subset, FS_CardinalityType
<1>3. {i, j} \in SUBSET I
  BY <1>1
<1>4. Cardinality({i, j}) = 2
  <2>1. IsFiniteSet({i}) /\ Cardinality({i}) = 1
    BY FS_Singleton
  <2>2. {i, j} = {i} \cup {j} /\ j \notin {i}
    OBVIOUS
  <2> QED
    BY <2>1, <2>2, FS_AddElement, 1 + 1 = 2
<1> HIDE DEF I
<1>5. Cardinality({i, j}) <= Cardinality(I)
  BY <1>2, <1>3, FS_Subset
<1> QED
  BY <1>2, <1>4, <1>5 DEF I

(* In a file with at most one element of the name f2 config_search4 misses *)
(* no node of the name f3 in it.                                           *)
LEMMA Search3Complete ==
  ASSUME NEW f \in Files, f.root.name = "DNSCONFIG", NEW f2, NEW f3,
         Cardinality({i \in DOMAIN f.root.children : f.root.children[i].name = f2}) <= 1,
         NEW n \in At(f.root, f2, f3)
  PROVE  LET ptr == Search3(f.root, "DNSCONFIG", f2, f3) IN
         /\ ptr # << >> /\ Head(ptr) \in At(f.root, f2, f3)
         /\ n \in ToSet(ptr) /\ Siblings(ptr)
         /\ \A m \in ToSet(ptr) : m.name = f3 => m \in At(f.root, f2, f3)
<1> DEFINE kids == f.root.children
           ptr == Search3(f.root, "DNSCONFIG", f2, f3)
           pnode == SearchList(kids, f2)
<1>1. Siblings(kids) /\ Len(kids) \in Nat /\ ToSet(kids) = {kids[i] : i \in 1 .. Len(kids)}
  BY FilesAssumption, SiblingsFacts
<1>2. PICK p \in ToSet(kids) : p.name = f2 /\ n \in ToSet(p.children) /\ n.name = f3
  BY DEF At
<1>3. PICK j \in 1 .. Len(kids) : p = kids[j]
  BY <1>1, <1>2
<1>4. PICK i \in 1 .. Len(kids) :
        kids[i].name = f2 /\ pnode # << >> /\ Head(pnode) = kids[i]
  BY SMTT(60), <1>1, <1>2, <1>3, SearchListFinds
<1>5. kids[i] = p
  <2>1. Cardinality({k \in DOMAIN kids : kids[k].name = f2}) <= 1
    OBVIOUS
  <2> HIDE DEF kids
  <2>2. kids[j].name = f2
    BY <1>2, <1>3
  <2>3. i = j
    BY <1>1, <1>4, <2>1, <2>2, OnlyOne
  <2> QED
    BY <1>3, <2>3
<1>6. Siblings(p.children)
  BY <1>2, FilesAssumption
<1>7. ptr = SearchList(p.children, f3)
  <2>1. Head(<<f.root>>) = f.root
    OBVIOUS
  <2> QED
    BY <2>1, <1>4, <1>5 DEF Search3, SearchChildren
<1> HIDE DEF ptr, pnode, kids
<1>8. ptr # << >>
  <2>1. PICK k \in 1 .. Len(p.children) : p.children[k] = n
    BY SMTT(60), <1>2, <1>6, SiblingsFacts
  <2> QED
    BY <1>2, <1>6, <1>7, <2>1, SearchListFinds
<1>9. PICK k \in 1 .. Len(p.children) :
        /\ \A l \in 1 .. k - 1 : p.children[l].name # f3
        /\ p.children[k].name = f3 /\ Head(ptr) = p.children[k]
        /\ ToSet(ptr) = {p.children[l] : l \in k .. Len(p.children)}
        /\ Siblings(ptr)
  BY <1>6, <1>7, <1>8, SearchListFinds
<1>10. Len(p.children) \in Nat /\ ToSet(p.children) = {p.children[l] : l \in 1 .. Len(p.children)}
  BY <1>6, SiblingsFacts
<1>11. n \in ToSet(ptr)
  <2>1. PICK l \in 1 .. Len(p.children) : p.children[l] = n
    BY <1>2, <1>10
  <2>2. ~ (l \in 1 .. k - 1)
    BY <1>2, <1>9, <2>1
  <2>3. l \in k .. Len(p.children)
    BY <1>10, <2>2
  <2> QED
    BY <1>9, <2>1, <2>3
<1>12. \A m \in ToSet(p.children) : m.name = f3 => m \in At(f.root, f2, f3)
  BY <1>2 DEF At, kids
<1>13. Head(ptr) \in ToSet(p.children) /\ ToSet(ptr) \subseteq ToSet(p.children)
  BY <1>9, <1>10
<1> QED
  BY <1>8, <1>9, <1>11, <1>12, <1>13 DEF ptr

(* From a sound file the program takes a port, if the file has a sound one.*)
LEMMA SoundPort ==
  ASSUME NEW f \in Files, Sound(f), PortSound(f.root),
         NEW c, c = ParseForward(ParseServer(NoConfig, f.root), f.root)
  PROVE  c.port # 0
<1> DEFINE bptr == Search3(f.root, "DNSCONFIG", "Server", "BindSource")
           served == ParseServer(NoConfig, f.root)
<1>1. served \in Settings
  BY NoConfigType, ParseServerType
<1>2. /\ f.root.name = "DNSCONFIG"
      /\ Cardinality({i \in DOMAIN f.root.children : f.root.children[i].name = "Server"}) <= 1
      /\ At(f.root, "Server", "BindSource") # {}
      /\ \A n \in At(f.root, "Server", "BindSource") : Fine(n, "port", PortTexts)
  BY DEF Sound, PortSound
<1>3. bptr # << >> /\ Head(bptr) \in At(f.root, "Server", "BindSource")
  BY <1>2, Search3Complete
<1>4. served.port # 0
  <2> DEFINE number == Numbers[Value(bptr, "port")] % 65536
             port == IF Value(bptr, "port") = "" THEN DnsPort ELSE number
             ip == IF Value(bptr, "ipaddr") = "" THEN NoIp ELSE InetPton(Value(bptr, "ipaddr"), NoIp)
  <2>1. Value(bptr, "port") \in PortTexts \cup {""}
    BY <1>2, <1>3, ValueOfHead DEF Fine
  <2>2. ASSUME Value(bptr, "port") # "" PROVE number # 0
    <3>1. \A n \in Port \ {0} : n % 65536 # 0
      BY PortIsItself
    <3>2. \A t \in PortTexts : Numbers[t] \in Port \ {0}
      BY DEF PortTexts
    <3>3. \A t \in PortTexts : Numbers[t] % 65536 # 0
      BY <3>1, <3>2
    <3>4. Value(bptr, "port") \in PortTexts
      BY <2>1, <2>2
    <3> QED
      BY <3>3, <3>4
  <2>3. port # 0
    <3>1. DnsPort # 0
      BY DEF DnsPort
    <3> HIDE DEF number
    <3> QED
      BY <2>2, <3>1
  <2>4. served = [NoConfig EXCEPT !.bindip = ip, !.port = port]
    BY <1>3 DEF ParseServer, NoConfig
  <2> HIDE DEF port, ip
  <2> QED
    BY <2>3, <2>4 DEF NoConfig
<1>5. c = served \/ \E ip : c = [served EXCEPT !.forwdip = ip]
  BY DEF ParseForward
<1> HIDE DEF served
<1> QED
  BY <1>1, <1>4, <1>5 DEF Settings

(* And it takes an upstream server, if the file has a sound one.           *)
LEMMA SoundForward ==
  ASSUME NEW f \in Files, Sound(f), ForwardSound(f.root),
         NEW c, c = ParseForward(ParseServer(NoConfig, f.root), f.root)
  PROVE  c.forwdip # NoIp
<1> DEFINE fptr == Search3(f.root, "DNSCONFIG", "Record", "Forward")
           served == ParseServer(NoConfig, f.root)
<1>1. served \in Settings
  BY NoConfigType, ParseServerType
<1>2. /\ f.root.name = "DNSCONFIG"
      /\ Cardinality({i \in DOMAIN f.root.children : f.root.children[i].name = "Record"}) <= 1
      /\ At(f.root, "Record", "Forward") # {}
      /\ \A n \in At(f.root, "Record", "Forward") : Fine(n, "ipaddr", Addresses \ {NoIp})
  BY DEF Sound, ForwardSound
<1>3. fptr # << >> /\ Head(fptr) \in At(f.root, "Record", "Forward")
  BY <1>2, Search3Complete
<1>4. (IF Value(fptr, "ipaddr") = "" THEN DefaultForward
       ELSE InetPton(Value(fptr, "ipaddr"), served.forwdip)) # NoIp
  <2>1. Value(fptr, "ipaddr") \in (Addresses \ {NoIp}) \cup {""}
    BY <1>2, <1>3, ValueOfHead DEF Fine
  <2> QED
    BY <2>1 DEF InetPton, DefaultForward, NoIp
<1>5. c = [served EXCEPT !.forwdip = IF Value(fptr, "ipaddr") = "" THEN DefaultForward
                                     ELSE InetPton(Value(fptr, "ipaddr"), served.forwdip)]
  BY <1>3 DEF ParseForward
<1> HIDE DEF served, fptr
<1> QED
  BY <1>1, <1>4, <1>5 DEF Settings

(* From a sound file the program takes, for each name with a record, the   *)
(* address of one of its records.                                          *)
LEMMA SoundRecords ==
  ASSUME NEW f \in Files, Sound(f), NEW r \in RecordsOf(f.root)
  PROVE  /\ r[1] \in DOMAIN Records(f.root)
         /\ \E q \in RecordsOf(f.root) :
              q[1] = r[1] /\ Records(f.root)[r[1]] = InetPton(q[2], NoIp)
<1> DEFINE nodes == Search3(f.root, "DNSCONFIG", "Root", "IPSource")
<1>1. PICK n \in At(f.root, "Root", "IPSource") :
        Usable(n) /\ r = <<n.attributes["Domain"], n.attributes["ipaddr"]>>
  BY DEF RecordsOf
<1>2. PICK name : name = r[1]
  OBVIOUS
<1>3. name = n.attributes["Domain"]
  BY <1>1, <1>2
<1>4. /\ f.root.name = "DNSCONFIG"
      /\ Cardinality({i \in DOMAIN f.root.children : f.root.children[i].name = "Root"}) <= 1
  BY DEF Sound
<1>5. /\ n \in ToSet(nodes) /\ Siblings(nodes)
      /\ \A m \in ToSet(nodes) : m.name = "IPSource" => m \in At(f.root, "Root", "IPSource")
  BY <1>4, Search3Complete
<1> HIDE DEF nodes
<1>6. Len(nodes) \in Nat /\ ToSet(nodes) = {nodes[i] : i \in 1 .. Len(nodes)}
  BY <1>5, SiblingsFacts
<1> DEFINE I == {i \in 1 .. Len(nodes) : Usable(nodes[i]) /\ nodes[i].attributes["Domain"] = name}
<1>7. PICK i : i = Min(I)
  OBVIOUS
<1>8. I # {} /\ I \in SUBSET Nat
  BY <1>1, <1>3, <1>5, <1>6
<1>9. i \in I
  <2> HIDE DEF I
  <2> QED
    BY <1>7, <1>8, LeastOf
<1>10. SelectInSeq(nodes, LAMBDA m : Usable(m) /\ m.attributes["Domain"] = name) = i
  BY <1>7, <1>8 DEF SelectInSeq
<1>11. name \in {m.attributes["Domain"] : m \in {k \in ToSet(nodes) : Usable(k)}}
  BY <1>1, <1>3, <1>5
<1>12. /\ name \in DOMAIN Records(f.root)
       /\ Records(f.root)[name] = InetPton(Value(<<nodes[i]>>, "ipaddr"), NoIp)
  <2>1. Records(f.root) =
          [v \in {m.attributes["Domain"] : m \in {k \in ToSet(nodes) : Usable(k)}} |->
             InetPton(Value(<<nodes[SelectInSeq(nodes,
                                LAMBDA m : Usable(m) /\ m.attributes["Domain"] = v)]>>, "ipaddr"), NoIp)]
    BY DEF Records, nodes
  <2> QED
    BY <1>10, <1>11, <2>1
<1>13. nodes[i] \in At(f.root, "Root", "IPSource") /\ Usable(nodes[i])
       /\ nodes[i].attributes["Domain"] = name
  <2>1. /\ nodes[i] \in ToSet(nodes) /\ Usable(nodes[i])
        /\ nodes[i].attributes["Domain"] = name
    BY <1>6, <1>9
  <2>2. nodes[i].name = "IPSource"
    BY <2>1 DEF Usable
  <2> QED
    BY <1>5, <2>1, <2>2
<1>14. Value(<<nodes[i]>>, "ipaddr") = nodes[i].attributes["ipaddr"]
  <2>1. Value(<<nodes[i]>>, "ipaddr") # ""
    BY <1>13 DEF Usable
  <2>2. Head(<<nodes[i]>>) = nodes[i]
    OBVIOUS
  <2> QED
    BY <2>1, <2>2 DEF Value
<1>15. PICK q : q = <<nodes[i].attributes["Domain"], nodes[i].attributes["ipaddr"]>>
  OBVIOUS
<1>16. q \in RecordsOf(f.root)
  BY <1>13, <1>15 DEF RecordsOf
<1> QED
  BY <1>2, <1>12, <1>13, <1>14, <1>15, <1>16

(* The settings are complete when main comes to the first module with a    *)
(* thread, and what a socket is given are the settings.                    *)
LEMMA InitConfigInv == Init => ConfigInv
BY ModuleFacts, InitOpsFacts DEF Init, ConfigInv

LEMMA MainConfigInv ==
  ASSUME TypeInv, Phases, ConfigInv, MainStep
  PROVE  ConfigInv'
<1> TypeOK
  BY DEF TypeInv
<1>0. at \in 1 .. 4 /\ Current = Module[at]
  BY MainType DEF Current
<1>1. CASE LoadFile
  <2>1. at = 1 /\ todo = <<"load", "parse">> /\ config = NoConfig /\ records = << >>
    <3>1. at = 1 /\ todo # << >> /\ Head(todo) = "load"
      BY <1>1, ConfigStep DEF LoadFile, Doing
    <3>2. Head(<<"parse">>) # "load"
      OBVIOUS
    <3> QED
      BY <3>1, <3>2 DEF ConfigInv
  <2>2. todo' = <<"parse">>
    BY <1>1, <2>1 DEF LoadFile
  <2> QED
    BY <1>1, <2>1, <2>2 DEF LoadFile, ConfigInv
<1>2. CASE ParseFile
  <2>1. at = 1 /\ todo = <<"parse">> /\ config = NoConfig /\ loaded = ConfigLoad(file)
    <3>1. at = 1 /\ todo # << >> /\ Head(todo) = "parse"
      BY <1>2, ConfigStep DEF ParseFile, Doing
    <3>2. Head(<<"load", "parse">>) # "parse"
      OBVIOUS
    <3> QED
      BY <3>1, <3>2 DEF ConfigInv
  <2>2. todo' = << >>
    BY <1>2, <2>1 DEF ParseFile
  <2>3. Settled'
    BY <1>2, <2>1 DEF ParseFile, Settled
  <2> QED
    BY <1>2, <2>1, <2>2, <2>3 DEF ParseFile, ConfigInv
<1>3. CASE OpenSockets
  <2>1. at # 1
    BY <1>3, OwnStep DEF OpenSockets
  <2>2. Settled' /\ at' = at
    BY <1>0, <1>3, <2>1 DEF OpenSockets, ConfigInv, Settled
  <2>3. opened' = opened \cup {Current} /\ Current \in Modules
        /\ UNCHANGED config
        /\ IF Current = "bundle"
           THEN bound' = [ip |-> config.bindip, port |-> config.port] /\ UNCHANGED upstream
           ELSE upstream' = config.forwdip /\ UNCHANGED bound
    BY <1>3, OwnStep DEF OpenSockets
  <2>4. "bundle" \in opened' => bound'.port = config.port
    BY <2>3 DEF ConfigInv
  <2>5. "forward" \in opened' => upstream' = config.forwdip
    BY <2>3 DEF ConfigInv
  <2> QED
    BY <1>0, <2>1, <2>2, <2>3, <2>4, <2>5 DEF ConfigInv
<1>4. CASE CreateThread \/ CreateRing \/ CreateRingUnset \/ InitMutex \/ InitFails
  <2>1. at # 1
    BY <1>4, OwnStep DEF CreateThread, CreateRing, CreateRingUnset, InitMutex, InitFails
  <2>2. at' = at /\ UNCHANGED <<file, config, records, bound, upstream, opened>>
    BY <1>4 DEF CreateThread, CreateRing, CreateRingUnset, InitMutex, InitFails, resources, settings
  <2> QED
    BY <1>0, <2>1, <2>2 DEF ConfigInv, Settled
<1>5. CASE ConfigDone
  <2>1. at = 1 /\ at' = at + 1 /\ todo = << >>
    <3>1. ~crashed /\ todo = << >> /\ Module[at] = "config" /\ at' = at + 1
      BY <1>0, <1>5 DEF ConfigDone, Proceed
    <3>2. at \notin 2 .. 4
      BY <3>1, ModuleFacts DEF Modules
    <3> QED
      BY <1>0, <3>1, <3>2
  <2>2. UNCHANGED <<file, config, records, bound, upstream, opened>>
    BY <1>5 DEF ConfigDone, resources, settings
  <2>3. <<"load", "parse">> # << >> /\ <<"parse">> # << >>
    OBVIOUS
  <2>4. Settled
    BY <2>1, <2>3 DEF ConfigInv
  <2>5. Settled'
    BY <2>2, <2>4 DEF Settled
  <2>6. at' > 1 /\ at' # 1
    BY <2>1
  <2> QED
    BY <2>2, <2>5, <2>6 DEF ConfigInv
<1>6. CASE InitDone \/ RunLock \/ RunSignal \/ RunUnlock
  <2>1. at # 1
    <3>1. CASE InitDone
      BY <1>0, <3>1, ModuleFacts DEF InitDone
    <3>2. CASE RunLock \/ RunSignal \/ RunUnlock
      BY <1>0, <3>2 DEF RunLock, RunSignal, RunUnlock, Phases
    <3> QED
      BY <1>6, <3>1, <3>2
  <2>2. at' \in {at, at + 1} /\ UNCHANGED <<file, config, records, bound, upstream, opened>>
    BY <1>6 DEF InitDone, RunLock, RunSignal, RunUnlock, Proceed, resources, settings
  <2> QED
    BY <1>0, <2>1, <2>2 DEF ConfigInv, Settled
<1> QED
  BY <1>1, <1>2, <1>3, <1>4, <1>5, <1>6 DEF MainStep

LEMMA OthersConfigInv ==
  ASSUME TypeInv, ConfigInv,
         ServeQuery \/ WorkerForwards \/ \E m \in Modules : ThreadStep(m) \/ WakeUnsignalled(m)
  PROVE  ConfigInv'
<1>1. UNCHANGED <<at, todo, settings, opened>>
  BY DEF ServeQuery, WorkerForwards, ThreadStep, CondWait, CondWaitReturns, EnterLoop,
         DequeueFromNull, WakeUnsignalled, main, resources
<1>2. ASSUME at = 1 PROVE thread' = thread
  <2>1. \A m \in Modules : thread[m] = "none"
    BY <1>2 DEF ConfigInv
  <2>2. "work" \in Modules
    BY DEF Modules
  <2> QED
    BY <2>1, <2>2 DEF ServeQuery, WorkerForwards, ThreadStep, CondWait, CondWaitReturns, EnterLoop,
       DequeueFromNull, WakeUnsignalled
<1> QED
  BY <1>1, <1>2 DEF ConfigInv, Settled, settings

LEMMA NextConfigInv == TypeInv /\ Phases /\ ConfigInv /\ [Next]_vars => ConfigInv'
<1>1. ASSUME ConfigInv, UNCHANGED vars PROVE ConfigInv'
  BY <1>1 DEF ConfigInv, Settled, vars, main, resources, settings
<1> QED
  BY <1>1, MainConfigInv, OthersConfigInv DEF Next

(* With a file that can be read and has no element twice the server has a  *)
(* port and an upstream server if their values are in order, each whatever *)
(* the other is, and its records are in the cache before the worker's loop.*)
THEOREM StartSoundFileServed == Spec => []SoundFileServed
<1>1. ASSUME TypeInv, ConfigInv PROVE SoundFileServed
  <2> SUFFICES ASSUME Sound(file)
               PROVE  /\ "bundle" \in opened /\ PortSound(file.root) => bound.port # 0
                      /\ "forward" \in opened /\ ForwardSound(file.root) => upstream # NoIp
                      /\ thread["work"] = "running" =>
                           \A r \in RecordsOf(file.root) :
                             /\ r[1] \in DOMAIN records
                             /\ \E q \in RecordsOf(file.root) :
                                  q[1] = r[1] /\ records[r[1]] = InetPton(q[2], NoIp)
    BY DEF SoundFileServed
  <2>1. file \in Files /\ ConfigLoad(file)
    BY <1>1 DEF TypeInv, TypeOK, Sound, ConfigLoad
  <2>2. at = 1 \/ (config = ParseForward(ParseServer(NoConfig, file.root), file.root)
                   /\ records = Records(file.root))
    BY <1>1, <2>1 DEF ConfigInv, Settled
  <2>3. at # 1 => /\ PortSound(file.root) => config.port # 0
                  /\ ForwardSound(file.root) => config.forwdip # NoIp
    BY <2>1, <2>2, SoundPort, SoundForward
  <2>4. at = 1 => opened = {} /\ thread["work"] # "running"
    BY <1>1 DEF ConfigInv, Modules
  <2>5. at # 1 => \A r \in RecordsOf(file.root) :
                    /\ r[1] \in DOMAIN records
                    /\ \E q \in RecordsOf(file.root) :
                         q[1] = r[1] /\ records[r[1]] = InetPton(q[2], NoIp)
    BY <2>1, <2>2, SoundRecords
  <2> QED
    BY <1>1, <2>3, <2>4, <2>5 DEF ConfigInv
<1>3. StartInv => Phases
  BY DEF StartInv
<1> QED
  BY <1>1, <1>3, InitTypeInv, NextTypeInv, InitStartInv, NextStartInv, InitConfigInv, NextConfigInv,
     PTL DEF Spec
=============================================================================
