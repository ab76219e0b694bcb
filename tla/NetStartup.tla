----------------------------- MODULE NetStartup -----------------------------
(***************************************************************************)
(* How main brings the server up: DNS.conf is read, then each module is    *)
(* initialised and started in turn, and no result is looked at.            *)
(*                                                                         *)
(* A module's thread is started by a rendezvous on a mutex and a condition *)
(* variable: init leaves the mutex locked by main, the new thread gives it *)
(* up inside pthread_cond_wait although it never locked it, and run can    *)
(* lock it only from then on, so its signal cannot come before the wait.   *)
(***************************************************************************)
EXTENDS NetXmlConfig

CONSTANTS
  Files,     \* what DNS.conf may be: [readings, root]
  MayFail,   \* whether a system call or an allocation may fail
  MayWake    \* whether pthread_cond_wait may return without a signal

ASSUME StartupAssumption == MayFail \in BOOLEAN /\ MayWake \in BOOLEAN

(* As libxml2 leaves a file in memory, the children of a node are a list;  *)
(* atoi takes whatever text stands for a port.                             *)
Siblings(list) == Len(list) \in Nat /\ list = [i \in 1 .. Len(list) |-> list[i]]
ASSUME FilesAssumption ==
  \A f \in Files :
    /\ Siblings(f.root.children)
    /\ \A n \in ToSet(f.root.children) :
         /\ Siblings(n.children)
         /\ \A m \in ToSet(n.children) : Value(<<m>>, "port") \in DOMAIN Numbers

(* inet_pton accepts the addresses the program itself has.                 *)
ASSUME AddressesAssumption == {NoIp, DefaultForward} \subseteq Addresses

(* The modules in the order in which main comes to them; all but the       *)
(* configuration have a thread.                                            *)
Module == <<"config", "work", "forward", "bundle">>
Modules == {"work", "forward", "bundle"}

(* The steps of a module's init.                                           *)
InitOps(m) ==
  CASE m = "config"  -> <<"load", "parse">>
    [] m = "work"    -> <<"ring", "lock", "create">>
    [] m = "forward" -> <<"sock", "ring", "lock", "create">>
    [] m = "bundle"  -> <<"sock", "lock", "create", "ring">>

Op == {"load", "parse", "sock", "ring", "lock", "create"}

VARIABLES
  at,       \* the module main is at, as an index of Module
  step,     \* main: "init", the steps of run, "serve", "exit"
  todo,     \* what is left of the module's init
  file,     \* DNS.conf
  loaded,   \* net_xml_config_pdoc is there
  config,   \* net_xml_config_server_node and _forward_node
  records,  \* the cache as the configuration fills it
  bound,    \* the address and port the clients' socket is bound to
  upstream, \* net_forward_module_seraddr
  opened,   \* modules whose sockets are open
  rings,    \* modules whose ring exists
  mutex,    \* who holds each module's mutex
  thread,   \* how far each module's thread has come
  failed,   \* what has gone wrong so far: <<module, step of its init>>,
            \* "ret" for a result that was never set, "wake" for a wait cut short
  queued,   \* a client's query waits for the worker
  crashed   \* a NULL ring has been used

main == <<at, step, todo>>
settings == <<file, loaded, config, records, bound, upstream>>
resources == <<settings, opened, rings, failed>>
vars == <<main, resources, mutex, thread, queued, crashed>>

Current == Module[at]

ThreadState == {"none", "created", "waiting", "woken", "awake", "running"}

Endpoint == [ip : Addresses, port : Port]
Settings == [bindip : Addresses, port : Port, forwdip : Addresses]

TypeOK ==
  /\ at \in 1 .. Len(Module)
  /\ step \in {"init", "lock", "signal", "unlock", "serve", "exit"}
  /\ todo \in Seq(Op)
  /\ file \in Files /\ loaded \in BOOLEAN
  /\ config \in Settings /\ bound \in Endpoint /\ upstream \in Addresses
  /\ opened \subseteq Modules /\ rings \subseteq Modules
  /\ mutex \in [Modules -> {"free", "main", "thread"}]
  /\ thread \in [Modules -> ThreadState]
  /\ failed \subseteq Modules \X (Op \cup {"ret", "wake"})
  /\ queued \in BOOLEAN /\ crashed \in BOOLEAN

(* The mutexes are static: one that was never initialised is a free one.   *)
Init ==
  /\ at = 1 /\ step = "init" /\ todo = InitOps(Module[1])
  /\ file \in Files /\ loaded = FALSE /\ config = NoConfig /\ records = << >>
  /\ bound = [ip |-> NoIp, port |-> 0] /\ upstream = NoIp
  /\ opened = {} /\ rings = {} /\ failed = {}
  /\ mutex = [m \in Modules |-> "free"]
  /\ thread = [m \in Modules |-> "none"]
  /\ queued = FALSE /\ crashed = FALSE

-----------------------------------------------------------------------------
(* Main: init *)

Doing(op) == ~crashed /\ step = "init" /\ todo # << >> /\ Head(todo) = op

LoadFile ==
  /\ Doing("load")
  /\ loaded' = ConfigLoad(file)
  /\ todo' = Tail(todo)
  /\ UNCHANGED <<at, step, file, config, records, bound, upstream, opened, rings, failed>>
  /\ UNCHANGED <<mutex, thread, queued, crashed>>

(* Without a document there is nothing to parse, and nobody is told.       *)
ParseFile ==
  /\ Doing("parse")
  /\ IF loaded
     THEN /\ config' = ParseForward(ParseServer(config, file.root), file.root)
          /\ records' = Records(file.root)
     ELSE UNCHANGED <<config, records>>
  /\ todo' = Tail(todo)
  /\ UNCHANGED <<at, step, file, loaded, bound, upstream, opened, rings, failed>>
  /\ UNCHANGED <<mutex, thread, queued, crashed>>

(* The clients' sockets are bound, the forwarder's gets its destination.   *)
OpenSockets ==
  /\ Doing("sock")
  /\ opened' = opened \cup {Current}
  /\ IF Current = "bundle"
     THEN bound' = [ip |-> config.bindip, port |-> config.port] /\ UNCHANGED upstream
     ELSE upstream' = config.forwdip /\ UNCHANGED bound
  /\ todo' = Tail(todo)
  /\ UNCHANGED <<at, step, file, loaded, config, records, rings, failed>>
  /\ UNCHANGED <<mutex, thread, queued, crashed>>

CreateRing ==
  /\ Doing("ring")
  /\ rings' = rings \cup {Current}
  /\ todo' = Tail(todo)
  /\ UNCHANGED <<at, step, settings, opened, failed, mutex, thread, queued, crashed>>

(* The forward module returns the variable ret, which it has not set: the  *)
(* caller may take the success for a failure.                              *)
CreateRingUnset ==
  /\ Doing("ring") /\ Current = "forward"
  /\ rings' = rings \cup {Current}
  /\ failed' = failed \cup {<<Current, "ret">>}
  /\ todo' = << >>
  /\ UNCHANGED <<at, step, settings, opened, mutex, thread, queued, crashed>>

InitMutex ==
  /\ Doing("lock")
  /\ mutex' = [mutex EXCEPT ![Current] = "main"]
  /\ todo' = Tail(todo)
  /\ UNCHANGED <<at, step, resources, thread, queued, crashed>>

CreateThread ==
  /\ Doing("create")
  /\ thread' = [thread EXCEPT ![Current] = "created"]
  /\ todo' = Tail(todo)
  /\ UNCHANGED <<at, step, resources, mutex, queued, crashed>>

(* A failed step ends the init, except that the bundle module does not see *)
(* that its thread could not be created.                                   *)
InitFails ==
  /\ MayFail
  /\ \E op \in {"sock", "ring", "create"} :
       /\ Doing(op)
       /\ failed' = failed \cup {<<Current, op>>}
       /\ todo' = IF Current = "bundle" /\ op = "create" THEN Tail(todo) ELSE << >>
  /\ UNCHANGED <<at, step, settings, opened, rings, mutex, thread, queued, crashed>>

(* The next module's turn. *)
Proceed == at' = at + 1 /\ step' = "init" /\ todo' = InitOps(Module[at + 1])

(* The configuration has no thread to start. *)
ConfigDone ==
  /\ ~crashed /\ step = "init" /\ todo = << >> /\ Current = "config"
  /\ Proceed
  /\ UNCHANGED <<resources, mutex, thread, queued, crashed>>

(* Seeded fault: main does not wait for the end of the init. *)
InitDoneEarly ==
  /\ ~crashed /\ step = "init" /\ Current # "config"
  /\ "ring" \notin ToSet(todo)
  /\ step' = "lock"
  /\ UNCHANGED <<at, todo, resources, mutex, thread, queued, crashed>>

(* However the init ended, main goes on to run. *)
InitDone ==
  /\ ~crashed /\ step = "init" /\ todo = << >> /\ Current # "config"
  /\ step' = "lock"
  /\ UNCHANGED <<at, todo, resources, mutex, thread, queued, crashed>>

-----------------------------------------------------------------------------
(* Main: run *)

(* Seeded fault: the signal is sent without the mutex. *)
RunLockSkipped ==
  /\ ~crashed /\ step = "lock"
  /\ step' = "signal"
  /\ UNCHANGED <<at, todo, resources, mutex, thread, queued, crashed>>

RunLock ==
  /\ ~crashed /\ step = "lock"
  /\ mutex[Current] = "free"
  /\ mutex' = [mutex EXCEPT ![Current] = "main"]
  /\ step' = "signal"
  /\ UNCHANGED <<at, todo, resources, thread, queued, crashed>>

RunSignal ==
  /\ ~crashed /\ step = "signal"
  /\ thread' = [thread EXCEPT ![Current] = IF @ = "waiting" THEN "woken" ELSE @]
  /\ step' = "unlock"
  /\ UNCHANGED <<at, todo, resources, mutex, queued, crashed>>

(* The next module's turn, or the event loop, which ends at once when the  *)
(* bundle module has registered no socket with it.                         *)
RunUnlock ==
  /\ ~crashed /\ step = "unlock"
  /\ mutex' = [mutex EXCEPT ![Current] = "free"]
  /\ IF at < Len(Module)
     THEN Proceed
     ELSE /\ step' = IF "bundle" \in opened THEN "serve" ELSE "exit"
          /\ UNCHANGED <<at, todo>>
  /\ UNCHANGED <<resources, thread, queued, crashed>>

(* A client's query: enqueued for the worker. *)
ServeQuery ==
  /\ ~crashed /\ step = "serve"
  /\ IF "work" \in rings THEN queued' = TRUE /\ UNCHANGED crashed
                         ELSE crashed' = TRUE /\ UNCHANGED queued
  /\ UNCHANGED <<main, resources, mutex, thread>>

-----------------------------------------------------------------------------
(* The threads.  The process ends with main. *)
Living == ~crashed /\ step # "exit"

(* Seeded fault: the thread does not wait. *)
CondWaitSkipped(m) ==
  /\ Living /\ thread[m] = "created"
  /\ thread' = [thread EXCEPT ![m] = "woken"]
  /\ mutex' = [mutex EXCEPT ![m] = "free"]
  /\ UNCHANGED <<main, resources, queued, crashed>>

(* Seeded fault: the wait keeps a mutex that the thread does not hold. *)
CondWaitKeepsMutex(m) ==
  /\ Living /\ thread[m] = "created"
  /\ thread' = [thread EXCEPT ![m] = "waiting"]
  /\ UNCHANGED <<main, resources, mutex, queued, crashed>>

(* pthread_cond_wait gives up the mutex, whoever locked it, and waits.     *)
CondWait(m) ==
  /\ Living /\ thread[m] = "created"
  /\ thread' = [thread EXCEPT ![m] = "waiting"]
  /\ mutex' = [mutex EXCEPT ![m] = "free"]
  /\ UNCHANGED <<main, resources, queued, crashed>>

WakeUnsignalled(m) ==
  /\ MayWake
  /\ Living /\ thread[m] = "waiting"
  /\ thread' = [thread EXCEPT ![m] = "woken"]
  /\ failed' = failed \cup {<<m, "wake">>}
  /\ UNCHANGED <<main, settings, opened, rings, mutex, queued, crashed>>

(* pthread_cond_wait returns with the mutex, which is given up at once.    *)
CondWaitReturns(m) ==
  /\ Living /\ thread[m] = "woken" /\ mutex[m] = "free"
  /\ thread' = [thread EXCEPT ![m] = "awake"]
  /\ mutex' = [mutex EXCEPT ![m] = "thread"]
  /\ UNCHANGED <<main, resources, queued, crashed>>

EnterLoop(m) ==
  /\ Living /\ thread[m] = "awake"
  /\ thread' = [thread EXCEPT ![m] = "running"]
  /\ mutex' = [mutex EXCEPT ![m] = "free"]
  /\ UNCHANGED <<main, resources, queued, crashed>>

(* The loop reads its ring, whether there is one or not. *)
DequeueFromNull(m) ==
  /\ Living /\ thread[m] = "running" /\ m \notin rings
  /\ crashed' = TRUE
  /\ UNCHANGED <<main, resources, mutex, thread, queued>>

(* The worker finds nothing in the empty cache and forwards the query. *)
WorkerForwards ==
  /\ Living /\ thread["work"] = "running" /\ queued
  /\ IF "forward" \in rings THEN queued' = FALSE /\ UNCHANGED crashed
                            ELSE crashed' = TRUE /\ UNCHANGED queued
  /\ UNCHANGED <<main, resources, mutex, thread>>

-----------------------------------------------------------------------------
MainStep ==
  \/ LoadFile \/ ParseFile \/ ConfigDone
  \/ OpenSockets \/ CreateRing \/ CreateRingUnset \/ InitMutex \/ CreateThread \/ InitFails \/ InitDone
  \/ RunLock \/ RunSignal \/ RunUnlock
ThreadStep(m) == CondWait(m) \/ CondWaitReturns(m) \/ EnterLoop(m) \/ DequeueFromNull(m)

Next ==
  \/ MainStep \/ ServeQuery \/ WorkerForwards
  \/ \E m \in Modules : ThreadStep(m)
  \/ \E m \in Modules : WakeUnsignalled(m)

Spec == Init /\ [][Next]_vars

(* Main and the threads are scheduled; clients, and wakings without a      *)
(* signal, need never come.                                                *)
FairSpec == Spec /\ WF_vars(MainStep) /\ \A m \in Modules : WF_vars(ThreadStep(m))

-----------------------------------------------------------------------------
(* As long as no call fails and no wait is cut short nobody uses a ring    *)
(* before it exists, although the responder's thread is created before the *)
(* responder's ring.  The result that is never set does no such harm.      *)
CallFailed == \E f \in failed : f[2] # "ret"
NoNullRing == crashed => CallFailed

(* Main ignores what the inits return, yet a server that serves lacks no   *)
(* other thread than those of modules whose own init was cut short, by a   *)
(* call that failed or by the result that was never set: a failure costs   *)
(* no other module its thread.                                             *)
InitCutShort(m) == \E f \in failed : f[1] = m /\ f[2] # "wake"
ServesWithAllThreads ==
  step = "serve" => \A m \in Modules : thread[m] # "none" \/ InitCutShort(m)

(* With a file that can be read clients find the server on a port, its     *)
(* forwarder has an upstream server, and before the worker looks at a query*)
(* the records of the file are in the cache: port 0 and upstream 0.0.0.0,  *)
(* which is what the server runs with after any trouble, have their cause  *)
(* in the very element of the file, and a malformed value costs no other   *)
(* setting and no other record.                                            *)
RecordsOf(root) ==
  {<<n.attributes["Domain"], n.attributes["ipaddr"]>> : n \in {m \in At(root, "Root", "IPSource") : Usable(m)}}
SoundFileServed ==
  Sound(file) =>
    /\ "bundle" \in opened /\ PortSound(file.root) => bound.port # 0
    /\ "forward" \in opened /\ ForwardSound(file.root) => upstream # NoIp
    /\ thread["work"] = "running" =>
         \A r \in RecordsOf(file.root) :
           /\ r[1] \in DOMAIN records
           /\ \E q \in RecordsOf(file.root) : q[1] = r[1] /\ records[r[1]] = InetPton(q[2], NoIp)

(* No signal is lost: every thread that was created enters its loop, for   *)
(* run sends its signal only once the thread waits for it.                 *)
EveryThreadEntersLoop ==
  \A m \in Modules : (thread[m] = "created") ~> (thread[m] = "running" \/ CallFailed)

(* Main gets as far as the event loop.  Only a failure can keep it from    *)
(* there: without its sockets it exits, and where a thread could not be    *)
(* created it waits for itself to unlock; or else a NULL ring has been used.*)
ThreadMissing == \E m \in Modules : <<m, "create">> \in failed
MainSettles ==
  <>(step = "serve" \/ crashed \/ (CallFailed /\ (step = "exit" \/ ThreadMissing)))
=============================================================================
