----------------------------- MODULE LibvirtPool -----------------------------
(***************************************************************************)
(* The host registry of the libvirt server (core/connection.py,            *)
(* LibvirtConnectionPool) and the tools that change it (tools/hosts.py),   *)
(* called concurrently by the executor's worker threads.                   *)
(*                                                                         *)
(* get_connection lets go of the lock in the middle of its `with` block to *)
(* load hosts from the inventory database, and keeps it while it connects. *)
(* Every tool of the server goes through it; what a tool then does with    *)
(* the connection, without the lock, is one step here ("use").  libvirt    *)
(* and the inventory database are external.                                *)
(***************************************************************************)
EXTENDS Workers, Naturals, FiniteSets

CONSTANTS
    Hosts,        \* the host names callers use
    LocalNames,   \* "localhost" and "127.0.0.1"
    Localhost,    \* "localhost", registered at import
    Settings,     \* port, user, key and password of a HostConfig
    Default,      \* those of HostConfig(host=...)
    FromDb,       \* those the bootstrap gives a host
    Inventory,    \* hosts the table `hosts` may list, this machine excluded
    ConnIds       \* identities of connection objects, reused once unreferenced

ASSUME HostAssumption ==
    /\ LocalNames \subseteq Hosts
    /\ Localhost \in LocalNames
    /\ Inventory \subseteq Hosts \ LocalNames
    /\ {Default, FromDb} \subseteq Settings

\* A connection object that works; one that was closed, or whose hypervisor is gone,
\* and one not made yet, is None in the heap.
Connections == [host : Hosts, settings : Settings]

ASSUME NoneAssumption ==
    None \notin Threads \cup Settings \cup ConnIds \cup Connections

VARIABLES
    lock,     \* the worker inside a `with self._lock` block, or None
    configs,  \* LibvirtConnectionPool._configs
    conns,    \* LibvirtConnectionPool._connections
    heap,     \* the connection objects
    call,     \* the tool call a worker runs
    obj,      \* the connection a worker got from get_connection
    rows,     \* hosts a worker's bootstrap has still to register
    todo      \* hosts list_hosts has still to look at

registry == <<lock, configs, conns, heap>>
local == <<call, obj, rows, todo>>
vars == <<lock, configs, conns, heap, pc, call, obj, rows, todo>>

\* "use_host": every tool that only needs a connection of its host.
Tools == {"add_host", "remove_host", "list_hosts", "use_host"}
Calls == [tool : Tools, host : Hosts, settings : Settings]

Labels == {"idle", "register", "remove", "list", "next", "get", "fetch", "boot",
           "reget", "held", "use", "replyOk", "replyError"}

Tool(t) == call[t].tool
Host(t) == call[t].host

\* list_hosts goes on to its next host, whether or not this one answered.
Answer(t, label) == Goto(t, IF Tool(t) = "list_hosts" THEN "next" ELSE label)

-----------------------------------------------------------------------------
(* libvirt *)

Alive(c) == c # None /\ heap[c] # None

Close(c) == heap' = IF c = None THEN heap ELSE [heap EXCEPT ![c] = None]

\* No dictionary and no worker refers to the object any more: libvirt closes it.
Unreferenced(c) == /\ \A h \in Hosts : conns[h] # c
                   /\ \A t \in Threads : obj[t] # c

-----------------------------------------------------------------------------
\* At import: localhost is registered, then the bootstrap runs once.
Init ==
    /\ lock = None
    /\ \E listed \in SUBSET Inventory :
          configs = [h \in Hosts |-> IF h = Localhost THEN Default
                                     ELSE IF h \in listed THEN FromDb ELSE None]
    /\ conns = [h \in Hosts |-> None]
    /\ heap = [c \in ConnIds |-> None]
    /\ pc = [t \in Threads |-> "idle"]
    /\ call = [t \in Threads |->
                 [tool |-> "use_host", host |-> Localhost, settings |-> Default]]
    /\ obj = [t \in Threads |-> None]
    /\ rows = [t \in Threads |-> {}]
    /\ todo = [t \in Threads |-> {}]

Entry(tool, h) ==
    CASE tool = "add_host" -> "register"
      [] tool = "remove_host" -> IF h \in LocalNames THEN "replyError" ELSE "remove"
      [] tool = "list_hosts" -> "list"
      [] OTHER -> "get"

\* The settings of a local name are never used: it is always qemu:///system.
Submit(t) ==
    /\ pc[t] = "idle"
    /\ \E tool \in Tools, h \in Hosts, s \in Settings :
          /\ tool # "add_host" \/ h \in LocalNames => s = Default
          /\ tool = "list_hosts" => h = Localhost
          /\ call' = [call EXCEPT ![t] = [tool |-> tool, host |-> h, settings |-> s]]
          /\ Goto(t, Entry(tool, h))
    /\ UNCHANGED <<registry, obj, rows, todo>>

-----------------------------------------------------------------------------
(* add_host, remove_host, list_hosts *)

\* Faulty variant: a cached connection is forgotten without being closed.
RegisterForgets(t) ==
    /\ pc[t] = "register"
    /\ lock = None
    /\ configs' = [configs EXCEPT ![Host(t)] = call[t].settings]
    /\ conns' = [conns EXCEPT ![Host(t)] = None]
    /\ Goto(t, "get")
    /\ UNCHANGED <<lock, heap, local>>

\* register_host replaces the configuration and keeps a cached connection.
Register(t) ==
    /\ pc[t] = "register"
    /\ lock = None
    /\ configs' = [configs EXCEPT ![Host(t)] = call[t].settings]
    /\ Goto(t, "get")
    /\ UNCHANGED <<lock, conns, heap, local>>

\* Faulty variant: only the configuration is removed.
RemoveConfigOnly(t) ==
    /\ pc[t] = "remove"
    /\ lock = None
    /\ configs' = [configs EXCEPT ![Host(t)] = None]
    /\ Goto(t, "replyOk")
    /\ UNCHANGED <<lock, conns, heap, local>>

Remove(t) ==
    /\ pc[t] = "remove"
    /\ lock = None
    /\ configs' = [configs EXCEPT ![Host(t)] = None]
    /\ conns' = [conns EXCEPT ![Host(t)] = None]
    /\ Close(conns[Host(t)])
    /\ Goto(t, "replyOk")
    /\ UNCHANGED <<lock, local>>

\* The keys are copied under the lock.  Of two names of one machine, which the
\* database tells, only one is looked at.
List(t) ==
    /\ pc[t] = "list"
    /\ lock = None
    /\ \E names \in SUBSET {h \in Hosts : configs[h] # None} :
          /\ Localhost \in names
          /\ todo' = [todo EXCEPT ![t] = names]
    /\ Goto(t, "next")
    /\ UNCHANGED <<registry, call, obj, rows>>

NextHost(t) ==
    /\ pc[t] = "next"
    /\ \/ /\ todo[t] = {}
          /\ Goto(t, "replyOk")
          /\ UNCHANGED <<call, todo>>
       \/ \E h \in todo[t] :
             /\ todo' = [todo EXCEPT ![t] = @ \ {h}]
             /\ call' = [call EXCEPT ![t] = [tool |-> @.tool, host |-> h,
                                             settings |-> @.settings]]
             /\ Goto(t, "get")
    /\ UNCHANGED <<registry, obj, rows>>

-----------------------------------------------------------------------------
(* get_connection *)

\* Faulty variant: the bootstrap runs with the lock held.
GetKeepsLock(t) ==
    /\ pc[t] = "get"
    /\ lock = None
    /\ lock' = t
    /\ Goto(t, IF configs[Host(t)] = None /\ Host(t) \notin LocalNames THEN "fetch"
               ELSE "held")
    /\ configs' = IF configs[Host(t)] = None /\ Host(t) \in LocalNames
                  THEN [configs EXCEPT ![Host(t)] = Default] ELSE configs
    /\ UNCHANGED <<conns, heap, local>>

\* The lock is taken; for an unknown remote host it is released again at once.
Get(t) ==
    /\ pc[t] = "get"
    /\ lock = None
    /\ \/ /\ configs[Host(t)] # None
          /\ lock' = t
          /\ Goto(t, "held")
          /\ UNCHANGED configs
       \/ /\ configs[Host(t)] = None /\ Host(t) \in LocalNames
          /\ configs' = [configs EXCEPT ![Host(t)] = Default]
          /\ lock' = t
          /\ Goto(t, "held")
       \/ /\ configs[Host(t)] = None /\ Host(t) \notin LocalNames
          /\ Goto(t, "fetch")
          /\ UNCHANGED <<lock, configs>>
    /\ UNCHANGED <<conns, heap, local>>

\* The rows of the inventory; none when the database cannot be reached.
Fetch(t) ==
    /\ pc[t] = "fetch"
    /\ \E listed \in SUBSET Inventory : rows' = [rows EXCEPT ![t] = listed]
    /\ Goto(t, "boot")
    /\ UNCHANGED <<registry, call, obj, todo>>

\* Every row is registered, one locked step each, known host or not.
Boot(t) ==
    /\ pc[t] = "boot"
    /\ \/ /\ rows[t] = {}
          /\ Goto(t, "reget")
          /\ UNCHANGED <<configs, rows>>
       \/ \E h \in rows[t] :
             /\ lock = None
             /\ configs' = [configs EXCEPT ![h] = FromDb]
             /\ rows' = [rows EXCEPT ![t] = @ \ {h}]
             /\ UNCHANGED pc
    /\ UNCHANGED <<lock, conns, heap, call, obj, todo>>

\* The lock is taken again; a host that is still unknown raises.
Reget(t) ==
    /\ pc[t] = "reget"
    /\ lock = None
    /\ \/ /\ configs[Host(t)] = None
          /\ Answer(t, "replyError")
          /\ UNCHANGED lock
       \/ /\ configs[Host(t)] # None
          /\ lock' = t
          /\ Goto(t, "held")
    /\ UNCHANGED <<configs, conns, heap, local>>

\* The cached connection answers getVersion().
Reuse(t) ==
    /\ pc[t] = "held"
    /\ Alive(conns[Host(t)])
    /\ obj' = [obj EXCEPT ![t] = conns[Host(t)]]
    /\ lock' = None
    /\ Goto(t, "use")
    /\ UNCHANGED <<configs, conns, heap, call, rows, todo>>

\* Faulty variant: the new connection is made without a look at the cached one.
ConnectAgain(t) ==
    /\ pc[t] = "held"
    /\ \E c \in ConnIds :
          /\ Unreferenced(c)
          /\ heap' = [heap EXCEPT ![c] = [host |-> Host(t),
                                          settings |-> configs[Host(t)]]]
          /\ conns' = [conns EXCEPT ![Host(t)] = c]
          /\ obj' = [obj EXCEPT ![t] = c]
    /\ lock' = None
    /\ Goto(t, "use")
    /\ UNCHANGED <<configs, call, rows, todo>>

\* A dead connection is dropped and a new one is made with the lock held.
Connect(t) ==
    /\ pc[t] = "held"
    /\ ~Alive(conns[Host(t)])
    /\ \E c \in ConnIds :
          /\ Unreferenced(c)
          /\ heap' = [heap EXCEPT ![c] = [host |-> Host(t),
                                          settings |-> configs[Host(t)]]]
          /\ conns' = [conns EXCEPT ![Host(t)] = c]
          /\ obj' = [obj EXCEPT ![t] = c]
    /\ lock' = None
    /\ Goto(t, "use")
    /\ UNCHANGED <<configs, call, rows, todo>>

ConnectFails(t) ==
    /\ pc[t] = "held"
    /\ ~Alive(conns[Host(t)])
    /\ conns' = [conns EXCEPT ![Host(t)] = None]
    /\ lock' = None
    /\ Answer(t, "replyError")
    /\ UNCHANGED <<configs, heap, local>>

\* The tool's calls of libvirt, on an object that another worker may have closed.
Use(t) ==
    /\ pc[t] = "use"
    /\ Answer(t, IF Alive(obj[t]) THEN "replyOk" ELSE "replyError")
    /\ obj' = [obj EXCEPT ![t] = None]
    /\ UNCHANGED <<registry, call, rows, todo>>

Return(t) ==
    /\ pc[t] \in {"replyOk", "replyError"}
    /\ Goto(t, "idle")
    /\ call' = [call EXCEPT ![t] =
                  [tool |-> "use_host", host |-> Localhost, settings |-> Default]]
    /\ UNCHANGED <<registry, obj, rows, todo>>

\* The hypervisor h goes away, with every connection to it.
HostLost(h) ==
    /\ \E c \in ConnIds : Alive(c) /\ heap[c].host = h
    /\ heap' = [c \in ConnIds |->
                  IF Alive(c) /\ heap[c].host = h THEN None ELSE heap[c]]
    /\ UNCHANGED <<lock, configs, conns, pc, local>>

Step(t) ==
    \/ Register(t) \/ Remove(t) \/ List(t) \/ NextHost(t)
    \/ Get(t) \/ Fetch(t) \/ Boot(t) \/ Reget(t)
    \/ Reuse(t) \/ Connect(t) \/ ConnectFails(t)
    \/ Use(t) \/ Return(t)

Next ==
    \/ \E t \in Threads : Submit(t) \/ Step(t)
    \/ \E h \in Hosts : HostLost(h)

Spec == Init /\ [][Next]_vars

\* Each step of a call ends (psycopg2 and ssh give up in the end).
FairSpec == Spec /\ \A t \in Threads : WF_vars(Step(t))
-----------------------------------------------------------------------------
TypeOK ==
    /\ lock \in Threads \cup {None}
    /\ configs \in [Hosts -> Settings \cup {None}]
    /\ conns \in [Hosts -> ConnIds \cup {None}]
    /\ heap \in [ConnIds -> Connections \cup {None}]
    /\ pc \in [Threads -> Labels]
    /\ call \in [Threads -> Calls]
    /\ obj \in [Threads -> ConnIds \cup {None}]
    /\ rows \in [Threads -> SUBSET Inventory]
    /\ todo \in [Threads -> SUBSET Hosts]

-----------------------------------------------------------------------------
(* What the registry must keep *)

\* A live connection is the one cached for its host, so there is one per host and
\* remove_host closes it: no interleaving of get_connection, which connects under
\* the lock, with add_host and remove_host leaks a connection or makes a second.
OneConnection ==
    \A c \in ConnIds : Alive(c) => conns[heap[c].host] = c

\* No connection outlives its host's registration, although get_connection gives
\* the lock away between its two looks at the configuration: remove_host leaves
\* no cached connection behind, nor does a worker that was on its way.
CachedIsRegistered ==
    \A h \in Hosts : conns[h] # None => configs[h] # None

\* Every call ends once calls stop coming: the bootstrap registers hosts, which
\* takes the lock, in the middle of get_connection's locked block.
CallsDrain ==
    <>[][\A t \in Threads : pc[t] = "idle" => pc'[t] = "idle"]_vars
        => <>[](lock = None /\ \A t \in Threads : pc[t] = "idle")

\* Seen without threads, lock and connection objects the registry connects a host
\* with its present configuration only, and never to a host it does not know.
Registry == INSTANCE CachedConnections WITH
    Configs <- Settings,
    KeepsConnection <- TRUE,
    config <- configs,
    serving <- [h \in Hosts |-> IF Alive(conns[h]) THEN heap[conns[h]].settings
                                ELSE None]

ImplementsRegistry == Registry!Spec

-----------------------------------------------------------------------------
(* The facts that make them inductive *)

\* Only a worker inside get_connection's block holds the lock, for a host that is
\* registered; a worker that uses a connection got it for the host of its call.
StageOK ==
    \A t \in Threads :
        /\ pc[t] = "held" <=> lock = t
        /\ pc[t] = "held" => configs[Host(t)] # None
        /\ pc[t] = "use" <=> obj[t] # None
        /\ obj[t] # None /\ Alive(obj[t]) => heap[obj[t]].host = Host(t)

\* A cached connection was made for the host it is cached for.
CacheOK ==
    \A h \in Hosts : Alive(conns[h]) => heap[conns[h]].host = h

IndInv == /\ TypeOK /\ StageOK /\ CacheOK
          /\ OneConnection /\ CachedIsRegistered

=============================================================================
