------------------------------ MODULE HostProofs ------------------------------
(***************************************************************************)
(* Proofs about the machines that the servers look after: about            *)
(* LibvirtPool, the registry of hosts and the connections to them, and     *)
(* about CommandHistory, the tools that run their commands on one machine. *)
(***************************************************************************)
EXTENDS LibvirtPool, CommandHistory, TLAPS

-----------------------------------------------------------------------------
(* The registry of hosts: for any set of workers, hosts, settings and      *)
(* connection objects                                                      *)

USE HostAssumption, NoneAssumption

\* The registry and the stages of get_connection when the server starts.
LEMMA InitInv == Init => IndInv
  <1> SUFFICES ASSUME Init PROVE IndInv
    OBVIOUS
  <1>1. TypeOK
    BY DEF Init, TypeOK, Labels, Calls, Tools
  <1>2. StageOK /\ CacheOK /\ OneConnection /\ CachedIsRegistered
    BY DEF Init, StageOK, CacheOK, OneConnection, CachedIsRegistered, Alive
  <1> QED
    BY <1>1, <1>2 DEF IndInv

\* Every action keeps the types of the variables.
LEMMA TypeStep == TypeOK /\ StageOK /\ [Next]_vars => TypeOK'
  <1> SUFFICES ASSUME TypeOK, StageOK, [Next]_vars PROVE TypeOK'
    OBVIOUS
  <1> USE DEF TypeOK, Goto, Host, Tool
  <1>1. CASE UNCHANGED vars
    BY <1>1 DEF vars
  <1>2. ASSUME NEW t \in Threads, Submit(t) PROVE TypeOK'
    BY <1>2 DEF Submit, Entry, Calls, Labels, registry
  <1>3. ASSUME NEW t \in Threads, Register(t) \/ Remove(t) \/ Get(t) \/ Reget(t) PROVE TypeOK'
    BY <1>3 DEF Register, Remove, Get, Reget, Close, Answer, Labels, Calls, local, Connections
  <1>4. ASSUME NEW t \in Threads, List(t) PROVE TypeOK'
    BY <1>4 DEF List, Labels, registry
  <1>8. ASSUME NEW t \in Threads, NextHost(t) PROVE TypeOK'
    <2>1. call' \in [Threads -> Calls]
      BY <1>8 DEF NextHost, Calls
    <2> QED
      BY <1>8, <2>1 DEF NextHost, Labels, registry
  <1>9. ASSUME NEW t \in Threads, Fetch(t) PROVE TypeOK'
    BY <1>9 DEF Fetch, Labels, registry
  <1>10. ASSUME NEW t \in Threads, Boot(t) PROVE TypeOK'
    <2>1. rows[t] \subseteq Inventory
      OBVIOUS
    <2>2. configs' \in [Hosts -> Settings \cup {None}] /\ rows' \in [Threads -> SUBSET Inventory]
      BY <1>10, <2>1 DEF Boot
    <2>3. pc' \in [Threads -> Labels]
      BY <1>10 DEF Boot, Labels
    <2> QED
      BY <1>10, <2>2, <2>3 DEF Boot
  <1>5. ASSUME NEW t \in Threads, Reuse(t) \/ ConnectFails(t) \/ Use(t) PROVE TypeOK'
    <2>1. CASE Reuse(t)
      BY <2>1 DEF Reuse, Alive, Labels, Calls
    <2>2. CASE ConnectFails(t)
      BY <2>2 DEF ConnectFails, Answer, Labels, local
    <2>3. CASE Use(t)
      BY <2>3 DEF Use, Answer, Labels, registry
    <2> QED
      BY <1>5, <2>1, <2>2, <2>3
  <1>11. ASSUME NEW t \in Threads, Return(t) PROVE TypeOK'
    BY <1>11 DEF Return, Labels, Calls, Tools, registry
  <1>6. ASSUME NEW t \in Threads, Connect(t) PROVE TypeOK'
    BY <1>6 DEF Connect, StageOK, Labels, Connections, Calls
  <1>7. ASSUME NEW h \in Hosts, HostLost(h) PROVE TypeOK'
    BY <1>7 DEF HostLost, local
  <1> QED
    BY <1>1, <1>2, <1>3, <1>4, <1>5, <1>6, <1>7, <1>8, <1>9, <1>10, <1>11 DEF Next, Step

\* Every stage of a call keeps what it rests on, whatever the other workers do:
\* a host can lose its registration only while nobody holds the lock.
LEMMA StageStep == IndInv /\ [Next]_vars => StageOK'
  <1> SUFFICES ASSUME IndInv, [Next]_vars PROVE StageOK'
    OBVIOUS
  <1> USE DEF IndInv, TypeOK, StageOK, Goto, Host, Tool, Alive
  <1>1. CASE UNCHANGED vars
    BY <1>1 DEF vars
  <1>2. ASSUME NEW t \in Threads, Submit(t) PROVE StageOK'
    BY <1>2 DEF Submit, Entry, registry
  <1>3. ASSUME NEW t \in Threads, Register(t) \/ Get(t) \/ Reget(t) PROVE StageOK'
    BY <1>3 DEF Register, Get, Reget, Answer, local, Calls
  <1>4. ASSUME NEW t \in Threads, Remove(t) PROVE StageOK'
    BY <1>4 DEF Remove, Close, local, Calls
  <1>5. ASSUME NEW t \in Threads, List(t) \/ NextHost(t) \/ Fetch(t) PROVE StageOK'
    BY <1>5 DEF List, NextHost, Fetch, registry, Calls
  <1>6. ASSUME NEW t \in Threads, Boot(t) PROVE StageOK'
    BY <1>6 DEF Boot, Calls
  <1>7. ASSUME NEW t \in Threads, Reuse(t) PROVE StageOK'
    BY <1>7 DEF Reuse, CacheOK, Calls
  <1>8. ASSUME NEW t \in Threads, ConnectFails(t) \/ Use(t) \/ Return(t) PROVE StageOK'
    BY <1>8 DEF ConnectFails, Use, Return, Answer, registry, local, Calls
  <1>9. ASSUME NEW t \in Threads, Connect(t) PROVE StageOK'
    BY <1>9 DEF Connect, Unreferenced, Calls
  <1>10. ASSUME NEW h \in Hosts, HostLost(h) PROVE StageOK'
    BY <1>10 DEF HostLost, local
  <1> QED
    BY <1>1, <1>2, <1>3, <1>4, <1>5, <1>6, <1>7, <1>8, <1>9, <1>10 DEF Next, Step

CacheInv == CacheOK /\ OneConnection /\ CachedIsRegistered

\* What get_connection and remove_host do keeps one connection per registered
\* host; the other steps do not touch the cache.
LEMMA CacheStep == IndInv /\ [Next]_vars => CacheInv'
  <1> SUFFICES ASSUME IndInv, [Next]_vars PROVE CacheInv'
    OBVIOUS
  <1> USE DEF IndInv, TypeOK, CacheInv, CacheOK, OneConnection, CachedIsRegistered, Alive,
              Host, Tool
  <1>1. CASE UNCHANGED <<configs, conns, heap>>
    BY <1>1
  <1>2. ASSUME NEW t \in Threads, Register(t) \/ Get(t) \/ Boot(t) PROVE CacheInv'
    <2>1. UNCHANGED <<conns, heap>> /\ \A h \in Hosts : configs[h] # None => configs'[h] # None
      BY <1>2 DEF Register, Get, Boot, Calls
    <2> QED
      BY <2>1
  <1>3. ASSUME NEW t \in Threads, Remove(t) PROVE CacheInv'
    BY <1>3 DEF Remove, Close, local, Calls
  <1>4. ASSUME NEW t \in Threads, ConnectFails(t) PROVE CacheInv'
    BY <1>4 DEF ConnectFails, Calls
  <1>5. ASSUME NEW t \in Threads, Connect(t) PROVE CacheInv'
    BY <1>5 DEF Connect, Unreferenced, StageOK, Calls
  <1>6. ASSUME NEW h \in Hosts, HostLost(h) PROVE CacheInv'
    BY <1>6 DEF HostLost, Connections
  <1>7. ASSUME NEW t \in Threads,
               Submit(t) \/ List(t) \/ NextHost(t) \/ Fetch(t) \/ Reget(t) \/ Reuse(t)
                         \/ Use(t) \/ Return(t)
        PROVE  UNCHANGED <<configs, conns, heap>>
    BY <1>7 DEF Submit, List, NextHost, Fetch, Reget, Reuse, Use, Return, registry
  <1> QED
    BY <1>1, <1>2, <1>3, <1>4, <1>5, <1>6, <1>7 DEF Next, Step, vars

\* The invariant holds in every reachable state of every instance.
THEOREM Invariance == Spec => []IndInv
  <1>1. IndInv /\ [Next]_vars => IndInv'
    BY TypeStep, StageStep, CacheStep DEF IndInv, CacheInv
  <1> QED
    BY InitInv, <1>1, PTL DEF Spec

\* A live connection is cached for its host, and for a registered host only:
\* remove_host leaves no connection behind it, whatever else is under way.
THEOREM ConnectionsSafe == Spec => [](OneConnection /\ CachedIsRegistered)
  <1>1. IndInv => OneConnection /\ CachedIsRegistered
    BY DEF IndInv
  <1> QED
    BY <1>1, Invariance, PTL

-----------------------------------------------------------------------------
\* The registry implements the abstract one: each step, the lock and the
\* connection objects hidden, registers, connects, loses or removes one host.
THEOREM RegistryRefinement == Spec => ImplementsRegistry
  <1> DEFINE serving == [h \in Hosts |-> IF Alive(conns[h]) THEN heap[conns[h]].settings
                                          ELSE None]
  <1>1. Init => Registry!Init
    BY DEF Init, Registry!Init, Alive
  <1>2. IndInv /\ [Next]_vars => [Registry!Next]_<<configs, serving>>
    <2> SUFFICES ASSUME IndInv, [Next]_vars PROVE [Registry!Next]_<<configs, serving>>
      OBVIOUS
    <2> USE DEF IndInv, TypeOK, Alive, Host, Tool
    <2>1. CASE UNCHANGED <<configs, conns, heap>>
      BY <2>1
    <2>2. ASSUME NEW t \in Threads, Register(t) \/ Get(t) \/ Boot(t)
          PROVE  [Registry!Next]_<<configs, serving>>
      <3>1. UNCHANGED serving
        BY <2>2 DEF Register, Get, Boot
      <3>2. \/ UNCHANGED configs
            \/ \E h \in Hosts, s \in Settings : configs' = [configs EXCEPT ![h] = s]
        BY <2>2 DEF Register, Get, Boot, Calls
      <3> QED
        BY <3>1, <3>2 DEF Registry!Next, Registry!Register
    <2>3. ASSUME NEW t \in Threads, Remove(t) PROVE Registry!Next
      <3>1. PICK h \in Hosts : h = Host(t)
        BY DEF Calls
      <3>2. /\ configs' = [configs EXCEPT ![h] = None]
            /\ conns' = [conns EXCEPT ![h] = None]
            /\ heap' = IF conns[h] = None THEN heap ELSE [heap EXCEPT ![conns[h]] = None]
        BY <2>3, <3>1 DEF Remove, Close
      <3>3. serving' = [serving EXCEPT ![h] = None]
        BY <3>2 DEF CacheOK
      <3> QED
        BY <3>2, <3>3 DEF Registry!Next, Registry!Remove
    <2>4. ASSUME NEW t \in Threads, ConnectFails(t) PROVE [Registry!Next]_<<configs, serving>>
      <3>1. UNCHANGED <<configs, serving>>
        BY <2>4 DEF ConnectFails, Calls
      <3> QED
        BY <3>1
    <2>5. ASSUME NEW t \in Threads, Connect(t) PROVE Registry!Next
      <3>1. PICK h \in Hosts : h = Host(t)
        BY DEF Calls
      <3>2. PICK c \in ConnIds :
               /\ \A x \in Hosts : conns[x] # c
               /\ heap' = [heap EXCEPT ![c] = [host |-> h, settings |-> configs[h]]]
               /\ conns' = [conns EXCEPT ![h] = c]
        BY <2>5, <3>1 DEF Connect, Unreferenced
      <3>3. UNCHANGED configs /\ configs[h] # None /\ ~Alive(conns[h])
        BY <2>5, <3>1 DEF Connect, StageOK
      <3>4. [host |-> h, settings |-> configs[h]] \in Connections
        BY <3>3 DEF Connections
      <3>5. heap'[c] # None /\ heap'[c].settings = configs[h]
        BY <3>2, <3>4
      <3>6. \A x \in Hosts \ {h} : conns'[x] = conns[x] /\ (conns[x] # None => heap'[conns[x]] = heap[conns[x]])
        BY <3>2
      <3>7. serving' = [serving EXCEPT ![h] = configs[h]]
        BY <3>2, <3>3, <3>5, <3>6
      <3> QED
        BY <3>3, <3>7 DEF Registry!Next, Registry!Connect
    <2>6. ASSUME NEW h \in Hosts, HostLost(h) PROVE Registry!Next
      <3>1. /\ UNCHANGED <<configs, conns>>
            /\ heap' = [c \in ConnIds |-> IF heap[c] # None /\ heap[c].host = h THEN None
                                         ELSE heap[c]]
        BY <2>6 DEF HostLost
      <3>2. serving' = [serving EXCEPT ![h] = None]
        BY <3>1 DEF CacheOK
      <3> QED
        BY <3>1, <3>2 DEF Registry!Next, Registry!Lose
    <2>7. ASSUME NEW t \in Threads,
                 Submit(t) \/ List(t) \/ NextHost(t) \/ Fetch(t) \/ Reget(t) \/ Reuse(t)
                           \/ Use(t) \/ Return(t)
          PROVE  UNCHANGED <<configs, conns, heap>>
      BY <2>7 DEF Submit, List, NextHost, Fetch, Reget, Reuse, Use, Return, registry
    <2> QED
      BY <2>1, <2>2, <2>3, <2>4, <2>5, <2>6, <2>7 DEF Next, Step, vars
  <1> QED
    BY <1>1, <1>2, Invariance, PTL DEF Spec, ImplementsRegistry, Registry!Spec

-----------------------------------------------------------------------------
(* The tables of commands: every script of every tool is ScriptOK *)

\* What has to be looked at in a script of one, two and three statements.
Untold(a, r) == Changes(r) /\ r.fail = "try" /\ <<a, r.op, r.on>> \notin Unchecked
Redone(r, later) == Changes(later) /\ later.on = r.on
Follows(r, later) ==
    /\ Clears(later) /\ Owned(r.on) => Parent[r.on] # later.on
    /\ later.fail = "must" => Affects(r) \subseteq Prepared

Single(a, r) ==
    /\ r.fail # "half"
    /\ ~Untold(a, r)
    /\ r.fail = "judge" => Affects(r) \subseteq Prepared
    /\ a = <<"libvirt", "host_network">> => ~Clears(r)
Pair(a, r1, r2) ==
    /\ r1.fail # "half"
    /\ r2.fail = "half" => r1 = Must("new", "user")
    /\ Untold(a, r1) => Redone(r1, r2)
    /\ ~Untold(a, r2)
    /\ Follows(r1, r2)
    /\ "judge" \in {r1.fail, r2.fail} => Affects(r1) \cup Affects(r2) \subseteq Prepared
    /\ a = <<"libvirt", "host_network">>
          => ~Clears(r2) /\ (Clears(r1) => Restores(r2, r1.on))
Triple(a, r1, r2, r3) ==
    /\ "half" \notin {r1.fail, r2.fail, r3.fail}
    /\ Untold(a, r1) => Redone(r1, r2) \/ Redone(r1, r3)
    /\ Untold(a, r2) => Redone(r2, r3)
    /\ ~Untold(a, r3)
    /\ Follows(r1, r2) /\ Follows(r1, r3) /\ Follows(r2, r3)
    /\ "judge" \in {r1.fail, r2.fail, r3.fail}
          => Affects(r1) \cup Affects(r2) \cup Affects(r3) \subseteq Prepared
    /\ a = <<"libvirt", "host_network">>
          => /\ ~Clears(r3)
             /\ Clears(r2) => Restores(r3, r2.on)
             /\ Clears(r1) => Restores(r2, r1.on) \/ Restores(r3, r1.on)

\* A script of one statement is written as the proofs need it when there is nothing to find
\* in that statement.
LEMMA SingleOK == ASSUME NEW a, NEW r, Single(a, r) PROVE ScriptOK(a, <<r>>)
  <1> DEFINE s == <<r>>
  <1>1. Len(s) = 1 /\ s[1] = r /\ DOMAIN s = 1..Len(s)
    OBVIOUS
  <1> HIDE DEF s
  <1>2. \A i \in 1..Len(s) : i = 1
    BY <1>1
  <1>3. \A i \in 1..Len(s) : \A j \in i + 1..Len(s) : FALSE
    BY <1>1
  <1>4. \A i \in Promises(a, s) : s[i].fail # "try"
    BY <1>1, <1>2 DEF Promises, Single, Untold
  <1>5. ScriptOK(a, s)
    BY <1>1, <1>2, <1>3, <1>4 DEF ScriptOK, Single
  <1> QED
    BY <1>5 DEF s

\* A script of two statements: what the first leaves undone or clears, the second sees to.
LEMMA PairOK == ASSUME NEW a, NEW r1, NEW r2, Pair(a, r1, r2) PROVE ScriptOK(a, <<r1, r2>>)
  <1> DEFINE s == <<r1, r2>>
  <1>1. Len(s) = 2 /\ s[1] = r1 /\ s[2] = r2 /\ DOMAIN s = 1..Len(s)
    OBVIOUS
  <1> HIDE DEF s
  <1>2. \A i \in 1..Len(s) : i \in {1, 2}
    BY <1>1
  <1>3. \A i \in 1..Len(s) : \A j \in i + 1..Len(s) : i = 1 /\ j = 2
    BY <1>1
  <1>4. 1 \in 1..Len(s) /\ 2 \in 1..Len(s) /\ 2 \in 1 + 1..Len(s)
    BY <1>1
  <1>5. \A i \in Promises(a, s) : s[i].fail # "try"
    BY <1>1, <1>2, <1>4 DEF Promises, Pair, Untold, Redone
  <1>6. \A i \in 1..Len(s) : s[i].fail = "half" => i = 2 /\ s[1] = Must("new", "user")
    BY <1>1, <1>2 DEF Pair
  <1>7. (\E i \in 1..Len(s) : s[i].fail = "judge") => \A i \in 1..Len(s) : Affects(s[i]) \subseteq Prepared
    BY <1>1, <1>2 DEF Pair
  <1>8. \A i \in 1..Len(s) : \A j \in i + 1..Len(s) : Follows(s[i], s[j])
    BY <1>1, <1>3 DEF Pair
  <1>9. a = <<"libvirt", "host_network">>
          => \A i \in 1..Len(s) : Clears(s[i]) => \E j \in i + 1..Len(s) : Restores(s[j], s[i].on)
    BY <1>1, <1>2, <1>4 DEF Pair
  <1>10. ScriptOK(a, s)
    BY <1>1, <1>5, <1>6, <1>7, <1>8, <1>9 DEF ScriptOK, Follows
  <1> QED
    BY <1>10 DEF s

\* A script of three statements.
LEMMA TripleOK ==
    ASSUME NEW a, NEW r1, NEW r2, NEW r3, Triple(a, r1, r2, r3)
    PROVE  ScriptOK(a, <<r1, r2, r3>>)
  <1> DEFINE s == <<r1, r2, r3>>
  <1>1. Len(s) = 3 /\ s[1] = r1 /\ s[2] = r2 /\ s[3] = r3 /\ DOMAIN s = 1..Len(s)
    OBVIOUS
  <1> HIDE DEF s
  <1>2. \A i \in 1..Len(s) : i \in {1, 2, 3}
    BY <1>1
  <1>3. \A i \in 1..Len(s) : \A j \in i + 1..Len(s) : <<i, j>> \in {<<1, 2>>, <<1, 3>>, <<2, 3>>}
    BY <1>1
  <1>4. /\ 1 \in 1..Len(s) /\ 2 \in 1..Len(s) /\ 3 \in 1..Len(s)
        /\ 2 \in 1 + 1..Len(s) /\ 3 \in 1 + 1..Len(s) /\ 3 \in 2 + 1..Len(s)
    BY <1>1
  <1>5. \A i \in Promises(a, s) : s[i].fail # "try"
    BY <1>1, <1>2, <1>4 DEF Promises, Triple, Untold, Redone
  <1>6. \A i \in 1..Len(s) : s[i].fail = "half" => i = 2 /\ s[1] = Must("new", "user")
    BY <1>1, <1>2 DEF Triple
  <1>7. (\E i \in 1..Len(s) : s[i].fail = "judge") => \A i \in 1..Len(s) : Affects(s[i]) \subseteq Prepared
    BY <1>1, <1>2 DEF Triple
  <1>8. \A i \in 1..Len(s) : \A j \in i + 1..Len(s) : Follows(s[i], s[j])
    BY <1>1, <1>3 DEF Triple
  <1>9. a = <<"libvirt", "host_network">>
          => \A i \in 1..Len(s) : Clears(s[i]) => \E j \in i + 1..Len(s) : Restores(s[j], s[i].on)
    BY <1>1, <1>2, <1>4 DEF Triple
  <1>10. ScriptOK(a, s)
    BY <1>1, <1>5, <1>6, <1>7, <1>8, <1>9 DEF ScriptOK, Follows
  <1> QED
    BY <1>10 DEF s

Fits(a, s) ==
    \/ s = <<s[1]>> /\ Single(a, s[1])
    \/ s = <<s[1], s[2]>> /\ Pair(a, s[1], s[2])
    \/ s = <<s[1], s[2], s[3]>> /\ Triple(a, s[1], s[2], s[3])

Scripted(table, a) == \A tool \in DOMAIN table : \A s \in table[tool] : Fits(a, s)

\* The scripts of the libvirt server.
LEMMA LibvirtScripts ==
    \A file \in DOMAIN LibvirtTools : Scripted(LibvirtTools[file], <<"libvirt", file>>)
  <1> USE DEF Statement, Must, Judge, Half, Try, Fits, Scripted, Single, Pair, Triple, Untold, Redone, Follows, Owned, Parent,
          Changes, Clears, Affects, Restores, Prepared, Unchecked
  <1>1. Scripted(HostSystem, <<"libvirt", "host_system">>)
    BY DEF HostSystem
  <1>2. Scripted(HostNetwork, <<"libvirt", "host_network">>)
    BY DEF HostNetwork
  <1>3. Scripted(HostServices, <<"libvirt", "host_services">>)
    BY DEF HostServices
  <1>4. Scripted(HostPackages, <<"libvirt", "host_packages">>)
    BY DEF HostPackages
  <1>5. Scripted(Volumes, <<"libvirt", "volumes">>)
    BY DEF Volumes
  <1>6. Scripted(VirtualNetworks, <<"libvirt", "networks">>)
    BY DEF VirtualNetworks
  <1>7. Scripted(Consoles, <<"libvirt", "consoles">>)
    BY DEF Consoles
  <1> HIDE DEF Scripted
  <1> QED
    BY <1>1, <1>2, <1>3, <1>4, <1>5, <1>6, <1>7 DEF LibvirtTools

\* The scripts of the Active Directory server.
LEMMA DomainScripts ==
    \A file \in DOMAIN DomainTools : Scripted(DomainTools[file], <<"active_directory", file>>)
  <1> USE DEF Scripted, Fits, Single, Pair, Triple, Untold, Redone, Follows, Statement, Must,
          Judge, Half, Try, Owned, Parent, Changes, Clears, Affects, Restores, Prepared, Unchecked
  <1>1. Scripted(Dns, <<"active_directory", "dns">>)
    BY DEF Dns
  <1>2. Scripted(Dhcp, <<"active_directory", "dhcp">>)
    BY DEF Dhcp
  <1>3. Scripted(Gpo, <<"active_directory", "gpo">>)
    BY DEF Gpo
  <1> HIDE DEF Scripted
  <1> QED
    BY <1>1, <1>2, <1>3 DEF DomainTools

\* The scripts of the WinRM server.
LEMMA WindowsScripts ==
    \A file \in DOMAIN WindowsTools : Scripted(WindowsTools[file], <<"winrm", file>>)
  <1> USE DEF Scripted, Fits, Single, Pair, Triple, Untold, Redone, Follows, Statement, Must,
          Judge, Half, Try, Owned, Parent, Changes, Clears, Affects, Restores, Prepared, Unchecked
  <1>1. Scripted(WinUsers, <<"winrm", "users">>)
    BY DEF WinUsers
  <1>2. Scripted(WinServices, <<"winrm", "services">>)
    BY DEF WinServices
  <1>3. Scripted(WinProcesses, <<"winrm", "processes">>)
    BY DEF WinProcesses
  <1>4. Scripted(WinNetwork, <<"winrm", "network">>)
    BY DEF WinNetwork
  <1>5. Scripted(WinDisk, <<"winrm", "disk">>)
    BY DEF WinDisk
  <1>6. Scripted(WinEvents, <<"winrm", "events">>)
    BY DEF WinEvents
  <1>7. Scripted(WinSystem, <<"winrm", "system">>)
    BY DEF WinSystem
  <1>8. Scripted(WinExec, <<"winrm", "exec">>)
    BY DEF WinExec
  <1> HIDE DEF Scripted
  <1> QED
    BY <1>1, <1>2, <1>3, <1>4, <1>5, <1>6, <1>7, <1>8 DEF WindowsTools

\* The scripts of the bash server.
LEMMA ShellScripts ==
    \A file \in DOMAIN ShellTools : Scripted(ShellTools[file], <<"bash", file>>)
  <1> USE DEF Scripted, Fits, Single, Pair, Triple, Untold, Redone, Follows, Statement, Must,
          Judge, Half, Try, Owned, Parent, Changes, Clears, Affects, Restores, Prepared, Unchecked
  <1>1. Scripted(ShUsers, <<"bash", "users">>)
    BY DEF ShUsers
  <1>2. Scripted(ShPackages, <<"bash", "packages">>)
    BY DEF ShPackages
  <1>3. Scripted(ShServices, <<"bash", "services">>)
    BY DEF ShServices
  <1>4. Scripted(ShProcesses, <<"bash", "processes">>)
    BY DEF ShProcesses
  <1>5. Scripted(ShSystem, <<"bash", "system">>)
    BY DEF ShSystem
  <1>6. Scripted(ShDisk, <<"bash", "disk">>)
    BY DEF ShDisk
  <1>7. Scripted(ShNetwork, <<"bash", "network">>)
    BY DEF ShNetwork
  <1>8. Scripted(ShExec, <<"bash", "exec">>)
    BY DEF ShExec
  <1> HIDE DEF Scripted
  <1> QED
    BY <1>1, <1>2, <1>3, <1>4, <1>5, <1>6, <1>7, <1>8 DEF ShellTools

\* A script that fits one of the three forms is written as the proofs need it.
LEMMA FitsOK == ASSUME NEW a, NEW s, Fits(a, s) PROVE ScriptOK(a, s)
  <1>1. CASE s = <<s[1]>> /\ Single(a, s[1])
    BY <1>1, SingleOK
  <1>2. CASE s = <<s[1], s[2]>> /\ Pair(a, s[1], s[2])
    BY <1>2, PairOK
  <1>3. CASE s = <<s[1], s[2], s[3]>> /\ Triple(a, s[1], s[2], s[3])
    BY <1>3, TripleOK
  <1> QED
    BY <1>1, <1>2, <1>3 DEF Fits

\* So is every script that a worker may run.
LEMMA ScriptsOK == \A a \in Areas : \A s \in Scripts(a) : ScriptOK(a, s)
  <1> SUFFICES ASSUME NEW a \in Areas, NEW s \in Scripts(a) PROVE Fits(a, s)
    BY FitsOK
  <1>1. PICK server \in DOMAIN Servers : \E file \in DOMAIN Servers[server] : a = <<server, file>>
    BY CommandAssumption
  <1>2. PICK file \in DOMAIN Servers[server] : a = <<server, file>>
    BY <1>1
  <1>3. PICK tool \in DOMAIN Servers[server][file] : s \in Servers[server][file][tool]
    BY <1>2 DEF Scripts, ToolTable
  <1>4. Scripted(Servers[server][file], <<server, file>>)
    BY LibvirtScripts, DomainScripts, WindowsScripts, ShellScripts DEF Servers
  <1> QED
    BY <1>2, <1>3, <1>4 DEF Scripted

-----------------------------------------------------------------------------
(* The machine and the calls: for any set of workers, values and tools *)

USE CommandAssumption

\* A statement is about a facet of the machine, and so is what the facet belongs to.
LEMMA Facets ==
    ASSUME NEW a
    PROVE  /\ \A s \in Statements(a) : s.on \in FacetsOf(a)
           /\ \A f \in FacetsOf(a) : Owned(f) => Parent[f] \in FacetsOf(a) /\ ~Owned(Parent[f])
  <1>1. \A f \in DOMAIN Parent : Parent[f] \notin DOMAIN Parent
    BY DEF Parent
  <1> QED
    BY <1>1 DEF FacetsOf, Owned

\* What a statement that the machine does not refuse has changed.
LEMMA Effect ==
    ASSUME MachineOK, NEW s \in Statements(area), NEW v \in Values \cup {None},
           ~Refused(s, v), target' = After(s, v)
    PROVE  /\ target' \in [FacetsOf(area) -> SUBSET (Values \cup {None})]
           /\ \A f \in FacetsOf(area) :
                 \/ target'[f] = target[f]
                 \/ f = s.on /\ Changes(s)
                 \/ Clears(s) /\ Owned(f) /\ Parent[f] = s.on /\ target'[f] = {}
           /\ Clears(s) => target'[s.on] = {}
           /\ Changes(s) /\ ~Clears(s) => v \in target'[s.on]
           /\ \A f \in FacetsOf(area) : Owned(f) /\ target'[Parent[f]] = {} => target'[f] = {}
  <1> DEFINE self == CASE s.op = "put" -> {v}
                       [] s.op \in {"new", "add"} -> target[s.on] \cup {v}
                       [] s.op \in {"drop", "wipe"} -> {}
                       [] OTHER -> target[s.on]
  <1>1. /\ s.on \in FacetsOf(area)
        /\ \A f \in FacetsOf(area) : Owned(f) => Parent[f] \in FacetsOf(area) /\ ~Owned(Parent[f])
    BY Facets
  <1>2. target \in [FacetsOf(area) -> SUBSET (Values \cup {None})]
    BY DEF MachineOK
  <1>3. self \in SUBSET (Values \cup {None})
    BY <1>1, <1>2
  <1>4. /\ Clears(s) => self = {}
        /\ Changes(s) /\ ~Clears(s) => v \in self
        /\ ~Changes(s) => self = target[s.on]
    BY DEF Clears, Changes
  <1>5. target' = [f \in DOMAIN target |->
                      CASE f = s.on -> self
                        [] Owned(f) /\ Parent[f] = s.on /\ self = {} -> {}
                        [] OTHER -> target[f]]
    BY DEF After
  <1> HIDE DEF self
  <1>6. DOMAIN target = FacetsOf(area)
    BY <1>2
  <1>7. target'[s.on] = self
    BY <1>1, <1>5, <1>6
  <1>8. \A f \in FacetsOf(area) : f # s.on =>
           target'[f] = IF Owned(f) /\ Parent[f] = s.on /\ self = {} THEN {} ELSE target[f]
    BY <1>5, <1>6
  <1>9. target' \in [FacetsOf(area) -> SUBSET (Values \cup {None})]
    <2>1. \A f \in FacetsOf(area) : target'[f] \in SUBSET (Values \cup {None})
      BY <1>2, <1>3, <1>7, <1>8
    <2>2. target' = [f \in FacetsOf(area) |-> target'[f]]
      BY <1>5, <1>6
    <2> QED
      BY <2>1, <2>2
  <1>10. \A f \in FacetsOf(area) : Owned(f) /\ target[Parent[f]] = {} => target[f] = {}
    BY DEF MachineOK
  <1>11. ASSUME NEW f \in FacetsOf(area)
         PROVE  \/ target'[f] = target[f]
                \/ f = s.on /\ Changes(s)
                \/ Clears(s) /\ Owned(f) /\ Parent[f] = s.on /\ target'[f] = {}
    BY <1>1, <1>4, <1>7, <1>8, <1>10
  <1>12. ASSUME NEW f \in FacetsOf(area), Owned(f), target'[Parent[f]] = {}
         PROVE  target'[f] = {}
    <2>1. Parent[f] \in FacetsOf(area) /\ ~Owned(Parent[f])
      BY <1>1, <1>12
    <2>2. CASE Parent[f] = s.on
      <3>1. f # s.on /\ self = {}
        BY <1>7, <1>12, <2>1, <2>2
      <3> QED
        BY <1>8, <1>12, <2>2, <3>1
    <2>3. CASE Parent[f] # s.on
      <3>1. target[Parent[f]] = {}
        BY <1>8, <1>12, <2>1, <2>3
      <3>2. CASE f # s.on
        BY <1>8, <1>10, <1>12, <2>3, <3>1, <3>2
      <3>3. CASE f = s.on
        <4>1. s.op = "look" /\ target[f] = {}
          BY <1>10, <1>12, <3>1, <3>3 DEF Refused
        <4> QED
          BY <1>4, <1>7, <3>3, <4>1 DEF Changes
      <3> QED
        BY <3>2, <3>3
    <2> QED
      BY <2>2, <2>3
  <1> QED
    BY <1>4, <1>7, <1>9, <1>11, <1>12

\* The call that a worker runs, and the statement it is at.
LEMMA Running ==
    ASSUME MachineOK, CallsOK, NEW t \in Threads, pc[t] = "run"
    PROVE  /\ script[t] \in Scripts(area) /\ ScriptOK(area, script[t])
           /\ DOMAIN script[t] = 1..Len(script[t]) /\ Len(script[t]) \in Nat
           /\ at[t] \in 1..Len(script[t])
           /\ Current(t) \in Statements(area) /\ Current(t).on \in FacetsOf(area)
           /\ value[t] \in Values \cup {None}
  <1>1. script[t] \in Scripts(area) /\ at[t] \in 1..Len(script[t]) /\ value[t] \in Values \cup {None}
    BY DEF CallsOK
  <1>2. ScriptOK(area, script[t])
    BY <1>1, ScriptsOK DEF MachineOK
  <1>3. DOMAIN script[t] = 1..Len(script[t]) /\ Len(script[t]) \in Nat
    BY <1>2 DEF ScriptOK
  <1>4. Current(t) \in Statements(area)
    BY <1>1, <1>3 DEF Current, Statements
  <1> QED
    BY <1>1, <1>2, <1>3, <1>4, Facets

\* What a step changes of the calls of the other workers.
LEMMA OthersGoOn ==
    ASSUME CallsOK, NEW t \in Threads, NEW w \in Threads, w # t,
           HLost(t) \/ HSteady(t), Remember(t)
    PROVE  /\ pc'[w] = pc[w] /\ script'[w] = script[w] /\ at'[w] = at[w] /\ value'[w] = value[w]
           /\ good'[w] = good[w]
           /\ pc[w] # "idle" => touched'[w] = touched[w]
           /\ w \in alone' \ lost' /\ pc[w] # "idle" => w \in alone \ lost /\ target' = target
  <1> USE DEF CallsOK, Goto
  <1> DEFINE Same == /\ pc'[w] = pc[w] /\ script'[w] = script[w] /\ at'[w] = at[w]
                     /\ value'[w] = value[w] /\ good'[w] = good[w]
  <1>1. Same
    <2>1. CASE Ask(t) \/ Reply(t)
      BY <2>1 DEF Ask, Reply
    <2>2. CASE Works(t)
      BY <2>2 DEF Works, Onward
    <2>3. ASSUME NEW answer, Ends(t, answer) PROVE Same
      BY <2>3 DEF Ends
    <2>4. ASSUME Deals(t) PROVE Same
      BY <2>3, <2>4 DEF Deals, Onward
    <2> HIDE DEF Same
    <2>5. CASE Fails(t) \/ Lost(t)
      BY <2>3, <2>4, <2>5 DEF Fails, Lost
    <2> QED
      BY <2>1, <2>2, <2>5 DEF HLost, HSteady
  <1>2. w \notin lost' => w \notin lost \/ pc[w] = "idle"
    BY <1>1 DEF HLost, HSteady
  <1> QED
    BY <1>1, <1>2 DEF Remember

\* On to the next statement: the call is past the one it was at.
LEMMA GoesOn ==
    ASSUME MachineOK, CallsOK, NEW t \in Threads, pc[t] = "run", NEW b \in BOOLEAN, Onward(t, b)
    PROVE  /\ UNCHANGED <<area, script, value>> /\ good' = [good EXCEPT ![t] = b]
           /\ Past(t)' = 1..at[t]
           /\ \/ /\ pc' = pc /\ at[t] < Len(script[t]) /\ at' = [at EXCEPT ![t] = at[t] + 1]
              \/ /\ pc' = [pc EXCEPT ![t] = IF b THEN "ok" ELSE "error"]
                 /\ at[t] = Len(script[t]) /\ at' = at
  <1>1. /\ at[t] \in 1..Len(script[t]) /\ Len(script[t]) \in Nat
    BY Running
  <1>2. at[t] < Len(script[t]) \/ at[t] = Len(script[t])
    BY <1>1
  <1>3. CASE at[t] < Len(script[t])
    BY <1>1, <1>3 DEF Onward, Past, Goto, CallsOK
  <1>4. CASE at[t] = Len(script[t])
    <2>1. /\ UNCHANGED <<area, script, value, at>> /\ good' = [good EXCEPT ![t] = b]
          /\ pc' = [pc EXCEPT ![t] = IF b THEN "ok" ELSE "error"]
      BY <1>1, <1>4 DEF Onward, Goto
    <2>2. pc'[t] # "run"
      BY <2>1 DEF CallsOK
    <2> QED
      BY <1>4, <2>1, <2>2 DEF Past
  <1> QED
    BY <1>2, <1>3, <1>4

\* What is there, and the command that goes on alone, when a worker acts.
LEMMA MachineStep ==
    ASSUME MachineOK, CallsOK, NEW t \in Threads, HLost(t) \/ HSteady(t)
    PROVE  MachineOK' /\ UNCHANGED area
  <1>1. CASE Ask(t) \/ Reply(t)
    BY <1>1 DEF MachineOK, Ask, Reply
  <1>2. ASSUME Deals(t) PROVE UNCHANGED area
    BY <1>2 DEF Deals, Onward, Ends
  <1>3. CASE Fails(t)
    BY <1>2, <1>3 DEF Fails, MachineOK
  <1>4. CASE Works(t)
    <2>1. /\ pc[t] = "run" /\ target' = After(Current(t), value[t]) /\ UNCHANGED <<late, area>>
          /\ ~Refused(Current(t), value[t])
      BY <1>4 DEF Works, Onward
    <2>2. Current(t) \in Statements(area) /\ value[t] \in Values \cup {None}
      BY <2>1, Running
    <2>3. /\ target' \in [FacetsOf(area) -> SUBSET (Values \cup {None})]
          /\ \A f \in FacetsOf(area) : Owned(f) /\ target'[Parent[f]] = {} => target'[f] = {}
      BY <2>1, <2>2, Effect
    <2> QED
      BY <2>1, <2>3 DEF MachineOK
  <1>5. CASE Lost(t)
    <2>1. pc[t] = "run" /\ UNCHANGED area
      BY <1>2, <1>5 DEF Lost, Ends
    <2>2. Current(t) \in Statements(area) /\ value[t] \in Values \cup {None}
      BY <2>1, Running
    <2>3. /\ UNCHANGED target
          /\ late' = late \/ late' = [does |-> Current(t), for |-> value[t]]
      BY <1>5 DEF Lost
    <2> QED
      BY <2>1, <2>2, <2>3 DEF MachineOK
  <1> QED
    BY <1>1, <1>3, <1>4, <1>5 DEF HLost, HSteady

\* The types of the calls, whatever a worker does.
LEMMA CallsStep ==
    ASSUME MachineOK, CallsOK, NEW t \in Threads, HLost(t) \/ HSteady(t)
    PROVE  CallsOK'
  <1>1. CASE Ask(t)
    <2>1. PICK statements \in Scripts(area) : \E v \in Arguments(statements) :
             /\ script' = [script EXCEPT ![t] = statements]
             /\ value' = [value EXCEPT ![t] = v]
      BY <1>1 DEF Ask
    <2>2. PICK v \in Arguments(statements) : value' = [value EXCEPT ![t] = v]
      BY <2>1
    <2>3. v \in Values \cup {None}
      BY DEF Arguments
    <2>4. 1 \in 1..Len(statements)
      BY ScriptsOK DEF ScriptOK, MachineOK
    <2>5. /\ at' = [at EXCEPT ![t] = 1] /\ good' = [good EXCEPT ![t] = TRUE]
          /\ pc' = [pc EXCEPT ![t] = "run"] /\ UNCHANGED area
          /\ script' = [script EXCEPT ![t] = statements]
      BY <1>1, <2>1 DEF Ask, Goto
    <2> QED
      BY <2>2, <2>3, <2>4, <2>5 DEF CallsOK
  <1>2. CASE Reply(t)
    BY <1>2 DEF Reply, Goto, CallsOK
  <1>3. ASSUME NEW answer \in {"partial", "error", "raised"}, pc[t] = "run", Ends(t, answer)
        PROVE  CallsOK'
    BY <1>3 DEF Ends, Goto, CallsOK
  <1>4. ASSUME NEW b \in BOOLEAN, pc[t] = "run", Onward(t, b) PROVE CallsOK'
    <2>1. at[t] \in 1..Len(script[t]) /\ Len(script[t]) \in Nat
      BY <1>4, Running
    <2>2. /\ UNCHANGED <<area, script, value>> /\ good' = [good EXCEPT ![t] = b]
          /\ \/ /\ pc' = pc /\ at[t] < Len(script[t]) /\ at' = [at EXCEPT ![t] = at[t] + 1]
             \/ /\ pc' = [pc EXCEPT ![t] = IF b THEN "ok" ELSE "error"]
                /\ at[t] = Len(script[t]) /\ at' = at
      BY <1>4, GoesOn
    <2>3. CASE pc' = pc /\ at[t] < Len(script[t]) /\ at' = [at EXCEPT ![t] = at[t] + 1]
      BY <1>4, <2>1, <2>2, <2>3 DEF CallsOK
    <2>4. CASE pc' = [pc EXCEPT ![t] = IF b THEN "ok" ELSE "error"] /\ at' = at
      BY <1>4, <2>1, <2>2, <2>4 DEF CallsOK
    <2> QED
      BY <2>2, <2>3, <2>4
  <1>5. good[t] \in BOOLEAN
    BY DEF CallsOK
  <1>6. ASSUME pc[t] = "run", Deals(t) PROVE CallsOK'
    BY <1>3, <1>4, <1>5, <1>6 DEF Deals
  <1>7. CASE Works(t) \/ Fails(t) \/ Lost(t)
    BY <1>3, <1>4, <1>5, <1>6, <1>7 DEF Works, Fails, Lost
  <1> QED
    BY <1>1, <1>2, <1>7 DEF HLost, HSteady

\* A command that goes on without its client changes nothing of the calls.
LEMMA LateStep ==
    ASSUME MachineOK, CallsOK, Late
    PROVE  MachineOK' /\ CallsOK' /\ UNCHANGED <<area, pc, script, at, value, good>>
  <1>1. late.does \in Statements(area) /\ late.for \in Values \cup {None}
    BY DEF MachineOK, Late
  <1>2. UNCHANGED <<area, pc, script, at, value, good>> /\ late' = None
    BY DEF Late
  <1>3. CASE Refused(late.does, late.for)
    BY <1>2, <1>3 DEF Late, MachineOK, CallsOK
  <1>4. CASE ~Refused(late.does, late.for)
    <2>1. target' = After(late.does, late.for)
      BY <1>4 DEF Late
    <2>2. /\ target' \in [FacetsOf(area) -> SUBSET (Values \cup {None})]
          /\ \A f \in FacetsOf(area) : Owned(f) /\ target'[Parent[f]] = {} => target'[f] = {}
      BY <1>1, <1>4, <2>1, Effect
    <2> QED
      BY <1>2, <2>2 DEF MachineOK, CallsOK
  <1> QED
    BY <1>3, <1>4

\* A call that is judged after a step of its own was judged before it, and lost nothing.
LEMMA Judged ==
    ASSUME NEW t \in Threads, HLost(t) \/ HSteady(t), Remember(t), pc'[t] # "idle",
           t \in alone' \ lost'
    PROVE  t \in alone \ lost /\ HSteady(t)
  BY DEF HLost, HSteady, Remember

\* The steps of a worker, and the facets they change.
LEMMA OwnStep ==
    ASSUME MachineOK, CallsOK, NEW t \in Threads, HLost(t) \/ HSteady(t), Remember(t)
    PROVE  \/ /\ pc[t] = "idle" /\ pc'[t] = "run" /\ at'[t] = 1 /\ good'[t]
              /\ touched'[t] = touched[t]
           \/ pc'[t] = "idle" /\ touched'[t] = {}
           \/ /\ pc[t] = "run" /\ Works(t) /\ Onward(t, good[t])
              /\ touched'[t] \subseteq touched[t] \cup Affects(Current(t))
           \/ pc[t] = "run" /\ Deals(t) /\ UNCHANGED target /\ touched'[t] = touched[t]
           \/ /\ pc[t] = "run" /\ pc'[t] = "raised" /\ UNCHANGED <<script, at>>
              /\ touched'[t] = touched[t]
  <1> USE DEF CallsOK, Goto
  <1>1. /\ pc'[t] = "idle" => touched'[t] = {}
        /\ pc'[t] # "idle" => touched'[t] = touched[t] \cup Changed
        /\ UNCHANGED target => Changed = {}
    BY DEF Remember, Changed
  <1>2. CASE Ask(t)
    BY <1>1, <1>2 DEF Ask
  <1>3. CASE Reply(t)
    BY <1>1, <1>3 DEF Reply
  <1>4. ASSUME NEW answer \in {"partial", "error", "raised"}, Ends(t, answer) PROVE pc'[t] = answer
    BY <1>4 DEF Ends
  <1>5. ASSUME NEW b \in BOOLEAN, pc[t] = "run", Onward(t, b) PROVE pc'[t] # "idle"
    BY <1>5 DEF Onward
  <1>6. ASSUME pc[t] = "run", Deals(t) PROVE pc'[t] # "idle"
    BY <1>4, <1>5, <1>6 DEF Deals
  <1>7. CASE Fails(t)
    BY <1>1, <1>6, <1>7 DEF Fails
  <1>8. CASE Lost(t)
    <2>1. pc[t] = "run" /\ UNCHANGED target
      BY <1>8 DEF Lost
    <2>2. CASE Deals(t)
      BY <1>1, <1>6, <2>1, <2>2
    <2>3. CASE Ends(t, "raised")
      BY <1>1, <2>1, <2>3 DEF Ends
    <2> QED
      BY <1>8, <2>2, <2>3 DEF Lost
  <1>9. CASE Works(t)
    <2>1. /\ pc[t] = "run" /\ target' = After(Current(t), value[t]) /\ Onward(t, good[t])
          /\ ~Refused(Current(t), value[t])
      BY <1>9 DEF Works
    <2>2. Current(t) \in Statements(area) /\ value[t] \in Values \cup {None}
      BY <2>1, Running
    <2>3. \A f \in FacetsOf(area) :
             \/ target'[f] = target[f]
             \/ f = Current(t).on /\ Changes(Current(t))
             \/ Clears(Current(t)) /\ Owned(f) /\ Parent[f] = Current(t).on /\ target'[f] = {}
      BY <2>1, <2>2, Effect
    <2>4. DOMAIN target = FacetsOf(area)
      BY DEF MachineOK
    <2>5. \A f \in Changed : f \in Affects(Current(t))
      BY <2>3, <2>4 DEF Changed, Affects, Owned, Clears, Changes
    <2> QED
      BY <1>1, <1>5, <1>9, <2>1, <2>5
  <1> QED
    BY <1>2, <1>3, <1>7, <1>8, <1>9 DEF HLost, HSteady

-----------------------------------------------------------------------------
(* What the calls have done *)

\* TouchedOK, for the worker that acts.
LEMMA TouchedStep ==
    ASSUME MachineOK, CallsOK, NEW t \in Threads, TouchedOK(t),
           HLost(t) \/ HSteady(t), Remember(t)
    PROVE  TouchedOK(t)'
  <1>1. CASE pc[t] = "idle" /\ pc'[t] = "run" /\ touched'[t] = touched[t]
    BY <1>1 DEF TouchedOK
  <1>2. CASE pc'[t] = "idle" /\ touched'[t] = {}
    BY <1>2 DEF TouchedOK
  <1>3. ASSUME pc[t] = "run"
        PROVE  /\ Past(t) = 1..at[t] - 1 /\ at[t] \in 1..Len(script[t]) /\ Len(script[t]) \in Nat
               /\ touched[t] \subseteq UNION {Affects(script[t][i]) : i \in Past(t)}
    BY <1>3, Running DEF Past, TouchedOK
  <1>4. ASSUME NEW b \in BOOLEAN, pc[t] = "run", Onward(t, b),
               touched'[t] \subseteq touched[t] \cup Affects(Current(t))
        PROVE  TouchedOK(t)'
    <2>1. /\ Past(t)' = 1..at[t] /\ script' = script /\ pc'[t] # "idle"
      BY <1>4, GoesOn DEF CallsOK
    <2>2. touched'[t] \subseteq UNION {Affects(script[t][i]) : i \in 1..at[t]}
      <3>1. Affects(Current(t)) \subseteq UNION {Affects(script[t][i]) : i \in 1..at[t]}
        BY <1>3, <1>4 DEF Current
      <3>2. touched[t] \subseteq UNION {Affects(script[t][i]) : i \in 1..at[t]}
        BY <1>3, <1>4
      <3> QED
        BY <1>4, <3>1, <3>2
    <2> QED
      BY <2>1, <2>2 DEF TouchedOK
  <1>5. ASSUME NEW answer \in {"partial", "error", "raised"}, pc[t] = "run",
               pc'[t] = answer, UNCHANGED <<script, at>>, touched'[t] = touched[t]
        PROVE  TouchedOK(t)'
    <2>1. \A i \in Past(t) : i \in Past(t)'
      BY <1>3, <1>5 DEF Past
    <2> QED
      BY <1>3, <1>5, <2>1 DEF TouchedOK
  <1>6. good[t] \in BOOLEAN
    BY DEF CallsOK
  <1>7. ASSUME pc[t] = "run", Deals(t), touched'[t] = touched[t] PROVE TouchedOK(t)'
    <2>1. ASSUME NEW answer \in {"partial", "error"}, Ends(t, answer) PROVE TouchedOK(t)'
      BY <1>5, <1>7, <2>1 DEF Ends, Goto, CallsOK
    <2>2. ASSUME NEW b \in BOOLEAN, Onward(t, b) PROVE TouchedOK(t)'
      BY <1>4, <1>7, <2>2
    <2> QED
      BY <1>6, <1>7, <2>1, <2>2 DEF Deals
  <1> QED
    BY <1>1, <1>2, <1>4, <1>5, <1>6, <1>7, OwnStep

\* FailedOK, for the worker that acts: an error comes before any promised statement.
LEMMA FailedStep ==
    ASSUME MachineOK, CallsOK, NEW t \in Threads, TouchedOK(t), FailedOK(t),
           HLost(t) \/ HSteady(t), Remember(t)
    PROVE  FailedOK(t)'
  <1>1. CASE pc'[t] \notin {"run", "error"}
    BY <1>1 DEF FailedOK
  <1>2. CASE pc'[t] = "run" /\ good'[t]
    BY <1>2 DEF FailedOK
  <1>3. TouchedOK(t)'
    BY TouchedStep
  <1>4. ASSUME pc[t] = "run"
        PROVE  /\ ScriptOK(area, script[t]) /\ Len(script[t]) \in Nat
               /\ at[t] \in 1..Len(script[t]) /\ Current(t) = script[t][at[t]]
               /\ touched[t] \subseteq UNION {Affects(script[t][i]) : i \in 1..at[t] - 1}
    BY <1>4, Running DEF Current, TouchedOK, Past
  <1>5. ASSUME NEW b \in BOOLEAN, pc[t] = "run", Onward(t, b),
               ~b => \E i \in 1..Len(script[t]) : script[t][i].fail = "judge"
        PROVE  FailedOK(t)'
    <2>1. /\ Past(t)' = 1..at[t] /\ script' = script /\ good'[t] = b
          /\ pc'[t] = "error" => ~b
          /\ pc'[t] # "idle"
      BY <1>5, GoesOn DEF CallsOK
    <2>2. CASE b
      BY <2>1, <2>2 DEF FailedOK
    <2>3. CASE ~b
      <3>1. \A i \in 1..Len(script[t]) : Affects(script[t][i]) \subseteq Prepared
        BY <1>4, <1>5, <2>3 DEF ScriptOK
      <3>2. touched'[t] \subseteq UNION {Affects(script[t][i]) : i \in 1..at[t]}
        BY <1>3, <2>1 DEF TouchedOK
      <3>3. touched'[t] \subseteq Prepared
        BY <1>4, <1>5, <3>1, <3>2
      <3> QED
        BY <1>5, <2>1, <2>3, <3>3 DEF FailedOK
    <2> QED
      BY <2>2, <2>3
  <1>6. ASSUME pc[t] = "run" /\ ~good[t]
        PROVE  \E i \in 1..Len(script[t]) : script[t][i].fail = "judge"
    BY <1>6 DEF FailedOK
  <1>7. good[t] \in BOOLEAN
    BY DEF CallsOK
  <1>8. CASE pc[t] = "run" /\ Onward(t, good[t])
    BY <1>5, <1>6, <1>7, <1>8
  <1>9. CASE pc[t] = "run" /\ Deals(t) /\ touched'[t] = touched[t]
    <2>1. CASE Current(t).fail = "must" /\ Ends(t, "error")
      <3>1. \A i \in 1..at[t] - 1 : Affects(script[t][i]) \subseteq Prepared
        <4> SUFFICES ASSUME NEW i \in 1..at[t] - 1 PROVE Affects(script[t][i]) \subseteq Prepared
          OBVIOUS
        <4>1. i \in 1..Len(script[t]) /\ at[t] \in i + 1..Len(script[t])
          BY <1>4, <1>9
        <4> QED
          BY <1>4, <1>9, <2>1, <4>1 DEF ScriptOK
      <3>2. touched'[t] \subseteq Prepared
        BY <1>4, <1>9, <3>1
      <3>3. pc'[t] = "error"
        BY <2>1 DEF Ends, Goto, CallsOK
      <3> QED
        BY <3>2, <3>3 DEF FailedOK
    <2>2. CASE Ends(t, "partial")
      BY <2>2 DEF Ends, Goto, CallsOK, FailedOK
    <2>3. CASE Current(t).fail = "judge" /\ Onward(t, FALSE)
      BY <1>4, <1>5, <1>9, <2>3
    <2> QED
      BY <1>8, <1>9, <2>1, <2>2, <2>3 DEF Deals
  <1> QED
    BY <1>1, <1>2, <1>8, <1>9, OwnStep

\* What a statement does leaves the promises before it as they are.
LEMMA KeptByWork ==
    ASSUME MachineOK, CallsOK, NEW t \in Threads, pc[t] = "run", Works(t),
           \A i \in Promises(area, script[t]) \cap (1..at[t] - 1) : InEffect(script[t][i], value[t])
    PROVE  \A i \in Promises(area, script[t]) \cap (1..at[t]) : InEffect(script[t][i], value[t])'
  <1>1. /\ ScriptOK(area, script[t]) /\ Len(script[t]) \in Nat /\ DOMAIN script[t] = 1..Len(script[t])
        /\ at[t] \in 1..Len(script[t]) /\ Current(t) = script[t][at[t]]
        /\ script[t] \in Scripts(area) /\ Current(t) \in Statements(area)
        /\ value[t] \in Values \cup {None}
    BY Running DEF Current
  <1>2. /\ target' = After(Current(t), value[t]) /\ ~Refused(Current(t), value[t])
        /\ UNCHANGED <<script, value>>
    BY DEF Works, Onward
  <1>3. /\ \A f \in FacetsOf(area) :
              \/ target'[f] = target[f]
              \/ f = Current(t).on /\ Changes(Current(t))
              \/ Clears(Current(t)) /\ Owned(f) /\ Parent[f] = Current(t).on /\ target'[f] = {}
        /\ Clears(Current(t)) => target'[Current(t).on] = {}
        /\ Changes(Current(t)) /\ ~Clears(Current(t)) => value[t] \in target'[Current(t).on]
    BY <1>1, <1>2, Effect
  <1> SUFFICES ASSUME NEW i \in Promises(area, script[t]) \cap (1..at[t])
               PROVE  InEffect(script[t][i], value[t])'
    OBVIOUS
  <1>4. /\ i \in 1..Len(script[t]) /\ Changes(script[t][i])
        /\ \A j \in i + 1..Len(script[t]) :
              Changes(script[t][j]) => script[t][j].on # script[t][i].on
    BY DEF Promises
  <1>5. CASE i = at[t]
    BY <1>1, <1>2, <1>3, <1>4, <1>5 DEF InEffect
  <1>6. CASE i < at[t]
    <2>1. at[t] \in i + 1..Len(script[t]) /\ i \in 1..at[t] - 1
      BY <1>1, <1>4, <1>6
    <2>2. /\ Changes(Current(t)) => Current(t).on # script[t][i].on
          /\ Clears(Current(t)) /\ Owned(script[t][i].on) => Parent[script[t][i].on] # Current(t).on
      BY <1>1, <1>4, <2>1 DEF ScriptOK
    <2>3. script[t][i] \in Statements(area)
      BY <1>1, <1>4 DEF Statements
    <2>4. script[t][i].on \in FacetsOf(area)
      BY <2>3, Facets
    <2>5. target'[script[t][i].on] = target[script[t][i].on]
      BY <1>3, <2>2, <2>4
    <2>6. InEffect(script[t][i], value[t])
      BY <2>1
    <2> QED
      BY <1>2, <2>5, <2>6 DEF InEffect
  <1> QED
    BY <1>1, <1>5, <1>6

\* KeptSoFar, for the worker that acts.
LEMMA KeptStep ==
    ASSUME MachineOK, CallsOK, NEW t \in Threads, KeptSoFar(t),
           HLost(t) \/ HSteady(t), Remember(t)
    PROVE  KeptSoFar(t)'
  <1> SUFFICES ASSUME t \in alone' \ lost', pc'[t] \in {"run", "ok"}, good'[t]
               PROVE  \A i \in Promises(area, script[t])' \cap Past(t)' :
                         InEffect(script[t][i], value[t])'
    BY DEF KeptSoFar
  <1>1. t \in alone \ lost /\ HSteady(t)
    BY Judged
  <1>2. CASE pc[t] = "idle" /\ pc'[t] = "run" /\ at'[t] = 1
    BY <1>2 DEF Past
  <1>3. ASSUME pc[t] = "run", good[t]
        PROVE  /\ at[t] \in 1..Len(script[t]) /\ Len(script[t]) \in Nat
               /\ ScriptOK(area, script[t]) /\ Current(t) = script[t][at[t]]
               /\ \A i \in Promises(area, script[t]) \cap (1..at[t] - 1) :
                     InEffect(script[t][i], value[t])
    BY <1>1, <1>3, Running DEF KeptSoFar, Past, Current
  <1>4. UNCHANGED area
    BY MachineStep
  <1>7. ASSUME NEW b \in BOOLEAN, pc[t] = "run", Onward(t, b)
        PROVE  Past(t)' = 1..at[t] /\ UNCHANGED <<script, value>> /\ good'[t] = b
    <2>1. /\ Past(t)' = 1..at[t] /\ UNCHANGED <<script, value>>
          /\ good' = [good EXCEPT ![t] = b]
      BY <1>7, GoesOn
    <2> QED
      BY <2>1 DEF CallsOK
  <1>5. CASE pc[t] = "run" /\ Works(t) /\ Onward(t, good[t])
    <2>1. good[t] \in BOOLEAN
      BY DEF CallsOK
    <2>2. Past(t)' = 1..at[t] /\ UNCHANGED <<script, value>> /\ good'[t] = good[t]
      BY <1>5, <1>7, <2>1
    <2>3. \A i \in Promises(area, script[t]) \cap (1..at[t]) : InEffect(script[t][i], value[t])'
      BY <1>3, <1>5, <2>2, KeptByWork
    <2> QED
      BY <1>4, <2>2, <2>3 DEF Promises
  <1>6. CASE pc[t] = "run" /\ Deals(t) /\ UNCHANGED target
    <2>1. CASE Current(t).fail = "try" /\ Onward(t, good[t])
      <3>1. good[t] \in BOOLEAN
        BY DEF CallsOK
      <3>2. Past(t)' = 1..at[t] /\ UNCHANGED <<script, value>> /\ good'[t] = good[t]
        BY <1>6, <1>7, <2>1, <3>1
      <3>3. at[t] \notin Promises(area, script[t])
        BY <1>3, <1>6, <2>1, <3>2 DEF ScriptOK
      <3>4. \A i \in Promises(area, script[t]) \cap (1..at[t]) : i \in 1..at[t] - 1
        BY <1>3, <1>6, <3>2, <3>3
      <3> QED
        BY <1>3, <1>4, <1>6, <3>2, <3>4 DEF InEffect, Promises
    <2>2. CASE Onward(t, FALSE)
      BY <1>6, <1>7, <2>2
    <2>3. ASSUME NEW answer \in {"partial", "error"}, Ends(t, answer) PROVE FALSE
      BY <2>3 DEF Ends, Goto, CallsOK
    <2> QED
      BY <1>6, <2>1, <2>2, <2>3 DEF Deals
  <1> QED
    BY <1>2, <1>5, <1>6, OwnStep

\* HalfOK, for the worker that acts: the user is there, and the password was not set.
LEMMA HalfStep ==
    ASSUME MachineOK, CallsOK, NEW t \in Threads, HalfOK(t), TouchedOK(t),
           HLost(t) \/ HSteady(t), Remember(t)
    PROVE  HalfOK(t)'
  <1> SUFFICES ASSUME t \in alone' \ lost', pc'[t] \in {"run", "partial"} PROVE HalfOK(t)'
    BY DEF HalfOK
  <1>1. t \in alone \ lost /\ HSteady(t)
    BY Judged
  <1>2. CallsOK' /\ MachineOK'
    BY CallsStep, MachineStep
  <1>3. CASE pc'[t] = "run" /\ script'[t][at'[t]].fail # "half"
    BY <1>3 DEF HalfOK
  <1>4. ASSUME pc'[t] = "run", script'[t][at'[t]].fail = "half"
        PROVE  at'[t] = 2 /\ script'[t][1] = Must("new", "user")
    <2>1. script'[t] \in Scripts(area') /\ at'[t] \in 1..Len(script'[t]) /\ area' \in Areas
      BY <1>2, <1>4 DEF CallsOK, MachineOK
    <2>2. ScriptOK(area', script'[t])
      BY <2>1, ScriptsOK
    <2> QED
      BY <1>4, <2>1, <2>2 DEF ScriptOK
  <1>5. ASSUME NEW b \in BOOLEAN, pc[t] = "run", Onward(t, b),
               pc'[t] = "run", script'[t][at'[t]].fail = "half"
        PROVE  at[t] = 1 /\ Current(t) = Must("new", "user")
    <2>1. at[t] \in 1..Len(script[t]) /\ Len(script[t]) \in Nat
      BY <1>5, Running
    <2>2. /\ script' = script
          /\ \/ at' = [at EXCEPT ![t] = at[t] + 1]
             \/ pc' = [pc EXCEPT ![t] = IF b THEN "ok" ELSE "error"]
      BY <1>5, GoesOn
    <2>3. at'[t] = at[t] + 1
      BY <1>5, <2>2 DEF CallsOK
    <2> QED
      BY <1>4, <1>5, <2>1, <2>2, <2>3 DEF Current
  <1>6. good[t] \in BOOLEAN
    BY DEF CallsOK
  <1>7. ASSUME NEW b \in BOOLEAN, pc[t] = "run", Onward(t, b) PROVE pc'[t] # "partial"
    BY <1>7, GoesOn DEF CallsOK
  <1>8. CASE pc[t] = "idle" /\ pc'[t] = "run" /\ at'[t] = 1
    BY <1>4, <1>8 DEF HalfOK
  <1>9. CASE pc[t] = "run" /\ Works(t) /\ Onward(t, good[t])
    <2>1. CASE script'[t][at'[t]].fail = "half" /\ pc'[t] = "run"
      <3>1. Current(t) = Must("new", "user")
        BY <1>5, <1>6, <1>9, <2>1
      <3>2. /\ Current(t) \in Statements(area) /\ value[t] \in Values \cup {None}
            /\ target' = After(Current(t), value[t]) /\ ~Refused(Current(t), value[t])
        BY <1>9, Running DEF Works
      <3>3. Changes(Current(t)) /\ ~Clears(Current(t)) /\ Current(t).on = "user"
        BY <3>1 DEF Must, Statement, Changes, Clears
      <3>4. value[t] \in target'["user"]
        BY <3>2, <3>3, Effect
      <3> QED
        BY <2>1, <3>4 DEF HalfOK
    <2> QED
      BY <1>3, <1>6, <1>7, <1>9, <2>1
  <1>10. CASE pc[t] = "run" /\ Deals(t) /\ UNCHANGED target /\ touched'[t] = touched[t]
    <2>1. CASE Current(t).fail = "half" /\ Ends(t, "partial")
      <3>1. pc'[t] = "partial"
        BY <2>1 DEF Ends, Goto, CallsOK
      <3>2. target["user"] # {}
        BY <1>1, <1>10, <2>1 DEF HalfOK, Current
      <3>3. at[t] = 2 /\ script[t][1] = Must("new", "user")
        BY <1>10, <2>1, Running DEF ScriptOK, Current
      <3>4. Past(t) = {1}
        BY <1>10, <3>3 DEF Past
      <3>5. Affects(script[t][1]) \subseteq {"user"}
        BY <3>3 DEF Affects, Must, Statement, Clears
      <3>6. touched'[t] \subseteq {"user"}
        BY <1>10, <3>4, <3>5 DEF TouchedOK
      <3> QED
        BY <1>10, <3>1, <3>2, <3>6 DEF HalfOK
    <2>2. ASSUME NEW b \in BOOLEAN, Onward(t, b), Current(t).fail \in {"judge", "try"}
          PROVE  HalfOK(t)'
      <3>1. pc'[t] = "run"
        BY <1>7, <1>10, <2>2
      <3>2. Current(t) # Must("new", "user")
        BY <2>2 DEF Must, Statement
      <3> QED
        BY <1>3, <1>5, <1>10, <2>2, <3>1, <3>2
    <2>3. CASE Ends(t, "error")
      BY <2>3 DEF Ends, Goto, CallsOK
    <2> QED
      BY <1>6, <1>10, <2>1, <2>2, <2>3 DEF Deals
  <1> QED
    BY <1>8, <1>9, <1>10, OwnStep

\* What holds of a call holds while others act and the call is not disturbed, or not judged.
LEMMA Aside ==
    ASSUME NEW w, WorkerOK(w), UNCHANGED area,
           pc'[w] = pc[w], script'[w] = script[w], at'[w] = at[w], value'[w] = value[w],
           good'[w] = good[w],
           touched'[w] = IF pc[w] = "idle" THEN {} ELSE touched[w],
           w \in alone' \ lost' /\ pc[w] # "idle" => w \in alone \ lost /\ target' = target
    PROVE  WorkerOK(w)'
  <1>1. KeptSoFar(w)'
    BY DEF WorkerOK, KeptSoFar, Promises, Past, InEffect
  <1>2. TouchedOK(w)'
    BY DEF WorkerOK, TouchedOK, Past
  <1>3. HalfOK(w)'
    BY DEF WorkerOK, HalfOK
  <1>4. FailedOK(w)'
    BY DEF WorkerOK, FailedOK
  <1> QED
    BY <1>1, <1>2, <1>3, <1>4 DEF WorkerOK

\* A setting that has been there was there before the step, or is there after it; and
\* what it belongs to is there.
LEMMA HadStep ==
    ASSUME MachineOK, SettingsOK, NEW actor, Remember(actor), UNCHANGED area
    PROVE  /\ had' \subseteq FacetsOf(area)
           /\ \A f \in had' : f \in had \/ target'[f] # {}
           /\ \A f \in had' : Owned(f) => target'[Parent[f]] # {}
  <1>1. DOMAIN target = FacetsOf(area)
    BY DEF MachineOK
  <1> QED
    BY <1>1 DEF Remember, SettingsOK

\* As long as every call answers "ok", a setting that was there is there, or a call that
\* will restore it is on its way.
LEMMA SettingsStep ==
    ASSUME MachineOK, CallsOK, SettingsOK, NEW t \in Threads,
           HLost(t) \/ HSteady(t), Remember(t)
    PROVE  SettingsOK'
  <1>1. /\ UNCHANGED area /\ had' \subseteq FacetsOf(area)
        /\ \A f \in had' : f \in had \/ target'[f] # {}
        /\ \A f \in had' : Owned(f) => target'[Parent[f]] # {}
    BY MachineStep, HadStep
  <1> SUFFICES ASSUME area = <<"libvirt", "host_network">>, smooth'
               PROVE  /\ late' = None
                      /\ \A f \in had' \cap {"address", "route"} :
                            target'[f] # {} \/ \E w \in Threads : Restoring(w, f)'
    BY <1>1 DEF SettingsOK
  <1>2. /\ smooth /\ \A w \in Threads : pc'[w] \in {"idle", "run", "ok"}
    BY DEF Remember
  <1>3. /\ late = None
        /\ \A f \in had \cap {"address", "route"} :
              target[f] # {} \/ \E w \in Threads : Restoring(w, f)
    BY <1>2 DEF SettingsOK
  <1>4. ASSUME NEW answer \in {"partial", "error", "raised"}, Ends(t, answer) PROVE FALSE
    BY <1>2, <1>4 DEF Ends, Goto, CallsOK
  <1>5. ~Lost(t)
    BY <1>4 DEF Lost, TimeoutIsResult
  <1>6. late' = None
    BY <1>3, <1>5 DEF HLost, HSteady, Ask, Works, Fails, Reply
  <1> SUFFICES ASSUME NEW f \in had' \cap {"address", "route"},
                      ~\E w \in Threads : Restoring(w, f)'
               PROVE  target'[f] # {}
    BY <1>6
  <1> SUFFICES ASSUME f \in had PROVE target'[f] # {}
    BY <1>1
  <1>7. ASSUME NEW w \in Threads, w # t, Restoring(w, f) PROVE FALSE
    <2>1. pc'[w] = pc[w] /\ script'[w] = script[w] /\ at'[w] = at[w] /\ good'[w] = good[w]
      BY <1>7, OthersGoOn
    <2> QED
      BY <1>7, <2>1 DEF Restoring
  <1>8. f \in FacetsOf(area) /\ (Owned(f) => target'[Parent[f]] # {})
    BY <1>1
  \* The worker goes on: had it failed, or were the setting to come, it would be restoring.
  <1>9. ASSUME NEW b \in BOOLEAN, pc[t] = "run", Onward(t, b)
        PROVE  b /\ \A i \in at[t] + 1..Len(script[t]) : ~Restores(script[t][i], f)
    <2>1. at[t] \in 1..Len(script[t]) /\ Len(script[t]) \in Nat
      BY <1>9, Running
    <2>2. /\ UNCHANGED script /\ good' = [good EXCEPT ![t] = b]
          /\ \/ /\ pc' = pc /\ at[t] < Len(script[t]) /\ at' = [at EXCEPT ![t] = at[t] + 1]
             \/ /\ pc' = [pc EXCEPT ![t] = IF b THEN "ok" ELSE "error"]
                /\ at[t] = Len(script[t]) /\ at' = at
      BY <1>9, GoesOn
    <2>3. good'[t] = b
      BY <2>2 DEF CallsOK
    <2>4. CASE pc' = pc /\ at[t] < Len(script[t]) /\ at' = [at EXCEPT ![t] = at[t] + 1]
      <3>1. pc'[t] = "run" /\ at'[t] = at[t] + 1
        BY <1>9, <2>4 DEF CallsOK
      <3> QED
        BY <2>2, <2>3, <3>1 DEF Restoring
    <2>5. CASE pc' = [pc EXCEPT ![t] = IF b THEN "ok" ELSE "error"] /\ at[t] = Len(script[t])
      <3>1. b
        BY <1>2, <2>5 DEF CallsOK
      <3>2. \A i \in at[t] + 1..Len(script[t]) : FALSE
        BY <2>1, <2>5
      <3> QED
        BY <3>1, <3>2
    <2> QED
      BY <2>2, <2>4, <2>5
  <1>10. good[t] \in BOOLEAN
    BY DEF CallsOK
  <1>11. ASSUME pc[t] = "run"
         PROVE  /\ at[t] \in 1..Len(script[t]) /\ Len(script[t]) \in Nat
                /\ ScriptOK(area, script[t]) /\ Current(t) = script[t][at[t]]
                /\ Current(t) \in Statements(area) /\ value[t] \in Values \cup {None}
    BY <1>11, Running DEF Current
  <1>12. ASSUME pc[t] = "run", Restoring(t, f), Onward(t, good[t])
         PROVE  Restores(Current(t), f)
    <2>1. good[t] /\ \A i \in at[t] + 1..Len(script[t]) : ~Restores(script[t][i], f)
      BY <1>9, <1>10, <1>12
    <2>2. PICK i \in at[t]..Len(script[t]) : Restores(script[t][i], f)
      BY <1>12, <2>1 DEF Restoring
    <2>3. i = at[t]
      BY <1>11, <1>12, <2>1, <2>2
    <2> QED
      BY <1>11, <1>12, <2>2, <2>3
  <1>13. CASE Works(t)
    <2>1. /\ pc[t] = "run" /\ Onward(t, good[t])
          /\ target' = After(Current(t), value[t]) /\ ~Refused(Current(t), value[t])
      BY <1>13 DEF Works
    <2>2. /\ \/ target'[f] = target[f]
             \/ f = Current(t).on /\ Changes(Current(t))
          /\ Changes(Current(t)) /\ ~Clears(Current(t)) => value[t] \in target'[Current(t).on]
      BY <1>8, <1>11, <2>1, Effect
    <2>3. CASE Clears(Current(t)) /\ Current(t).on = f
      <3>1. \E j \in at[t] + 1..Len(script[t]) : Restores(script[t][j], f)
        BY <1>11, <2>1, <2>3 DEF ScriptOK
      <3> QED
        BY <1>9, <1>10, <2>1, <3>1
    <2>4. CASE Changes(Current(t)) /\ ~Clears(Current(t)) /\ Current(t).on = f
      BY <2>2, <2>4
    <2>5. CASE target'[f] = target[f]
      <3>1. target[f] # {} \/ Restoring(t, f)
        BY <1>3, <1>7
      <3>2. CASE Restoring(t, f)
        <4>1. Restores(Current(t), f)
          BY <1>12, <2>1, <3>2
        <4>2. Changes(Current(t)) /\ ~Clears(Current(t)) /\ Current(t).on = f
          BY <4>1 DEF Restores, Changes, Clears
        <4> QED
          BY <2>4, <4>2
      <3> QED
        BY <2>5, <3>1, <3>2
    <2> QED
      BY <2>2, <2>3, <2>4, <2>5
  <1>14. CASE Fails(t)
    <2>1. pc[t] = "run" /\ Deals(t) /\ target' = target
      BY <1>14 DEF Fails
    <2>2. Current(t).fail = "try" /\ Onward(t, good[t])
      BY <1>4, <1>9, <2>1 DEF Deals
    <2>3. ~Restoring(t, f)
      BY <1>12, <2>1, <2>2 DEF Restores
    <2> QED
      BY <1>3, <1>7, <2>1, <2>3
  <1>15. CASE Ask(t) \/ Reply(t)
    <2>1. target' = target /\ pc[t] # "run"
      BY <1>15 DEF Ask, Reply
    <2> QED
      BY <1>3, <1>7, <2>1 DEF Restoring
  <1> QED
    BY <1>5, <1>13, <1>14, <1>15 DEF HLost, HSteady

-----------------------------------------------------------------------------
(* The commands, whatever the workers, the values and the machine do *)

\* Nobody has called anything when a server starts.
LEMMA CommandsBegin == HInit => CommandInv
  <1> SUFFICES ASSUME HInit PROVE CommandInv
    OBVIOUS
  <1>1. CommandInit /\ touched = [t \in Threads |-> {}] /\ had = {f \in DOMAIN target : target[f] # {}}
    BY DEF HInit
  <1>2. PICK v \in Values : target \in [FacetsOf(area) -> {{}, {v}}]
    BY <1>1 DEF CommandInit
  <1>3. MachineOK
    BY <1>1, <1>2 DEF CommandInit, MachineOK
  <1>4. CallsOK
    BY <1>1 DEF CommandInit, CallsOK
  <1>5. SettingsOK
    BY <1>1, <1>2 DEF CommandInit, SettingsOK
  <1>6. ASSUME NEW t \in Threads PROVE WorkerOK(t)
    BY <1>1 DEF CommandInit, WorkerOK, KeptSoFar, TouchedOK, HalfOK, FailedOK
  <1> QED
    BY <1>3, <1>4, <1>5, <1>6 DEF CommandInv, HInit

\* Every step of a worker keeps it.
LEMMA CommandsWork ==
    ASSUME CommandInv, NEW t \in Threads, HLost(t) \/ HSteady(t), Remember(t)
    PROVE  CommandInv'
  <1> USE DEF CommandInv
  <1>1. MachineOK' /\ CallsOK' /\ UNCHANGED area
    BY MachineStep, CallsStep
  <1>2. SettingsOK'
    BY SettingsStep
  <1>3. WorkerOK(t)'
    BY KeptStep, TouchedStep, HalfStep, FailedStep DEF WorkerOK
  <1>4. ASSUME NEW w \in Threads, w # t PROVE WorkerOK(w)'
    <2>1. /\ pc'[w] = pc[w] /\ script'[w] = script[w] /\ at'[w] = at[w] /\ value'[w] = value[w]
          /\ good'[w] = good[w]
          /\ pc[w] # "idle" => touched'[w] = touched[w]
          /\ w \in alone' \ lost' /\ pc[w] # "idle" => w \in alone \ lost /\ target' = target
      BY <1>4, OthersGoOn
    <2>2. touched'[w] = IF pc[w] = "idle" THEN {} ELSE touched[w]
      BY <2>1 DEF Remember
    <2> QED
      BY <1>1, <2>1, <2>2, Aside
  <1>5. alone' \subseteq Threads
    BY DEF Remember
  <1> QED
    BY <1>1, <1>2, <1>3, <1>4, <1>5

\* So does a command that goes on without its client.
LEMMA CommandsLate ==
    ASSUME CommandInv, Late, Remember(None), UNCHANGED lost
    PROVE  CommandInv'
  <1> USE DEF CommandInv
  <1>1. MachineOK' /\ CallsOK' /\ UNCHANGED <<area, pc, script, at, value, good>>
    BY LateStep
  <1>2. SettingsOK'
    <2>1. had' \subseteq FacetsOf(area)
      BY <1>1, HadStep
    <2> QED
      BY <1>1, <2>1 DEF Late, Remember, SettingsOK
  <1>3. ASSUME NEW w \in Threads PROVE WorkerOK(w)'
    <2>1. w # None
      BY <1>3
    <2>2. /\ touched'[w] = IF pc[w] = "idle" THEN {} ELSE touched[w]
          /\ w \in alone' \ lost' /\ pc[w] # "idle" => w \in alone \ lost /\ target' = target
      BY <1>1, <2>1 DEF Remember
    <2> QED
      BY <1>1, <2>2, Aside
  <1>4. alone' \subseteq Threads
    BY DEF Remember
  <1> QED
    BY <1>1, <1>2, <1>3, <1>4

\* A step that leaves everything as it is keeps it.
LEMMA CommandsRest == CommandInv /\ UNCHANGED hvars => CommandInv'
  <1> SUFFICES ASSUME CommandInv, UNCHANGED hvars PROVE CommandInv'
    OBVIOUS
  <1> USE DEF CommandInv, hvars, commandVars
  <1>1. MachineOK'
    BY DEF MachineOK
  <1>2. CallsOK'
    BY DEF CallsOK
  <1>3. SettingsOK'
    BY DEF SettingsOK, Restoring
  <1>4. ASSUME NEW w \in Threads PROVE WorkerOK(w)'
    <2>1. pc[w] = "idle" => touched[w] = {}
      BY DEF WorkerOK, TouchedOK
    <2> QED
      BY <2>1, Aside
  <1> QED
    BY <1>1, <1>2, <1>3, <1>4

\* What the calls have done so far, and may still answer, in every reachable state.
THEOREM CommandsSafe == HSpec => []CommandInv
  <1>1. CommandInv /\ [HNext]_hvars => CommandInv'
    BY CommandsWork, CommandsLate, CommandsRest DEF HNext
  <1> QED
    BY <1>1, CommandsBegin, PTL DEF HSpec

\* An "ok" is true of everything the call was to do, and "partial" of the user without the
\* password, unless another call or a lost command has been at work.
THEOREM CommandAnswers == HSpec => []AnswersHold
  <1>1. ASSUME CommandInv, NEW t \in alone \ lost, pc[t] = "ok", NEW s \in Promised(t)
        PROVE  InEffect(s, value[t])
    <2>1. t \in Threads /\ KeptSoFar(t) /\ good[t]
      BY <1>1 DEF CommandInv, WorkerOK, CallsOK
    <2>2. PICK i \in Promises(area, script[t]) : s = script[t][i]
      BY <1>1 DEF Promised
    <2>3. i \in Past(t)
      BY <1>1 DEF Past, Promises
    <2> QED
      BY <1>1, <2>1, <2>2, <2>3 DEF KeptSoFar
  <1>2. ASSUME CommandInv, NEW t \in alone \ lost, pc[t] = "partial"
        PROVE  target["user"] # {} /\ "password" \notin touched[t]
    BY <1>2 DEF CommandInv, WorkerOK, HalfOK
  <1>3. CommandInv => AnswersHold
    BY <1>1, <1>2 DEF AnswersHold
  <1> QED
    BY <1>3, CommandsSafe, PTL

\* An error is the answer of a call that has changed nothing but what is prepared.
THEOREM CommandErrors == HSpec => []ErrorsChangeNothing
  <1>1. CommandInv => ErrorsChangeNothing
    BY DEF CommandInv, WorkerOK, FailedOK, ErrorsChangeNothing
  <1> QED
    BY <1>1, CommandsSafe, PTL

\* set_host_ip and set_default_gateway clear a setting and set it again: it survives any
\* interleaving of calls that all answer "ok".
THEOREM CommandSettings == HSpec => []SettingsSurvive
  <1>1. CommandInv => SettingsSurvive
    BY DEF CommandInv, SettingsOK, Restoring, SettingsSurvive
  <1> QED
    BY <1>1, CommandsSafe, PTL
=============================================================================
