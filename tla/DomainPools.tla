----------------------------- MODULE DomainPools -----------------------------
(***************************************************************************)
(* The two registries of the Active Directory server: LDAPPool, with the   *)
(* one connection that all workers share, and WinRMPool, which keeps       *)
(* settings only; and the tools that use them: add_dc, remove_dc,          *)
(* list_dcs, the tools that search, list_users page by page, and those     *)
(* that run PowerShell.  One domain controller is modelled: others share   *)
(* with it nothing but the locks.                                          *)
(*                                                                         *)
(* ldap3 and the controller are external: a bind, an operation and a       *)
(* command may fail, and a connection may die at any time.                 *)
(***************************************************************************)
EXTENDS Workers, Naturals, FiniteSets

CONSTANTS
    Settings,  \* what add_dc is given: user, password, domain, port
    Pages,     \* pages of the list of users
    Tools      \* the tools that are called

\* add_dc asks for the connection only, like delete_object; test_dc, get_user and list_users
\* for the settings first; list_dcs for the names; list_dns_zones runs PowerShell with the settings of
\* the other registry, and create_user looks into both.  Every other tool is like one of these.
AllTools == {"add_dc", "remove_dc", "list_dcs", "test_dc", "get_user", "delete_object", "list_users",
             "list_dns_zones", "create_user"}

ASSUME PoolsAssumption ==
    /\ IsFiniteSet(Threads)
    /\ Pages \in Nat \ {0} /\ Tools \subseteq AllTools
    /\ None \notin Settings \cup Threads \cup Nat

VARIABLES
    lock,    \* the holder of LDAPPool._lock, or None
    ldap,    \* LDAPPool._configs of the controller, or None
    cached,  \* LDAPPool._connections of it, or None
    heap,    \* connection objects, with the result of their last operation
    winrm,   \* WinRMPool._configs of it, or None
    call,    \* its tool, and the settings it is given
    conn,    \* the connection it has been given, or None
    cookie   \* list_users: the page to ask for

registries == <<ldap, winrm>>
pools == <<lock, registries, cached, heap>>
work == <<call, conn, cookie>>
vars == <<pools, pc, work>>

Ids == 1 .. Cardinality(Threads)
\* A connection is bound until it is unbound, or dies.  The last operation leaves its entries
\* and its result in the object that all share: here the page of users they are (0: something
\* else), which has the cookie of the next page with it.
Connections == [settings : Settings, bound : BOOLEAN, page : 0..Pages]
New(s) == [settings |-> s, bound |-> TRUE, page |-> 0]

ASSUME NoneAssumption == None \notin Connections

Calls == [tool : Tools \cap {"add_dc"}, settings : Settings]
    \cup [tool : Tools \ {"add_dc"}, settings : {None}]
NoCall == [tool |-> "list_dcs", settings |-> None]

\* What the registry keeps no more is there while a worker uses it.
Released(h) == [i \in Ids |-> IF \E t \in Threads : conn[t] = i THEN h[i] ELSE None]
Free == {i \in Ids : i # cached /\ \A t \in Threads : conn[t] # i}

\* add_dc and test_dc answer an error where the others raise.
Fails(t) == Goto(t, IF call[t].tool \in {"add_dc", "test_dc"} THEN "error" ELSE "raised")

-----------------------------------------------------------------------------
\* With or without a controller from the environment.
Init ==
    /\ lock = None
    /\ ldap \in Settings \cup {None} /\ winrm = ldap
    /\ cached = None
    /\ heap = [i \in Ids |-> None]
    /\ pc = [t \in Threads |-> "idle"]
    /\ call = [t \in Threads |-> NoCall]
    /\ conn = [t \in Threads |-> None]
    /\ cookie = [t \in Threads |-> 1]

FirstStep(c) ==
    CASE c.tool = "add_dc" -> "ldapAdd" [] c.tool = "remove_dc" -> "ldapRemove"
      [] c.tool = "list_dcs" -> "names" [] c.tool = "delete_object" -> "get"
      [] c.tool = "list_dns_zones" -> "command"
      [] OTHER -> "config"

Submit(t) ==
    /\ pc[t] = "idle"
    /\ \E c \in Calls : call' = [call EXCEPT ![t] = c] /\ Goto(t, FirstStep(c))
    /\ UNCHANGED <<pools, conn, cookie>>

\* Faulty variant: the connection made with the old settings stays.
LdapAddOnly(t) ==
    /\ pc[t] = "ldapAdd" /\ lock = None
    /\ ldap' = call[t].settings
    /\ Goto(t, "winrmAdd")
    /\ UNCHANGED <<lock, winrm, cached, heap, work>>

\* LDAPPool.add_dc forgets the connection without closing it.
LdapAdd(t) ==
    /\ pc[t] = "ldapAdd" /\ lock = None
    /\ ldap' = call[t].settings
    /\ cached' = None /\ heap' = Released(heap)
    /\ Goto(t, "winrmAdd")
    /\ UNCHANGED <<lock, winrm, work>>

WinRMAdd(t) ==
    /\ pc[t] = "winrmAdd"
    /\ winrm' = call[t].settings
    /\ Goto(t, "get")
    /\ UNCHANGED <<lock, ldap, cached, heap, work>>

Unbound == Released(IF cached = None THEN heap ELSE [heap EXCEPT ![cached].bound = FALSE])

\* Faulty variant: the settings are removed, and not the connection.
LdapRemoveConfig(t) ==
    /\ pc[t] = "ldapRemove" /\ lock = None
    /\ ldap' = None
    /\ Goto(t, "winrmRemove")
    /\ UNCHANGED <<lock, winrm, cached, heap, work>>

LdapRemove(t) ==
    /\ pc[t] = "ldapRemove" /\ lock = None
    /\ ldap' = None
    /\ heap' = Unbound
    /\ cached' = None
    /\ Goto(t, "winrmRemove")
    /\ UNCHANGED <<lock, winrm, work>>

\* Faulty variant: the second registry is left alone.
WinRMRemoveNot(t) ==
    /\ pc[t] = "winrmRemove"
    /\ Goto(t, "ok")
    /\ UNCHANGED <<pools, work>>

WinRMRemove(t) ==
    /\ pc[t] = "winrmRemove"
    /\ winrm' = None
    /\ Goto(t, "ok")
    /\ UNCHANGED <<lock, ldap, cached, heap, work>>

\* get_config, and list_dcs.
Config(t) ==
    /\ pc[t] \in {"config", "names"} /\ lock = None
    /\ IF pc[t] = "names" THEN Goto(t, "ok")
       ELSE IF ldap = None THEN Fails(t)
       ELSE Goto(t, IF call[t].tool = "create_user" THEN "command" ELSE "get")
    /\ UNCHANGED <<pools, work>>

\* get_connection.  The lock is kept for the bind.
Get(t) ==
    /\ pc[t] = "get" /\ lock = None
    /\ \/ /\ ldap = None
          /\ Fails(t)
          /\ UNCHANGED <<pools, conn>>
       \/ /\ ldap # None /\ cached # None /\ heap[cached].bound
          /\ conn' = [conn EXCEPT ![t] = cached]
          /\ Goto(t, "use")
          /\ UNCHANGED pools
       \/ /\ ldap # None /\ (cached # None => ~heap[cached].bound)
          /\ lock' = t
          /\ heap' = Unbound
          /\ cached' = None
          /\ Goto(t, "bind")
          /\ UNCHANGED <<registries, conn>>
    /\ UNCHANGED <<call, cookie>>

Bind(t) ==
    /\ pc[t] = "bind"
    /\ \E new \in Free :
          /\ \A i \in Free : new <= i
          /\ heap' = [heap EXCEPT ![new] = New(ldap)]
          /\ cached' = new
          /\ conn' = [conn EXCEPT ![t] = new]
    /\ lock' = None
    /\ Goto(t, "use")
    /\ UNCHANGED <<registries, call, cookie>>

\* Faulty variant: a bind that raises keeps the lock.
BindFailsLocked(t) ==
    /\ pc[t] = "bind"
    /\ Fails(t)
    /\ UNCHANGED <<pools, work>>

\* The name or the password is wrong, or the controller does not answer.
BindFails(t) ==
    /\ pc[t] = "bind"
    /\ lock' = None
    /\ Fails(t)
    /\ UNCHANGED <<registries, cached, heap, work>>

-----------------------------------------------------------------------------
(* What the connection is used for *)

\* add_dc reads what the bind has learnt; the others search, modify or delete, which
\* replaces the entries and the result that all workers see.
Use(t) ==
    /\ pc[t] = "use" /\ call[t].tool # "list_users"
    /\ \/ call[t].tool = "add_dc" /\ heap' = heap
       \/ /\ call[t].tool # "add_dc" /\ heap[conn[t]].bound
          /\ heap' = [heap EXCEPT ![conn[t]].page = 0]
    /\ Goto(t, "ok")
    /\ UNCHANGED <<lock, registries, cached, work>>

\* The connection is dead or has been unbound by another call, and the operation raises.
UseFails(t) ==
    /\ pc[t] = "use" /\ call[t].tool # "add_dc"
    /\ Fails(t)
    /\ UNCHANGED <<pools, work>>

\* The controller refuses: ldap3 raises nothing, and what the connection has then is a result
\* code, no entries and no cookie.  get_user finds nobody and raises; delete_object looks at the
\* code; test_dc does not, and answers as in Use.
UseRefused(t) ==
    /\ pc[t] = "use" /\ call[t].tool \in {"get_user", "delete_object"} /\ heap[conn[t]].bound
    /\ heap' = [heap EXCEPT ![conn[t]].page = 0]
    /\ Goto(t, IF call[t].tool = "delete_object" THEN "error" ELSE "raised")
    /\ UNCHANGED <<lock, registries, cached, work>>

\* One page of users: the search, the entries, and the cookie are three steps.  list_users
\* does not look at the result code of a page that the controller refuses.
SearchPage(t) ==
    /\ pc[t] = "use" /\ call[t].tool = "list_users" /\ heap[conn[t]].bound
    /\ \E page \in {cookie[t], 0} : heap' = [heap EXCEPT ![conn[t]].page = page]
    /\ Goto(t, "entries")
    /\ UNCHANGED <<lock, registries, cached, work>>

\* The entries are added to the list that is the answer.
ReadEntries(t) ==
    /\ pc[t] = "entries"
    /\ Goto(t, "cookie")
    /\ UNCHANGED <<pools, work>>

\* Faulty variant: one page is all.
ReadCookieNot(t) ==
    /\ pc[t] = "cookie"
    /\ Goto(t, "ok")
    /\ UNCHANGED <<pools, work>>

ReadCookie(t) ==
    /\ pc[t] = "cookie"
    /\ LET last == heap[conn[t]].page
       IN IF last \in {0, Pages} THEN Goto(t, "ok") /\ UNCHANGED cookie
          ELSE Goto(t, "use") /\ cookie' = [cookie EXCEPT ![t] = last + 1]
    /\ UNCHANGED <<pools, call, conn>>

\* WinRMPool.run_ps opens a session of its own with the settings it finds.
Command(t) ==
    /\ pc[t] = "command"
    /\ \E answer \in IF winrm = None THEN {"raised"} ELSE {"ok", "error", "raised"} :
          Goto(t, answer)
    /\ UNCHANGED <<pools, work>>

Answers == {"ok", "error", "raised"}
Return(t) ==
    /\ pc[t] \in Answers
    /\ Goto(t, "idle")
    /\ call' = [call EXCEPT ![t] = NoCall]
    /\ conn' = [conn EXCEPT ![t] = None]
    /\ cookie' = [cookie EXCEPT ![t] = 1]
    /\ heap' = [i \in Ids |-> IF i = cached \/ \E u \in Threads \ {t} : conn[u] = i THEN heap[i] ELSE None]
    /\ UNCHANGED <<lock, registries, cached>>

\* The controller, or the network, drops the connection.
Dies == \E i \in Ids \ Free :
    /\ heap[i].bound
    /\ heap' = [heap EXCEPT ![i].bound = FALSE]
    /\ UNCHANGED <<lock, registries, cached, pc, work>>

Step(t) ==
    \/ LdapAdd(t) \/ WinRMAdd(t) \/ LdapRemove(t) \/ WinRMRemove(t) \/ Config(t)
    \/ Get(t) \/ Bind(t) \/ BindFails(t) \/ Use(t) \/ UseFails(t) \/ UseRefused(t)
    \/ SearchPage(t) \/ ReadEntries(t) \/ ReadCookie(t) \/ Command(t) \/ Return(t)

\* Nobody has to call.
Next == Dies \/ \E t \in Threads : Submit(t) \/ Step(t)
Spec == Init /\ [][Next]_vars

-----------------------------------------------------------------------------
Labels == {"idle", "ldapAdd", "winrmAdd", "ldapRemove", "winrmRemove", "names", "config",
           "get", "bind", "use", "entries", "cookie", "command"} \cup Answers

TypeOK ==
    /\ lock \in Threads \cup {None}
    /\ ldap \in Settings \cup {None} /\ winrm \in Settings \cup {None}
    /\ cached \in Ids \cup {None}
    /\ heap \in [Ids -> Connections \cup {None}]
    /\ pc \in [Threads -> Labels]
    /\ call \in [Threads -> Calls \cup {NoCall}]
    /\ conn \in [Threads -> Ids \cup {None}]
    /\ cookie \in [Threads -> 1..Pages]

\* The lock is held for a bind and for nothing else; a worker has a connection when it uses
\* one; and it is where its tool leads.
StageOK ==
    \A t \in Threads :
       /\ lock = t <=> pc[t] = "bind"
       /\ pc[t] = "bind" => cached = None /\ ldap # None
       /\ conn[t] # None => heap[conn[t]] # None
       /\ pc[t] \in {"use", "entries", "cookie"} => conn[t] # None
       /\ pc[t] \in {"ldapAdd", "winrmAdd"} => call[t].tool = "add_dc"
       /\ pc[t] \in {"entries", "cookie"} => call[t].tool = "list_users"
       /\ call[t].tool = "add_dc" =>
             pc[t] \in {"ldapAdd", "winrmAdd", "get", "bind", "use"} \cup Answers
       /\ call[t].tool = "remove_dc" => pc[t] \in {"ldapRemove", "winrmRemove"} \cup Answers
       /\ call[t].tool = "list_users" =>
             pc[t] \in {"config", "get", "bind", "use", "entries", "cookie"} \cup Answers
       /\ pc[t] \notin {"use", "entries", "cookie"} \cup Answers => cookie[t] = 1

\* The registry keeps a connection only of a controller it has, made with its settings.
CacheOK == cached # None => heap[cached] # None /\ heap[cached].settings = ldap

PoolsInv == TypeOK /\ StageOK /\ CacheOK

\* LDAPPool implements the abstract registry of one host: connections are made with the
\* present settings, and neither add_dc nor remove_dc leaves an old one to be used.
Registry == INSTANCE CachedConnections WITH
    Hosts <- {"dc"},
    Configs <- Settings,
    KeepsConnection <- FALSE,
    config <- [h \in {"dc"} |-> ldap],
    serving <- [h \in {"dc"} |-> IF cached # None /\ heap[cached].bound THEN heap[cached].settings
                                 ELSE None]

ImplementsRegistry == Registry!Spec

-----------------------------------------------------------------------------
\* Every call ends, and with it the lock is free, once calls stop coming: a bind ends
\* (connect_timeout 4 s, receive_timeout 6 s), every worker that waits for the lock gets it,
\* and the pages of a list come to an end although the cookies may be another worker's.
CallsDrain ==
    <>[][\A t \in Threads : pc[t] = "idle" => pc'[t] = "idle"]_vars
        => <>[](lock = None /\ \A t \in Threads : pc[t] = "idle")
=============================================================================
