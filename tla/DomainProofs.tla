---------------------------- MODULE DomainProofs ----------------------------
(***************************************************************************)
(* Proofs about DomainPools and DomainHistory: for any finite set of       *)
(* workers, any settings, any number of pages and any of the tools.        *)
(***************************************************************************)
EXTENDS DomainHistory, FiniteSetTheorems, TLAPS

USE PoolsAssumption, NoneAssumption

\* No connection object is None.
LEMMA IdsFact == None \notin Ids
  BY FS_CardinalityType DEF Ids

\* What a step does to a connection object keeps it one, with its settings.
LEMMA ConnectionFact ==
    /\ \A c \in Connections : /\ c # None
                              /\ [c EXCEPT !.bound = FALSE] \in Connections
                              /\ [c EXCEPT !.bound = FALSE].settings = c.settings
                              /\ [c EXCEPT !.bound = FALSE].page = c.page
    /\ \A c \in Connections, p \in 0..Pages :
                              /\ [c EXCEPT !.page = p] \in Connections
                              /\ [c EXCEPT !.page = p].settings = c.settings
                              /\ [c EXCEPT !.page = p].page = p
    /\ \A s \in Settings : New(s) \in Connections /\ New(s).settings = s
  <1>1. \A c \in Connections : c # None
    OBVIOUS
  <1>2. \A c \in Connections : /\ [c EXCEPT !.bound = FALSE] \in Connections
                               /\ [c EXCEPT !.bound = FALSE].settings = c.settings
                               /\ [c EXCEPT !.bound = FALSE].page = c.page
    BY DEF Connections
  <1>3. \A c \in Connections, p \in 0..Pages :
                               /\ [c EXCEPT !.page = p] \in Connections
                               /\ [c EXCEPT !.page = p].settings = c.settings
                               /\ [c EXCEPT !.page = p].page = p
    BY DEF Connections
  <1>4. \A s \in Settings : New(s) \in Connections /\ New(s).settings = s
    BY DEF Connections, New
  <1> QED
    BY <1>1, <1>2, <1>3, <1>4

\* A registry's connection and a worker's are objects that exist.
LEMMA InHands ==
  ASSUME PoolsInv
  PROVE  /\ cached # None => cached \in Ids /\ heap[cached] \in Connections
         /\ \A t \in Threads : conn[t] # None => conn[t] \in Ids /\ heap[conn[t]] \in Connections
  BY DEF PoolsInv, TypeOK, StageOK, CacheOK

\* Whoever holds an object keeps it, whatever is released.
LEMMA ReleasedFact ==
  ASSUME TypeOK, NEW h \in [Ids -> Connections \cup {None}]
  PROVE  /\ Released(h) \in [Ids -> Connections \cup {None}]
         /\ \A t \in Threads : conn[t] # None => Released(h)[conn[t]] = h[conn[t]]
  BY DEF Released, TypeOK

LEMMA UnboundFact ==
  ASSUME PoolsInv
  PROVE  /\ Unbound \in [Ids -> Connections \cup {None}]
         /\ \A t \in Threads : conn[t] # None =>
               /\ Unbound[conn[t]] \in Connections
               /\ Unbound[conn[t]].settings = heap[conn[t]].settings
  <1> DEFINE h == IF cached = None THEN heap ELSE [heap EXCEPT ![cached].bound = FALSE]
  <1>1. CASE cached = None
    BY <1>1, ReleasedFact, InHands DEF PoolsInv, TypeOK, Unbound
  <1>2. CASE cached # None
    <2>1. cached \in Ids /\ heap[cached] \in Connections
      BY <1>2, InHands
    <2>2. /\ [heap[cached] EXCEPT !.bound = FALSE] \in Connections
          /\ [heap[cached] EXCEPT !.bound = FALSE].settings = heap[cached].settings
      BY <2>1, ConnectionFact
    <2>3. h = [heap EXCEPT ![cached] = [heap[cached] EXCEPT !.bound = FALSE]]
      BY <1>2
    <2> HIDE DEF h
    <2>4. h \in [Ids -> Connections \cup {None}]
      BY <2>1, <2>2, <2>3 DEF PoolsInv, TypeOK
    <2>5. \A t \in Threads : conn[t] # None =>
             h[conn[t]] \in Connections /\ h[conn[t]].settings = heap[conn[t]].settings
      BY <2>1, <2>2, <2>3, InHands DEF PoolsInv, TypeOK
    <2>6. Unbound = Released(h)
      BY DEF Unbound, h
    <2> QED
      BY <2>4, <2>5, <2>6, ReleasedFact DEF PoolsInv
  <1> QED
    BY <1>1, <1>2

-----------------------------------------------------------------------------
\* What a worker may do: a call is given to it, or goes on.
Acts(t) == Submit(t) \/ Step(t)

\* Steps that leave the connections alone.
Idly(t) == \/ Submit(t) \/ WinRMAdd(t) \/ WinRMRemove(t) \/ Config(t) \/ BindFails(t)
           \/ UseFails(t) \/ ReadEntries(t) \/ ReadCookie(t) \/ Command(t)

LEMMA IdlyFact ==
  ASSUME NEW t \in Threads, Idly(t)
  PROVE  UNCHANGED <<ldap, cached, heap, conn>>
  BY DEF Idly, Submit, WinRMAdd, WinRMRemove, Config, BindFails, UseFails, ReadEntries, ReadCookie,
         Command, Goto, Fails, pools, registries, work

\* What a step leaves in a worker's hands, or in the registry, has the settings it had.
Kept(i) == heap'[i] \in Connections /\ heap'[i].settings = heap[i].settings
HeapKept ==
    /\ heap' \in [Ids -> Connections \cup {None}]
    /\ \A u \in Threads : conn[u] # None /\ conn'[u] = conn[u] => Kept(conn[u])
    /\ cached # None /\ cached' = cached => Kept(cached)

LEMMA BindFact ==
  ASSUME PoolsInv, NEW t \in Threads, Bind(t)
  PROVE  /\ HeapKept
         /\ cached' \in Ids /\ heap'[cached'] = New(ldap) /\ New(ldap) \in Connections
         /\ conn' = [conn EXCEPT ![t] = cached']
         /\ \A u \in Threads : conn[u] # cached'
  <1>1. PICK new \in Free : /\ heap' = [heap EXCEPT ![new] = New(ldap)]
                            /\ cached' = new
                            /\ conn' = [conn EXCEPT ![t] = new]
    BY DEF Bind
  <1>2. new \in Ids /\ \A u \in Threads : conn[u] # new
    BY DEF Free
  <1>3. cached = None /\ ldap \in Settings
    BY DEF PoolsInv, StageOK, TypeOK, Bind
  <1>4. New(ldap) \in Connections
    BY <1>3, ConnectionFact
  <1>5. heap' \in [Ids -> Connections \cup {None}] /\ heap'[new] = New(ldap)
    BY <1>1, <1>2, <1>4 DEF PoolsInv, TypeOK
  <1>6. \A u \in Threads : conn[u] # None => heap'[conn[u]] = heap[conn[u]]
    BY <1>1, <1>2 DEF PoolsInv, TypeOK
  <1>7. HeapKept
    BY <1>3, <1>5, <1>6, InHands DEF HeapKept, Kept
  <1> QED
    BY <1>1, <1>2, <1>4, <1>5, <1>7

LEMMA HeapStep ==
  ASSUME PoolsInv, [Next]_vars
  PROVE  HeapKept
  <1> USE InHands DEF HeapKept, Kept
  <1>1. CASE UNCHANGED vars
    BY <1>1 DEF vars, pools, work, PoolsInv, TypeOK
  <1>2. ASSUME NEW t \in Threads, Idly(t) PROVE HeapKept
    BY <1>2, IdlyFact DEF PoolsInv, TypeOK
  <1>3. ASSUME NEW t \in Threads, LdapAdd(t) PROVE HeapKept
    <2>1. heap' = Released(heap) /\ conn' = conn /\ cached' = None
      BY <1>3 DEF LdapAdd, work
    <2> QED
      BY <2>1, ReleasedFact DEF PoolsInv, TypeOK
  <1>4. ASSUME NEW t \in Threads, LdapRemove(t) PROVE HeapKept
    <2>1. heap' = Unbound /\ conn' = conn /\ cached' = None
      BY <1>4 DEF LdapRemove, work
    <2> QED
      BY <2>1, UnboundFact
  <1>5. ASSUME NEW t \in Threads, Get(t) PROVE HeapKept
    <2>1. \/ UNCHANGED <<heap, cached>>
          \/ heap' = Unbound /\ conn' = conn /\ cached' = None
      BY <1>5 DEF Get, pools
    <2> QED
      BY <2>1, UnboundFact DEF PoolsInv, TypeOK
  <1>6. ASSUME NEW t \in Threads, Bind(t) PROVE HeapKept
    BY <1>6, BindFact
  <1>7. ASSUME NEW t \in Threads, Use(t) \/ UseRefused(t) \/ SearchPage(t) PROVE HeapKept
    <2>1. conn[t] # None /\ cookie[t] \in 0..Pages /\ 0 \in 0..Pages
      BY <1>7 DEF Use, UseRefused, SearchPage, PoolsInv, StageOK, TypeOK
    <2>2. PICK p \in 0..Pages : \/ heap' = heap
                                \/ heap' = [heap EXCEPT ![conn[t]] = [heap[conn[t]] EXCEPT !.page = p]]
      BY <1>7, <2>1 DEF Use, UseRefused, SearchPage
    <2>3. conn[t] \in Ids /\ heap[conn[t]] \in Connections
      BY <2>1
    <2>4. /\ [heap[conn[t]] EXCEPT !.page = p] \in Connections
          /\ [heap[conn[t]] EXCEPT !.page = p].settings = heap[conn[t]].settings
      BY <2>3, ConnectionFact
    <2> DEFINE c == [heap[conn[t]] EXCEPT !.page = p]
    <2> HIDE DEF c
    <2>5. \/ heap' = heap
          \/ heap' = [heap EXCEPT ![conn[t]] = c]
      BY <2>2 DEF c
    <2>6. c \in Connections /\ c.settings = heap[conn[t]].settings
      BY <2>4 DEF c
    <2> QED
      BY <2>3, <2>5, <2>6 DEF PoolsInv, TypeOK
  <1>8. ASSUME NEW t \in Threads, Return(t) PROVE HeapKept
    <2>1. /\ conn' = [conn EXCEPT ![t] = None]
          /\ heap' = [i \in Ids |-> IF i = cached \/ \E u \in Threads \ {t} : conn[u] = i
                                   THEN heap[i] ELSE None]
      BY <1>8 DEF Return
    <2> QED
      BY <2>1 DEF PoolsInv, TypeOK
  <1>9. ASSUME Dies PROVE HeapKept
    <2>1. PICK i \in Ids \ Free : heap' = [heap EXCEPT ![i] = [heap[i] EXCEPT !.bound = FALSE]]
      BY <1>9 DEF Dies
    <2>2. heap[i] \in Connections
      BY <2>1, IdsFact DEF Free
    <2> DEFINE c == [heap[i] EXCEPT !.bound = FALSE]
    <2>3. c \in Connections /\ c.settings = heap[i].settings
      BY <2>2, ConnectionFact
    <2> HIDE DEF c
    <2>4. heap' = [heap EXCEPT ![i] = c]
      BY <2>1 DEF c
    <2> QED
      BY <2>3, <2>4 DEF PoolsInv, TypeOK
  <1> QED
    BY <1>1, <1>2, <1>3, <1>4, <1>5, <1>6, <1>7, <1>8, <1>9 DEF Next, Acts, Step, Idly

-----------------------------------------------------------------------------
LEMMA InitPools == Init => PoolsInv
  <1> SUFFICES ASSUME Init PROVE PoolsInv
    OBVIOUS
  <1>1. TypeOK
    BY DEF Init, TypeOK, Labels
  <1>2. StageOK /\ CacheOK
    BY DEF Init, StageOK, CacheOK, NoCall, Answers
  <1> QED
    BY <1>1, <1>2 DEF PoolsInv

\* Every action keeps the types of the variables.
LEMMA TypeStep ==
  ASSUME PoolsInv, [Next]_vars
  PROVE  TypeOK'
  <1>1. heap' \in [Ids -> Connections \cup {None}]
    BY HeapStep DEF HeapKept
  <1> USE <1>1 DEF PoolsInv, TypeOK, Goto, Fails, pools, registries, work
  <1>2. CASE UNCHANGED vars
    BY <1>2 DEF vars
  <1>3. ASSUME NEW t \in Threads, Submit(t) PROVE TypeOK'
    BY <1>3 DEF Submit, FirstStep, Labels
  <1>4. ASSUME NEW t \in Threads, LdapAdd(t) \/ WinRMAdd(t) PROVE TypeOK'
    <2>1. call[t].settings \in Settings
      BY <1>4 DEF LdapAdd, WinRMAdd, StageOK, Calls, NoCall
    <2> QED
      BY <1>4, <2>1 DEF LdapAdd, WinRMAdd, Labels
  <1>5. ASSUME NEW t \in Threads, LdapRemove(t) \/ WinRMRemove(t) PROVE TypeOK'
    BY <1>5 DEF LdapRemove, WinRMRemove, Labels, Answers
  <1>6. ASSUME NEW t \in Threads, Config(t) \/ Command(t) PROVE TypeOK'
    BY <1>6 DEF Config, Command, Labels, Answers
  <1>7. ASSUME NEW t \in Threads, Get(t) PROVE TypeOK'
    BY <1>7 DEF Get, Labels, Answers
  <1>8. ASSUME NEW t \in Threads, Bind(t) PROVE TypeOK'
    BY <1>8, BindFact DEF Bind, Labels
  <1>9. ASSUME NEW t \in Threads, BindFails(t) \/ UseFails(t) \/ UseRefused(t) PROVE TypeOK'
    BY <1>9 DEF BindFails, UseFails, UseRefused, Labels, Answers
  <1>10. ASSUME NEW t \in Threads, Use(t) \/ SearchPage(t) \/ ReadEntries(t) PROVE TypeOK'
    BY <1>10 DEF Use, SearchPage, ReadEntries, Labels, Answers
  <1>11. ASSUME NEW t \in Threads, ReadCookie(t) PROVE TypeOK'
    <2>1. heap[conn[t]].page \in 0..Pages
      BY <1>11, InHands DEF ReadCookie, StageOK, Connections
    <2>2. heap[conn[t]].page \notin {0, Pages} => heap[conn[t]].page + 1 \in 1..Pages
      BY <2>1
    <2>3. cookie' \in [Threads -> 1..Pages]
      BY <1>11, <2>2 DEF ReadCookie
    <2> QED
      BY <1>11, <2>3 DEF ReadCookie, Labels, Answers
  <1>12. ASSUME NEW t \in Threads, Return(t) PROVE TypeOK'
    BY <1>12 DEF Return, Labels
  <1>13. ASSUME Dies PROVE TypeOK'
    BY <1>13 DEF Dies
  <1> QED
    BY <1>2, <1>3, <1>4, <1>5, <1>6, <1>7, <1>8, <1>9, <1>10, <1>11, <1>12, <1>13 DEF Next, Acts, Step

\* Where a call begins.
LEMMA FirstStepFact ==
  ASSUME NEW c
  PROVE  /\ c.tool = "add_dc" => FirstStep(c) = "ldapAdd"
         /\ c.tool = "remove_dc" => FirstStep(c) = "ldapRemove"
         /\ c.tool = "list_users" => FirstStep(c) = "config"
         /\ c.tool \notin {"add_dc", "remove_dc"} =>
               FirstStep(c) \in {"names", "get", "command", "config"}
  BY Zenon DEF FirstStep

\* What a step of `t` leaves as it was: what concerns the calls of the others.
Aside(t) == \A u \in Threads \ {t} :
    /\ pc'[u] = pc[u] /\ call'[u] = call[u] /\ conn'[u] = conn[u] /\ cookie'[u] = cookie[u]

LEMMA AsideFact ==
  ASSUME PoolsInv, NEW t \in Threads, Acts(t)
  PROVE  Aside(t)
  <1> USE DEF Aside, PoolsInv, TypeOK, Goto, Fails, work, pools
  <1>1. CASE Submit(t)
    BY <1>1 DEF Submit
  <1>2. CASE LdapAdd(t) \/ WinRMAdd(t) \/ LdapRemove(t) \/ WinRMRemove(t) \/ Config(t)
    BY <1>2 DEF LdapAdd, WinRMAdd, LdapRemove, WinRMRemove, Config
  <1>3. CASE Get(t)
    BY <1>3 DEF Get
  <1>4. CASE Bind(t)
    BY <1>4 DEF Bind
  <1>5. CASE BindFails(t) \/ Use(t) \/ UseFails(t) \/ UseRefused(t)
    BY <1>5 DEF BindFails, Use, UseFails, UseRefused
  <1>8. CASE SearchPage(t) \/ ReadEntries(t) \/ Command(t)
    BY <1>8 DEF SearchPage, ReadEntries, Command
  <1>6. CASE ReadCookie(t)
    BY <1>6 DEF ReadCookie
  <1>7. CASE Return(t)
    BY <1>7 DEF Return
  <1> QED
    BY <1>1, <1>2, <1>3, <1>4, <1>5, <1>6, <1>7, <1>8 DEF Acts, Step

\* The parts of StageOK about the lock, the connections and the tool.
Locks(t) == /\ lock = t <=> pc[t] = "bind"
            /\ pc[t] = "bind" => cached = None /\ ldap # None
Holds(t) == /\ conn[t] # None => heap[conn[t]] # None
            /\ pc[t] \in {"use", "entries", "cookie"} => conn[t] # None
Leads(t) ==
    /\ pc[t] \in {"ldapAdd", "winrmAdd"} => call[t].tool = "add_dc"
    /\ pc[t] \in {"entries", "cookie"} => call[t].tool = "list_users"
    /\ call[t].tool = "add_dc" => pc[t] \in {"ldapAdd", "winrmAdd", "get", "bind", "use"} \cup Answers
    /\ call[t].tool = "remove_dc" => pc[t] \in {"ldapRemove", "winrmRemove"} \cup Answers
    /\ call[t].tool = "list_users" =>
          pc[t] \in {"config", "get", "bind", "use", "entries", "cookie"} \cup Answers
    /\ pc[t] \notin {"use", "entries", "cookie"} \cup Answers => cookie[t] = 1

LEMMA StageParts == StageOK <=> \A t \in Threads : Locks(t) /\ Holds(t) /\ Leads(t)
  BY DEF StageOK, Locks, Holds, Leads

\* The lock is taken for a bind and given back after it; only its holder changes what
\* the bind is going to use.
LEMMA LocksStep ==
  ASSUME PoolsInv, NEW t \in Threads, Acts(t)
  PROVE  \A u \in Threads : Locks(u)'
  <1> SUFFICES ASSUME NEW u \in Threads PROVE Locks(u)'
    OBVIOUS
  <1>0. \A w \in Threads : Locks(w)
    BY StageParts DEF PoolsInv
  <1>1. u # t => pc'[u] = pc[u]
    BY AsideFact DEF Aside
  <1> USE <1>0, <1>1 DEF Locks, PoolsInv, TypeOK, Goto, Fails, work, pools, registries
  <1>2. CASE Submit(t)
    <2>1. FirstStep(call'[t]) # "bind"
      BY FirstStepFact
    <2> QED
      BY <1>2, <2>1 DEF Submit
  <1>3. CASE LdapAdd(t) \/ LdapRemove(t)
    BY <1>3 DEF LdapAdd, LdapRemove
  <1>4. CASE WinRMAdd(t) \/ WinRMRemove(t) \/ Config(t) \/ Command(t)
    BY <1>4 DEF WinRMAdd, WinRMRemove, Config, Command
  <1>5. CASE Get(t)
    BY <1>5 DEF Get
  <1>6. CASE Bind(t)
    BY <1>6 DEF Bind
  <1>7. CASE BindFails(t)
    BY <1>7 DEF BindFails
  <1>8. CASE Use(t) \/ UseFails(t) \/ UseRefused(t) \/ SearchPage(t) \/ ReadEntries(t) \/ ReadCookie(t)
    BY <1>8 DEF Use, UseFails, UseRefused, SearchPage, ReadEntries, ReadCookie
  <1>9. CASE Return(t)
    BY <1>9 DEF Return, Answers
  <1> QED
    BY <1>2, <1>3, <1>4, <1>5, <1>6, <1>7, <1>8, <1>9 DEF Acts, Step

\* Whoever uses a connection has one, and nothing takes it away.
LEMMA HoldsStep ==
  ASSUME PoolsInv, NEW t \in Threads, Acts(t), Next
  PROVE  \A u \in Threads : Holds(u)'
  <1> SUFFICES ASSUME NEW u \in Threads PROVE Holds(u)'
    OBVIOUS
  <1>0. Holds(u) /\ Holds(t)
    BY StageParts DEF PoolsInv
  <1>1. u # t => pc'[u] = pc[u] /\ conn'[u] = conn[u]
    BY AsideFact DEF Aside
  <1>2. conn[u] # None /\ conn'[u] = conn[u] => heap'[conn[u]] # None
    BY HeapStep, ConnectionFact DEF HeapKept, Kept
  <1>3. CASE u # t
    BY <1>0, <1>1, <1>2, <1>3 DEF Holds
  <1>4. CASE u = t
    <2> USE <1>0, <1>2, <1>4 DEF Holds, PoolsInv, TypeOK, Goto, Fails, work, pools
    <2>1. CASE Submit(t)
      <3>1. FirstStep(call'[t]) \notin {"use", "entries", "cookie"}
        BY FirstStepFact
      <3> QED
        BY <2>1, <3>1 DEF Submit
    <2>2. CASE LdapAdd(t) \/ WinRMAdd(t) \/ LdapRemove(t) \/ WinRMRemove(t) \/ Config(t) \/ Command(t)
      BY <2>2 DEF LdapAdd, WinRMAdd, LdapRemove, WinRMRemove, Config, Command
    <2>3. CASE Get(t)
      <3>1. \/ conn' = [conn EXCEPT ![t] = cached] /\ cached # None /\ heap' = heap
            \/ conn' = conn /\ pc'[t] \notin {"use", "entries", "cookie"}
        BY <2>3 DEF Get
      <3> QED
        BY <3>1, InHands, ConnectionFact
    <2>4. CASE Bind(t)
      <3>1. /\ conn'[t] = cached' /\ cached' \in Ids /\ heap'[cached'] \in Connections
            /\ pc'[t] = "use"
        BY <2>4, BindFact DEF Bind
      <3> QED
        BY <3>1, IdsFact, ConnectionFact
    <2>5. CASE BindFails(t) \/ UseFails(t) \/ UseRefused(t)
      BY <2>5 DEF BindFails, UseFails, UseRefused
    <2>6. CASE Use(t) \/ SearchPage(t) \/ ReadEntries(t) \/ ReadCookie(t)
      BY <2>6 DEF Use, SearchPage, ReadEntries, ReadCookie
    <2>7. CASE Return(t)
      BY <2>7 DEF Return
    <2> QED
      BY <2>1, <2>2, <2>3, <2>4, <2>5, <2>6, <2>7 DEF Acts, Step
  <1> QED
    BY <1>3, <1>4

\* A worker is where its tool leads.
LEMMA LeadsStep ==
  ASSUME PoolsInv, NEW t \in Threads, Acts(t)
  PROVE  \A u \in Threads : Leads(u)'
  <1>1. \A u \in Threads \ {t} : Leads(u)'
    BY AsideFact, StageParts DEF Aside, Leads, PoolsInv
  <1>2. Leads(t)'
    <2>0. Leads(t)
      BY StageParts DEF PoolsInv
    <2> USE <2>0 DEF Leads, PoolsInv, TypeOK, Goto, Fails, work, pools, Answers
    <2>1. CASE Submit(t)
      <3>1. PICK c \in Calls : /\ call' = [call EXCEPT ![t] = c]
                               /\ pc' = [pc EXCEPT ![t] = FirstStep(c)]
                               /\ cookie' = cookie /\ pc[t] = "idle"
        BY <2>1 DEF Submit
      <3>2. call'[t] = c /\ pc'[t] = FirstStep(c) /\ cookie'[t] = 1
        BY <3>1
      <3> QED
        BY <3>2, FirstStepFact
    <2>2. CASE LdapAdd(t) \/ WinRMAdd(t) \/ LdapRemove(t) \/ WinRMRemove(t) \/ Command(t)
      BY <2>2 DEF LdapAdd, WinRMAdd, LdapRemove, WinRMRemove, Command
    <2>3. CASE Config(t)
      BY <2>3 DEF Config
    <2>4. CASE Get(t)
      BY <2>4 DEF Get
    <2>5. CASE Bind(t) \/ BindFails(t)
      BY <2>5 DEF Bind, BindFails
    <2>6. CASE Use(t) \/ UseFails(t) \/ UseRefused(t) \/ SearchPage(t) \/ ReadEntries(t)
      BY <2>6 DEF Use, UseFails, UseRefused, SearchPage, ReadEntries
    <2>7. CASE ReadCookie(t)
      BY <2>7 DEF ReadCookie
    <2>8. CASE Return(t)
      BY <2>8 DEF Return, NoCall
    <2> QED
      BY <2>1, <2>2, <2>3, <2>4, <2>5, <2>6, <2>7, <2>8 DEF Acts, Step
  <1> QED
    BY <1>1, <1>2

\* The registry's connection goes with its settings.
LEMMA CacheStep ==
  ASSUME PoolsInv, [Next]_vars
  PROVE  CacheOK'
  <1>1. CASE UNCHANGED <<cached, ldap>>
    BY <1>1, HeapStep, ConnectionFact DEF PoolsInv, CacheOK, HeapKept, Kept
  <1>2. CASE cached' = None
    BY <1>2 DEF CacheOK
  <1>3. ASSUME NEW t \in Threads, Bind(t) PROVE CacheOK'
    <2>1. ldap \in Settings /\ ldap' = ldap
      BY <1>3 DEF Bind, PoolsInv, StageOK, TypeOK, registries
    <2> QED
      BY <1>3, <2>1, BindFact, ConnectionFact DEF CacheOK
  <1>4. ASSUME NEW t \in Threads, Acts(t), ~Bind(t)
        PROVE  UNCHANGED <<cached, ldap>> \/ cached' = None
    <2>1. Idly(t) => UNCHANGED <<cached, ldap>>
      BY IdlyFact
    <2>2. LdapAdd(t) \/ LdapRemove(t) => cached' = None
      BY DEF LdapAdd, LdapRemove
    <2>3. Get(t) \/ Use(t) \/ UseRefused(t) \/ SearchPage(t) \/ Return(t)
             => UNCHANGED <<cached, ldap>> \/ cached' = None
      BY DEF Get, Use, UseRefused, SearchPage, Return, registries, pools
    <2> QED
      BY <1>4, <2>1, <2>2, <2>3 DEF Acts, Step, Idly
  <1>5. CASE UNCHANGED vars
    BY <1>1, <1>5 DEF vars, pools, registries
  <1>6. CASE Dies
    BY <1>1, <1>6 DEF Dies, registries
  <1> QED
    BY <1>1, <1>2, <1>3, <1>4, <1>5, <1>6 DEF Next, Acts

\* A connection that dies, and a step of nobody, leave every call where it is.
LEMMA StageStep ==
  ASSUME PoolsInv, [Next]_vars
  PROVE  StageOK'
  <1>1. ASSUME NEW t \in Threads, Acts(t) PROVE StageOK'
    <2>1. Next
      BY <1>1 DEF Next, Acts
    <2>2. \A u \in Threads : Locks(u)' /\ Holds(u)' /\ Leads(u)'
      BY <1>1, <2>1, LocksStep, HoldsStep, LeadsStep
    <2> QED
      BY <2>2 DEF StageOK, Locks, Holds, Leads
  <1>2. CASE UNCHANGED vars \/ Dies
    <2>1. UNCHANGED <<lock, ldap, cached, pc, call, conn, cookie>>
      BY <1>2 DEF vars, Dies, pools, registries, work
    <2>2. \A u \in Threads : conn[u] # None => heap'[conn[u]] # None
      BY <2>1, HeapStep, ConnectionFact DEF HeapKept, Kept
    <2> QED
      BY <2>1, <2>2 DEF StageOK, PoolsInv
  <1> QED
    BY <1>1, <1>2 DEF Next, Acts

LEMMA PoolsStep == PoolsInv /\ [Next]_vars => PoolsInv'
  BY TypeStep, StageStep, CacheStep DEF PoolsInv

\* The types, the stages of a call and the registry of connections, for any finite set of
\* workers: the lock is held for a bind and for nothing else, and every connection that the
\* registry or a worker has exists and has settings that were registered.
THEOREM PoolsSafe == Spec => []PoolsInv
  <1> QED
    BY InitPools, PoolsStep, PTL DEF Spec

-----------------------------------------------------------------------------
\* LDAPPool implements CachedConnections: it connects with the present settings, and
\* add_dc and remove_dc leave no connection behind.
THEOREM RegistryRefinement == Spec => ImplementsRegistry
  <1> DEFINE config == [h \in {"dc"} |-> ldap]
             serves == IF cached # None /\ heap[cached].bound THEN heap[cached].settings ELSE None
             serving == [h \in {"dc"} |-> serves]
  <1>1. Init => Registry!Init
    BY DEF Init, Registry!Init
  <1>2. PoolsInv /\ [Next]_vars => [Registry!Next]_<<config, serving>>
    <2> SUFFICES ASSUME PoolsInv, [Next]_vars PROVE [Registry!Next]_<<config, serving>>
      OBVIOUS
    <2>1. ASSUME UNCHANGED ldap, UNCHANGED serves PROVE [Registry!Next]_<<config, serving>>
      BY <2>1
    <2>2. ASSUME UNCHANGED ldap, serves' = None PROVE Registry!Next
      <3>1. UNCHANGED config /\ serving' = [serving EXCEPT !["dc"] = None]
        BY <2>2
      <3> QED
        BY <3>1 DEF Registry!Next, Registry!Lose
    <2>3. ASSUME UNCHANGED <<ldap, cached>>,
                 cached # None => heap'[cached].bound = heap[cached].bound
          PROVE  [Registry!Next]_<<config, serving>>
      <3>1. cached # None => heap'[cached].settings = heap[cached].settings
        BY <2>3, HeapStep DEF HeapKept, Kept
      <3>2. UNCHANGED serves
        BY <2>3, <3>1
      <3> QED
        BY <2>1, <2>3, <3>2
    <2>4. ASSUME NEW t \in Threads, LdapAdd(t) PROVE Registry!Next
      <3>1. PICK s \in Settings : s = call[t].settings
        BY <2>4 DEF LdapAdd, PoolsInv, StageOK, TypeOK, Calls, NoCall
      <3>2. config' = [config EXCEPT !["dc"] = s] /\ serving' = [serving EXCEPT !["dc"] = None]
        BY <2>4, <3>1 DEF LdapAdd
      <3> QED
        BY <3>2 DEF Registry!Next, Registry!Register
    <2>5. ASSUME NEW t \in Threads, LdapRemove(t) PROVE Registry!Next
      <3>1. config' = [config EXCEPT !["dc"] = None] /\ serving' = [serving EXCEPT !["dc"] = None]
        BY <2>5 DEF LdapRemove
      <3> QED
        BY <3>1 DEF Registry!Next, Registry!Remove
    <2>6. ASSUME NEW t \in Threads, Bind(t) PROVE Registry!Next
      <3>1. cached = None /\ ldap \in Settings /\ ldap' = ldap
        BY <2>6 DEF Bind, PoolsInv, StageOK, TypeOK, registries
      <3>2. cached' # None /\ heap'[cached'] = New(ldap)
        BY <2>6, BindFact, IdsFact
      <3>3. serves = None /\ serves' = ldap
        BY <3>1, <3>2 DEF New
      <3>4. UNCHANGED config /\ serving["dc"] = None /\ config["dc"] # None
        BY <3>1, <3>3
      <3>5. serving' = [serving EXCEPT !["dc"] = config["dc"]]
        BY <3>3
      <3> QED
        BY <3>4, <3>5 DEF Registry!Next, Registry!Connect
    <2>7. ASSUME NEW t \in Threads, Get(t) PROVE [Registry!Next]_<<config, serving>>
      <3>1. UNCHANGED ldap /\ (UNCHANGED <<cached, heap>> \/ cached' = None)
        BY <2>7 DEF Get, registries, pools
      <3> QED
        BY <2>1, <2>2, <3>1
    <2>8. ASSUME NEW t \in Threads, Use(t) \/ UseRefused(t) \/ SearchPage(t)
          PROVE  [Registry!Next]_<<config, serving>>
      <3>1. UNCHANGED <<ldap, cached>> /\ conn[t] # None
        BY <2>8 DEF Use, UseRefused, SearchPage, registries, PoolsInv, StageOK
      <3>2. conn[t] \in Ids /\ heap[conn[t]] \in Connections
        BY <3>1, InHands
      <3>3. PICK p : heap' = heap \/ heap' = [heap EXCEPT ![conn[t]] = [heap[conn[t]] EXCEPT !.page = p]]
        BY <2>8 DEF Use, UseRefused, SearchPage
      <3>4. [heap[conn[t]] EXCEPT !.page = p].bound = heap[conn[t]].bound
        BY <3>2 DEF Connections
      <3>5. cached # None => heap'[cached].bound = heap[cached].bound
        BY <3>2, <3>3, <3>4, InHands DEF PoolsInv, TypeOK
      <3> QED
        BY <2>3, <3>1, <3>5
    <2>9. ASSUME NEW t \in Threads, Return(t) PROVE [Registry!Next]_<<config, serving>>
      <3>1. UNCHANGED <<ldap, cached>> /\ (cached # None => heap'[cached] = heap[cached])
        BY <2>9, InHands DEF Return, registries
      <3> QED
        BY <2>3, <3>1
    <2>10. ASSUME Dies PROVE [Registry!Next]_<<config, serving>>
      <3>1. PICK i \in Ids \ Free : /\ UNCHANGED <<ldap, cached>>
                                    /\ heap' = [heap EXCEPT ![i] = [heap[i] EXCEPT !.bound = FALSE]]
        BY <2>10 DEF Dies, registries
      <3>2. heap[i] \in Connections
        BY <3>1, IdsFact, InHands DEF Free
      <3>3. [heap[i] EXCEPT !.bound = FALSE].bound = FALSE
        BY <3>2 DEF Connections
      <3>4. CASE cached = i
        <4>1. heap'[cached].bound = FALSE
          BY <3>1, <3>3, <3>4 DEF PoolsInv, TypeOK
        <4> QED
          BY <2>2, <3>1, <4>1
      <3>5. CASE cached # i
        <4>1. cached # None => heap'[cached] = heap[cached]
          BY <3>1, <3>5, InHands DEF PoolsInv, TypeOK
        <4> QED
          BY <2>3, <3>1, <4>1
      <3> QED
        BY <3>4, <3>5
    <2>11. ASSUME NEW t \in Threads, Idly(t) PROVE [Registry!Next]_<<config, serving>>
      BY <2>1, <2>11, IdlyFact
    <2>12. CASE UNCHANGED vars
      BY <2>1, <2>12 DEF vars, pools, registries
    <2> QED
      BY <2>4, <2>5, <2>6, <2>7, <2>8, <2>9, <2>10, <2>11, <2>12 DEF Next, Acts, Step, Idly
  <1> QED
    BY <1>1, <1>2, PoolsSafe, PTL DEF Spec, ImplementsRegistry, Registry!Spec

-----------------------------------------------------------------------------
(* The history: connections, registries and answers *)

LEMMA InitHistory == HInit => IndInv
  <1> SUFFICES ASSUME HInit PROVE IndInv
    OBVIOUS
  <1>1. PoolsInv
    BY InitPools DEF HInit
  <1>2. HTypeOK
    BY DEF HInit, HTypeOK
  <1>3. KnownOK /\ BetweenOK /\ RegistriesAgree
    BY DEF HInit, Init, KnownOK, BetweenOK, RegistriesAgree, Between
  <1>4. AloneOK
    BY DEF HInit, Init, AloneOK, DoneBy, NoCall
  <1> QED
    BY <1>1, <1>2, <1>3, <1>4 DEF IndInv

\* The shape of a step of the history.
LEMMA HNextShape ==
  ASSUME HNext
  PROVE  /\ Next
         /\ \E t \in Threads \cup {None} :
               Observed(t) /\ (t = None => Dies) /\ (t # None => Acts(t))
  BY DEF HNext, HStep, Next, Acts

LEMMA HTypeStep ==
  ASSUME IndInv, [HNext]_hvars
  PROVE  HTypeOK'
  <1> USE DEF IndInv, HTypeOK
  <1>1. CASE UNCHANGED hvars
    BY <1>1 DEF hvars
  <1>2. CASE HNext
    <2>1. PICK t \in Threads \cup {None} :
             Observed(t) /\ (t = None => Dies) /\ (t # None => Acts(t))
      BY <1>2, HNextShape
    <2>2. ldap' \in Settings \cup {None}
      BY <1>2, HNextShape, PoolsStep DEF PoolsInv, TypeOK
    <2>3. known' \in [Threads -> SUBSET Settings]
      BY <2>1, <2>2 DEF Observed
    <2>4. alone' \subseteq Threads
      BY <2>1 DEF Observed
    <2>5. crossed' \in BOOLEAN
      BY <2>1 DEF Observed
    <2>6. ASSUME NEW u \in Threads
          PROVE  u = t /\ pc[t] = "entries" => heap[conn[t]].page \in 0..Pages
      BY InHands DEF PoolsInv, StageOK, Connections
    <2>7. pages' \in [Threads -> SUBSET (0..Pages)]
      BY <2>1, <2>6 DEF Observed
    <2> QED
      BY <2>3, <2>4, <2>5, <2>7
  <1> QED
    BY <1>1, <1>2

\* The settings of a connection are those the registry had when the worker got it, and
\* what is known of them is forgotten only when the call is over.
LEMMA KnownStep ==
  ASSUME IndInv, [HNext]_hvars
  PROVE  KnownOK'
  <1> DEFINE Using == {"use", "entries", "cookie"}
  <1>1. CASE UNCHANGED hvars
    BY <1>1 DEF hvars, vars, pools, work, KnownOK, IndInv
  <1>2. CASE HNext
    <2>1. PICK t \in Threads \cup {None} :
             Observed(t) /\ (t = None => Dies) /\ (t # None => Acts(t))
      BY <1>2, HNextShape
    <2> SUFFICES ASSUME NEW u \in Threads, pc'[u] \in Using
                 PROVE  heap'[conn'[u]].settings \in known'[u]
      BY DEF KnownOK
    <2>2. known'[u] = known[u] \cup ({ldap'} \ {None})
      BY <2>1 DEF Observed, Answers
    <2>3. ASSUME pc[u] \in Using, conn'[u] = conn[u]
          PROVE  heap'[conn'[u]].settings \in known'[u]
      <3>1. heap[conn[u]].settings \in known[u] /\ conn[u] # None
        BY <2>3 DEF IndInv, KnownOK, PoolsInv, StageOK
      <3>2. heap'[conn[u]].settings = heap[conn[u]].settings
        BY <1>2, <2>3, <3>1, HNextShape, HeapStep DEF IndInv, HeapKept, Kept
      <3> QED
        BY <2>2, <2>3, <3>1, <3>2
    <2>4. CASE u # t
      <3>1. t = None \/ t \in Threads
        OBVIOUS
      <3>2. pc'[u] = pc[u] /\ conn'[u] = conn[u]
        <4>1. CASE t = None
          BY <2>1, <4>1 DEF Dies, work
        <4>2. CASE t # None
          BY <2>1, <2>4, <4>2, AsideFact DEF Aside, IndInv
        <4> QED
          BY <4>1, <4>2
      <3> QED
        BY <2>3, <3>2
    <2>5. CASE u = t
      <3>1. Acts(t) /\ t \in Threads
        BY <2>1, <2>5
      <3>2. CASE Bind(t)
        <4>1. heap'[conn'[t]] = New(ldap) /\ ldap \in Settings /\ ldap' = ldap
          BY <3>1, <3>2, BindFact DEF Bind, registries, IndInv, PoolsInv, TypeOK, StageOK
        <4> QED
          BY <2>2, <2>5, <4>1, ConnectionFact
      <3>3. CASE Get(t)
        <4>1. /\ conn' = [conn EXCEPT ![t] = cached] /\ cached # None
              /\ heap' = heap /\ ldap' = ldap /\ ldap # None
          BY <2>5, <3>1, <3>3 DEF Get, Goto, Fails, pools, registries, IndInv, PoolsInv, TypeOK
        <4> QED
          BY <2>2, <2>5, <3>1, <4>1 DEF IndInv, PoolsInv, TypeOK, CacheOK
      <3>4. CASE ~Bind(t) /\ ~Get(t)
        <4>1. pc[t] \in Using /\ conn'[t] = conn[t]
          <5> USE <2>5, <3>1 DEF IndInv, PoolsInv, TypeOK, Goto, Fails, Answers, work, pools
          <5>1. ~Submit(t)
            BY FirstStepFact DEF Submit
          <5>2. ~LdapAdd(t) /\ ~WinRMAdd(t) /\ ~LdapRemove(t) /\ ~WinRMRemove(t) /\ ~Command(t)
            BY DEF LdapAdd, WinRMAdd, LdapRemove, WinRMRemove, Command
          <5>3. ~Config(t) /\ ~BindFails(t) /\ ~Return(t)
            BY DEF Config, BindFails, Return
          <5>4. Use(t) \/ UseFails(t) \/ UseRefused(t) \/ SearchPage(t) \/ ReadEntries(t) \/ ReadCookie(t)
            BY <3>4, <5>1, <5>2, <5>3 DEF Acts, Step
          <5> QED
            BY <5>4 DEF Use, UseFails, UseRefused, SearchPage, ReadEntries, ReadCookie
        <4> QED
          BY <2>3, <2>5, <4>1
      <3> QED
        BY <3>2, <3>3, <3>4
    <2> QED
      BY <2>4, <2>5
  <1> QED
    BY <1>1, <1>2

\* Steps that change neither registry leave every worker on its side of the two changes.
LEMMA BetweenShape ==
  ASSUME PoolsInv, NEW t \in Threads, Acts(t)
  PROVE  \/ LdapAdd(t) \/ LdapRemove(t) \/ WinRMAdd(t) \/ WinRMRemove(t)
         \/ /\ UNCHANGED registries /\ ~Between(t) /\ ~Between(t)'
            /\ pc[t] \notin {"ldapAdd", "ldapRemove"}
  <1> USE DEF Between, PoolsInv, TypeOK, Goto, Fails, pools, registries, work
  <1>1. ASSUME Submit(t) PROVE UNCHANGED registries /\ ~Between(t) /\ ~Between(t)' /\ pc[t] = "idle"
    <2>1. PICK c \in Calls : pc' = [pc EXCEPT ![t] = FirstStep(c)]
      BY <1>1 DEF Submit
    <2> QED
      BY <1>1, <2>1, FirstStepFact DEF Submit
  <1>2. CASE Config(t) \/ Command(t) \/ Get(t)
    BY <1>2 DEF Config, Command, Get
  <1>3. CASE Bind(t) \/ BindFails(t) \/ Use(t) \/ UseFails(t) \/ UseRefused(t) \/ SearchPage(t)
    BY <1>3 DEF Bind, BindFails, Use, UseFails, UseRefused, SearchPage
  <1>4. CASE ReadEntries(t) \/ ReadCookie(t) \/ Return(t)
    BY <1>4 DEF ReadEntries, ReadCookie, Return, Answers
  <1> QED
    BY <1>1, <1>2, <1>3, <1>4 DEF Acts, Step

\* Whoever makes the second change finds the first one as it left it, unless another
\* worker has started to change the registries in between.
LEMMA BetweenStep ==
  ASSUME IndInv, [HNext]_hvars
  PROVE  BetweenOK' /\ RegistriesAgree'
  <1> USE DEF IndInv, BetweenOK, RegistriesAgree
  <1>1. CASE UNCHANGED hvars
    BY <1>1 DEF hvars, vars, pools, work, registries, Between
  <1>2. ASSUME Dies, Observed(None) PROVE BetweenOK' /\ RegistriesAgree'
    BY <1>2 DEF Dies, Observed, work, registries, Between
  <1>3. ASSUME NEW t \in Threads, Acts(t), Observed(t) PROVE BetweenOK' /\ RegistriesAgree'
    <2>1. \A u \in Threads \ {t} : /\ pc'[u] = pc[u] /\ call'[u] = call[u]
                                   /\ Between(u)' <=> Between(u)
      BY <1>3, AsideFact DEF Aside, Between
    <2>2. CASE LdapAdd(t) \/ LdapRemove(t)
      <3>1. /\ pc[t] \in {"ldapAdd", "ldapRemove"} /\ Between(t)' /\ call' = call
            /\ pc'[t] = "winrmAdd" => ldap' = call[t].settings
            /\ pc'[t] = "winrmRemove" => ldap' = None
        BY <2>2 DEF LdapAdd, LdapRemove, Goto, work, Between, PoolsInv, TypeOK
      <3>2. crossed' = \E u \in Threads \ {t} : Between(u)
        BY <1>3, <3>1 DEF Observed
      <3>3. ~crossed' => \A u \in Threads : Between(u)' => u = t
        BY <2>1, <3>2
      <3> QED
        BY <2>1, <3>1, <3>3 DEF Between
    <2>3. CASE WinRMAdd(t) \/ WinRMRemove(t)
      <3>1. /\ Between(t) /\ ~Between(t)' /\ UNCHANGED ldap /\ pc[t] \notin {"ldapAdd", "ldapRemove"}
            /\ pc[t] = "winrmAdd" => winrm' = call[t].settings
            /\ pc[t] = "winrmRemove" => winrm' = None
        BY <2>3 DEF WinRMAdd, WinRMRemove, Goto, Between, PoolsInv, TypeOK
      <3>2. crossed' = crossed
        BY <1>3, <3>1 DEF Observed
      <3>3. ~crossed => winrm' = ldap'
        BY <3>1 DEF Between
      <3> QED
        BY <2>1, <3>1, <3>2, <3>3 DEF Between
    <2>4. ASSUME UNCHANGED registries, ~Between(t), ~Between(t)', pc[t] \notin {"ldapAdd", "ldapRemove"}
          PROVE  BetweenOK' /\ RegistriesAgree'
      <3>1. crossed' = crossed
        BY <1>3, <2>4 DEF Observed
      <3> QED
        BY <2>1, <2>4, <3>1 DEF Between, registries
    <2> QED
      BY <1>3, <2>2, <2>3, <2>4, BetweenShape
  <1> QED
    BY <1>1, <1>2, <1>3 DEF HNext, HStep, Acts

-----------------------------------------------------------------------------
\* A call that nobody disturbs keeps what it has done while the others work.
LEMMA AloneStays ==
  ASSUME IndInv, NEW u \in Threads, u \in alone,
         UNCHANGED <<registries, cached, heap>>,
         pc'[u] = pc[u], call'[u] = call[u], conn'[u] = conn[u], cookie'[u] = cookie[u],
         pages'[u] = pages[u]
  PROVE  DoneBy(u)'
  BY DEF IndInv, AloneOK, DoneBy, registries

\* A step of the call itself: the tools that change the registries.
LEMMA RegistryAnswers ==
  ASSUME IndInv, NEW t \in Threads, t \in alone, Acts(t)
  PROVE  /\ call'[t].tool = "add_dc" =>
               /\ pc'[t] \in {"winrmAdd", "get", "bind", "use", "ok"} => ldap' = call'[t].settings
               /\ pc'[t] \in {"get", "bind", "use", "ok"} => winrm' = call'[t].settings
               /\ pc'[t] \in {"use", "ok"} => cached' # None
         /\ call'[t].tool = "remove_dc" =>
               /\ pc'[t] \in {"winrmRemove", "ok"} => ldap' = None /\ cached' = None
               /\ pc'[t] = "ok" => winrm' = None
  <1>0. DoneBy(t) /\ Leads(t)
    BY StageParts DEF IndInv, AloneOK, PoolsInv
  <1> USE <1>0 DEF DoneBy, Leads, IndInv, PoolsInv, TypeOK, Goto, Fails, Answers, pools, registries, work
  <1>1. CASE Submit(t)
    <2>1. PICK c \in Calls : call'[t] = c /\ pc'[t] = FirstStep(c)
      BY <1>1 DEF Submit
    <2> QED
      BY <2>1, FirstStepFact
  <1>2. CASE LdapAdd(t) \/ WinRMAdd(t)
    BY <1>2 DEF LdapAdd, WinRMAdd
  <1>3. CASE LdapRemove(t) \/ WinRMRemove(t)
    BY <1>3 DEF LdapRemove, WinRMRemove
  <1>4. CASE Config(t) \/ Command(t)
    BY <1>4 DEF Config, Command
  <1>5. CASE Get(t)
    BY <1>5 DEF Get
  <1>6. CASE Bind(t)
    <2>1. cached' # None
      BY <1>6, BindFact, IdsFact
    <2> QED
      BY <1>6, <2>1 DEF Bind
  <1>7. CASE BindFails(t) \/ UseFails(t) \/ UseRefused(t)
    BY <1>7 DEF BindFails, UseFails, UseRefused
  <1>8. CASE Use(t) \/ SearchPage(t) \/ ReadEntries(t)
    BY <1>8 DEF Use, SearchPage, ReadEntries
  <1>9. CASE ReadCookie(t)
    BY <1>9 DEF ReadCookie
  <1>10. CASE Return(t)
    BY <1>10 DEF Return, NoCall
  <1> QED
    BY <1>1, <1>2, <1>3, <1>4, <1>5, <1>6, <1>7, <1>8, <1>9, <1>10 DEF Acts, Step

\* One page more, or a page that is refused.
LEMMA PagesFact ==
    \A c \in 1..Pages : /\ (1..c - 1) \cup {c} = 1..c
                        /\ (1..c - 1) \cup {0} \in Lists
  <1> SUFFICES ASSUME NEW c \in 1..Pages
               PROVE  (1..c - 1) \cup {c} = 1..c /\ (1..c - 1) \cup {0} \in Lists
    OBVIOUS
  <1>1. (1..c - 1) \cup {c} = 1..c
    OBVIOUS
  <1>2. (1..c - 1) \cup {0} = 0..c - 1 /\ c - 1 \in 0..Pages - 1
    OBVIOUS
  <1> QED
    BY <1>1, <1>2 DEF Lists

\* A step of the call itself: a list that nobody disturbs gets one page after another, until
\* the last one or one that is refused.
LEMMA ListAnswers ==
  ASSUME IndInv, NEW t \in Threads, t \in alone, t \in alone', Acts(t), Observed(t),
         call'[t].tool = "list_users"
  PROVE  /\ pc'[t] \in {"config", "get", "bind", "use", "entries"} => pages'[t] = 1..cookie'[t] - 1
         /\ pc'[t] \in {"entries", "cookie"} => heap'[conn'[t]].page \in {cookie'[t], 0}
         /\ pc'[t] = "cookie" => pages'[t] = (1..cookie'[t] - 1) \cup {heap'[conn'[t]].page}
         /\ pc'[t] = "ok" => pages'[t] \in Lists
  <1>0. /\ DoneBy(t) /\ Leads(t) /\ Holds(t) /\ cookie[t] \in 1..Pages
        /\ pc[t] = "idle" => pages[t] = {}
    BY StageParts DEF IndInv, AloneOK, PoolsInv, TypeOK
  <1>1. pages'[t] = IF pc'[t] \in {"idle", "error", "raised"} THEN {}
                    ELSE IF pc[t] = "entries" THEN pages[t] \cup {heap[conn[t]].page}
                    ELSE pages[t]
    BY DEF Observed
  <1> USE <1>0, <1>1 DEF DoneBy, Leads, IndInv, PoolsInv, TypeOK, Goto, Fails, Answers, pools, work
  <1>2. CASE Submit(t)
    <2>1. PICK c \in Calls : /\ call'[t] = c /\ pc'[t] = FirstStep(c) /\ pc[t] = "idle"
                             /\ cookie' = cookie
      BY <1>2 DEF Submit
    <2>2. pc'[t] = "config" /\ cookie'[t] = 1 /\ pages'[t] = {}
      BY <2>1, FirstStepFact
    <2>3. 1..cookie'[t] - 1 = {}
      BY <2>2
    <2> QED
      BY <2>2, <2>3
  <1>3. CASE LdapAdd(t) \/ WinRMAdd(t) \/ LdapRemove(t) \/ WinRMRemove(t) \/ Command(t)
    BY <1>3 DEF LdapAdd, WinRMAdd, LdapRemove, WinRMRemove, Command
  <1>4. CASE Config(t)
    BY <1>4 DEF Config
  <1>5. CASE Get(t)
    BY <1>5 DEF Get
  <1>6. CASE Bind(t) \/ BindFails(t)
    BY <1>6 DEF Bind, BindFails
  <1>7. CASE Use(t) \/ UseFails(t) \/ UseRefused(t)
    BY <1>7 DEF Use, UseFails, UseRefused
  <1>8. CASE SearchPage(t)
    <2>1. conn[t] \in Ids /\ heap[conn[t]] \in Connections /\ {cookie[t], 0} \subseteq 0..Pages
      BY <1>8, InHands DEF SearchPage, Holds
    <2>2. PICK p \in {cookie[t], 0} : heap' = [heap EXCEPT ![conn[t]] = [heap[conn[t]] EXCEPT !.page = p]]
      BY <1>8 DEF SearchPage
    <2>3. [heap[conn[t]] EXCEPT !.page = p].page = p
      BY <2>1, <2>2, ConnectionFact
    <2>4. heap'[conn[t]].page = p
      BY <2>1, <2>2, <2>3
    <2>5. /\ UNCHANGED <<conn, cookie>> /\ pc[t] = "use" /\ pc'[t] = "entries"
          /\ call[t].tool = "list_users"
      BY <1>8 DEF SearchPage
    <2>6. pages[t] = 1..cookie[t] - 1
      BY <2>5
    <2>7. pages'[t] = pages[t]
      BY <2>5
    <2> QED
      BY <2>2, <2>4, <2>5, <2>6, <2>7
  <1>9. CASE ReadEntries(t)
    <2>1. UNCHANGED <<heap, conn, cookie>> /\ pc[t] = "entries" /\ pc'[t] = "cookie"
      BY <1>9 DEF ReadEntries
    <2>2. heap[conn[t]].page \in {cookie[t], 0} /\ pages[t] = 1..cookie[t] - 1
      BY <2>1
    <2>3. pages'[t] = (1..cookie[t] - 1) \cup {heap[conn[t]].page}
      BY <2>1, <2>2
    <2> QED
      BY <2>1, <2>2, <2>3
  <1>10. CASE ReadCookie(t)
    <2> DEFINE page == heap[conn[t]].page
    <2>1. page \in {cookie[t], 0} /\ pages[t] = (1..cookie[t] - 1) \cup {page} /\ pc[t] = "cookie"
      BY <1>10 DEF ReadCookie
    <2>2. CASE page \in {0, Pages}
      <3>1. pc'[t] = "ok" /\ pages'[t] = pages[t]
        BY <1>10, <2>1, <2>2 DEF ReadCookie
      <3>2. CASE page = 0
        BY <2>1, <3>1, <3>2, PagesFact
      <3>3. CASE page = Pages
        <4>1. cookie[t] = Pages
          BY <2>1, <3>3
        <4>2. pages[t] = 1..Pages
          BY <2>1, <3>3, <4>1, PagesFact
        <4> QED
          BY <3>1, <4>2 DEF Lists
      <3> QED
        BY <2>2, <3>2, <3>3
    <2>3. CASE page \notin {0, Pages}
      <3>1. page = cookie[t] /\ pages[t] = 1..cookie[t]
        BY <2>1, <2>3, PagesFact
      <3>2. cookie'[t] = cookie[t] + 1 /\ pc'[t] = "use" /\ pages'[t] = pages[t]
        BY <1>10, <2>1, <2>3, <3>1 DEF ReadCookie
      <3>3. cookie'[t] - 1 = cookie[t]
        BY <3>2
      <3> QED
        BY <3>1, <3>2, <3>3
    <2> QED
      BY <2>2, <2>3
  <1>11. CASE Return(t)
    BY <1>11 DEF Return, NoCall
  <1> QED
    BY <1>2, <1>3, <1>4, <1>5, <1>6, <1>7, <1>8, <1>9, <1>10, <1>11 DEF Acts, Step

\* What an undisturbed call has done stays done, whoever acts.
LEMMA AloneStep ==
  ASSUME IndInv, [HNext]_hvars
  PROVE  AloneOK'
  <1>1. CASE UNCHANGED hvars
    BY <1>1 DEF hvars, vars, pools, work, registries, AloneOK, DoneBy, IndInv
  <1>2. CASE HNext
    <2>1. PICK t \in Threads \cup {None} :
             Observed(t) /\ (t = None => Dies) /\ (t # None => Acts(t))
      BY <1>2, HNextShape
    <2> SUFFICES ASSUME NEW u \in Threads
                 PROVE  (u \in alone' => DoneBy(u)') /\ (pc'[u] = "idle" => pages'[u] = {})
      BY DEF AloneOK
    <2>2. pc'[u] = "idle" => pages'[u] = {}
      BY <2>1 DEF Observed
    <2>3. u \in alone' => \/ pc'[u] \in {"idle", "error", "raised"}
                          \/ u \in alone /\ (u = t \/ UNCHANGED <<registries, cached, heap>>)
      BY <2>1 DEF Observed
    <2>4. ASSUME pc'[u] \in {"idle", "error", "raised"} PROVE DoneBy(u)'
      BY <2>4 DEF DoneBy
    <2>5. ASSUME u \in alone', u \in alone, pc'[u] \notin {"idle", "error", "raised"}, u # t,
                 UNCHANGED <<registries, cached, heap>>
          PROVE  DoneBy(u)'
      <3>1. pc'[u] = pc[u] /\ call'[u] = call[u] /\ conn'[u] = conn[u] /\ cookie'[u] = cookie[u]
        <4>1. CASE t = None
          BY <2>1, <4>1 DEF Dies, work
        <4>2. CASE t # None
          BY <2>1, <2>5, <4>2, AsideFact DEF Aside, IndInv
        <4> QED
          BY <4>1, <4>2
      <3>2. pages'[u] = pages[u]
        BY <2>1, <2>5 DEF Observed
      <3> QED
        BY <2>5, <3>1, <3>2, AloneStays
    <2>6. ASSUME u \in alone', u \in alone, u = t PROVE DoneBy(u)'
      <3>1. Acts(u) /\ Observed(u)
        BY <2>1, <2>6
      <3> QED
        BY <2>6, <3>1, RegistryAnswers, ListAnswers DEF DoneBy
    <2> QED
      BY <2>2, <2>3, <2>4, <2>5, <2>6
  <1> QED
    BY <1>1, <1>2

LEMMA InvStep == IndInv /\ [HNext]_hvars => IndInv'
  <1> SUFFICES ASSUME IndInv, [HNext]_hvars PROVE IndInv'
    OBVIOUS
  <1>1. [Next]_vars
    BY HNextShape DEF hvars
  <1>2. PoolsInv'
    BY <1>1, PoolsStep DEF IndInv
  <1> QED
    BY <1>2, HTypeStep, KnownStep, BetweenStep, AloneStep DEF IndInv

\* The inductive invariant of DomainHistory.
THEOREM Invariance == HSpec => []IndInv
  <1> QED
    BY InitHistory, InvStep, PTL DEF HSpec

\* add_dc and remove_dc leave the same settings in both registries, for any number of
\* workers that change them at once, unless the last two changes crossed.
THEOREM AgreeingRegistries == HSpec => []RegistriesAgree
  <1>1. IndInv => RegistriesAgree
    BY DEF IndInv
  <1> QED
    BY <1>1, Invariance, PTL

\* No tool uses a connection with settings that were replaced or removed before it began.
THEOREM CurrentOps == HSpec => []OpsCurrent
  <1>1. IndInv => OpsCurrent
    BY DEF IndInv, KnownOK, OpsCurrent
  <1> QED
    BY <1>1, Invariance, PTL

\* What add_dc, remove_dc and list_users answer is so, unless another call has changed the
\* registries or the shared connection since theirs began; list_users, in so far as the
\* controller has refused none of its pages.
THEOREM TrueAnswers == HSpec => []AnswersHold
  <1>1. IndInv => AnswersHold
    BY DEF IndInv, HTypeOK, AloneOK, DoneBy, AnswersHold
  <1> QED
    BY <1>1, Invariance, PTL
=============================================================================
