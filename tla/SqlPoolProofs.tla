---------------------------- MODULE SqlPoolProofs ----------------------------
(***************************************************************************)
(* Invariance proofs for SqlPool and SqlPoolHistory, for every set of      *)
(* workers, aliases, targets and pool objects and every maxconn.           *)
(***************************************************************************)
EXTENDS SqlPoolHistory, FiniteSetTheorems, TLAPS

USE AliasAssumption, ValueAssumption, NoneAssumption

\* The entry label of a call is a label.
LEMMA EntryLabel ==
    ASSUME NEW tool, NEW a
    PROVE  Entry(tool, a) \in Labels
  BY DEF Entry, Labels

\* Where a call starts depends on its tool.
LEMMA EntryStage ==
    ASSUME NEW tool \in Tools, NEW a
    PROVE  \/ tool = "connect_db" /\ Entry(tool, a) \in {"dropRo", "add"}
           \/ tool = "disconnect_db" /\ Entry(tool, a) \in {"dropRo", "drop"}
           \/ NeedsRo(tool) /\ Entry(tool, a) = "roLookup"
           \/ /\ tool \in {"execute_query", "execute_statement"}
              /\ Entry(tool, a) = "getPool"
  <1>1. CASE tool = "connect_db"
    BY <1>1 DEF Entry
  <1>2. CASE tool = "disconnect_db"
    BY <1>2 DEF Entry
  <1>3. CASE NeedsRo(tool)
    BY <1>3 DEF Entry, NeedsRo
  <1>4. CASE tool \notin {"connect_db", "disconnect_db"} /\ ~NeedsRo(tool)
    BY <1>4 DEF Entry, NeedsRo, Tools
  <1> QED
    BY <1>1, <1>2, <1>3, <1>4

\* closeall keeps the types.
LEMMA CloseAllType ==
    ASSUME TypeOK, NEW p \in PoolIds \cup {None}, CloseAll(p)
    PROVE  /\ heap' \in [PoolIds -> PoolObjects \cup {None}]
           /\ conn' \in [Threads -> ConnStates]
  BY DEF TypeOK, CloseAll, ConnStates

\* Type correctness: whatever calls arrive, in whatever order they interleave,
\* every variable keeps its type.
LEMMA TypeStep == TypeOK /\ StageOK /\ [Next]_vars => TypeOK'
  <1> SUFFICES ASSUME TypeOK, StageOK, [Next]_vars PROVE TypeOK'
    OBVIOUS
  <1> USE DEF TypeOK, registry, local, Goto, Labels
  <1>1. CASE UNCHANGED vars
    BY <1>1 DEF vars
  <1>2. ASSUME NEW t \in Threads, Submit(t) PROVE TypeOK'
    <2>1. \A tool, a : Entry(tool, a) \in Labels
      BY EntryLabel
    <2>2. PICK tool \in Tools, a \in ToolAliases, tg \in Targets :
             call' = [call EXCEPT ![t] = [tool |-> tool, alias |-> a, target |-> tg]]
      BY <1>2 DEF Submit
    <2>3. [tool |-> tool, alias |-> a, target |-> tg] \in Calls
      BY DEF Calls
    <2>4. call' \in [Threads -> Calls]
      BY <2>2, <2>3
    <2>5. pc' \in [Threads -> Labels]
      BY <1>2, <2>1 DEF Submit
    <2> QED
      BY <1>2, <2>4, <2>5 DEF Submit
  <1>3. ASSUME NEW t \in Threads, Step(t) PROVE TypeOK'
    <2>1. CASE DropRo(t)
      <3>1. pools[RO[Alias(t)]] \in PoolIds \cup {None}
        BY DEF Alias, Calls
      <3> QED
        BY <2>1, <3>1, CloseAllType DEF DropRo, Remove
    <2>2. CASE Drop(t)
      <3>1. pools[Alias(t)] \in PoolIds \cup {None}
        BY DEF Alias, Calls
      <3> QED
        BY <2>2, <3>1, CloseAllType DEF Drop, Remove
    <2>3. CASE BeginAdd(t)
      <3>1. pools[AddAlias(t)] \in PoolIds \cup {None}
        BY DEF AddAlias, Alias, Calls
      <3> QED
        BY <2>3, <3>1, CloseAllType DEF BeginAdd
    <2>4. CASE AddOk(t)
      <3>1. AddConfig(t) \in Configs
        BY <2>4 DEF AddOk, AddConfig, StageOK, Configs, Roles, Calls
      <3>2. AddAlias(t) \in Aliases
        BY DEF AddAlias, Alias, Calls
      <3>3. \A p \in PoolIds : NewPool(AddConfig(t)) \in PoolObjects
        BY <3>1 DEF NewPool, PoolObjects
      <3> QED
        BY <2>4, <3>1, <3>2, <3>3 DEF AddOk
    <2>5. CASE AddFail(t)
      BY <2>5 DEF AddFail
    <2>6. CASE RoLookup(t)
      BY <2>6 DEF RoLookup
    <2>7. CASE RoConfig(t)
      BY <2>7 DEF RoConfig, Alias, Calls
    <2>8. CASE GetPool(t)
      BY <2>8 DEF GetPool, ExecAlias, Alias, Calls
    <2>9. CASE GetConn(t)
      <3>1. obj[t] \in PoolIds
        BY <2>9 DEF GetConn, StageOK
      <3>2. /\ Idle(obj[t]) \in ConnStates
            /\ Idle(obj[t]) # "none" => ~Closed(obj[t])
        BY <3>1 DEF Idle, Closed, PoolObjects, ConnStates
      <3>3. ASSUME NEW c \in ConnStates, ~Closed(obj[t]), Lend(t, obj[t], c)
            PROVE  /\ heap' \in [PoolIds -> PoolObjects \cup {None}]
                   /\ conn' \in [Threads -> ConnStates]
        BY <3>1, <3>3 DEF Lend, Closed, PoolObjects
      <3>4. /\ heap' \in [PoolIds -> PoolObjects \cup {None}]
            /\ conn' \in [Threads -> ConnStates]
        <4>1. "live" \in ConnStates
          BY DEF ConnStates
        <4> QED
          BY <2>9, <3>2, <3>3, <4>1 DEF GetConn
      <3> QED
        BY <2>9, <3>4 DEF GetConn
    <2>10. CASE Run(t)
      BY <2>10 DEF Run, Noticed, ConnStates
    <2>11. CASE Commit(t)
      BY <2>11 DEF Commit, Noticed, ConnStates, Outcomes
    <2>12. CASE Rollback(t)
      BY <2>12 DEF Rollback, Noticed, ConnStates
    <2>13. CASE PutConn(t)
      <3>1. conn' \in [Threads -> ConnStates] /\ pc' \in [Threads -> Labels]
        BY <2>13 DEF PutConn, ConnStates
      <3>2. heap' \in [PoolIds -> PoolObjects \cup {None}]
        BY <2>13 DEF PutConn, Closed, PoolObjects, ConnStates
      <3> QED
        BY <2>13, <3>1, <3>2 DEF PutConn
    <2>14. CASE Return(t)
      BY <2>14 DEF Return, Calls, Tools, Outcomes, Phases
    <2> QED
      BY <1>3, <2>1, <2>2, <2>3, <2>4, <2>5, <2>6, <2>7, <2>8, <2>9, <2>10,
         <2>11, <2>12, <2>13, <2>14 DEF Step
  <1>4. ASSUME NEW p \in PoolIds, ServerDrop(p) PROVE TypeOK'
    BY <1>4 DEF ServerDrop, Closed, PoolObjects, ConnStates
  <1> QED
    BY <1>1, <1>2, <1>3, <1>4 DEF Next

\* Each stage of a call finds what the stages before it left: whatever other
\* workers do, one that connects holds the lock and knows its configuration, and
\* one that executes has a pool object.
LEMMA StageStep == TypeOK /\ StageOK /\ [Next]_vars => StageOK'
  <1> SUFFICES ASSUME TypeOK, StageOK, [Next]_vars PROVE StageOK'
    OBVIOUS
  <1> USE DEF TypeOK, StageOK, registry, local, Goto, Tool, NeedsRo, Executes, InUse
  <1>1. CASE UNCHANGED vars
    BY <1>1 DEF vars
  <1>2. ASSUME NEW t \in Threads, Submit(t) PROVE StageOK'
    BY <1>2, EntryStage DEF Submit
  <1>3. ASSUME NEW t \in Threads, Step(t) PROVE StageOK'
    <2>1. CASE DropRo(t)
      BY <2>1 DEF DropRo, Remove
    <2>2. CASE Drop(t)
      BY <2>2 DEF Drop, Remove
    <2>3. CASE BeginAdd(t)
      BY <2>3 DEF BeginAdd
    <2>4. CASE AddOk(t)
      BY <2>4 DEF AddOk
    <2>5. CASE AddFail(t)
      BY <2>5 DEF AddFail
    <2>6. CASE RoLookup(t)
      BY <2>6 DEF RoLookup
    <2>7. CASE RoConfig(t)
      BY <2>7 DEF RoConfig
    <2>8. CASE GetPool(t)
      BY <2>8 DEF GetPool
    <2>9. CASE GetConn(t)
      BY <2>9 DEF GetConn
    <2>10. CASE Run(t)
      BY <2>10 DEF Run
    <2>11. CASE Commit(t)
      BY <2>11 DEF Commit
    <2>12. CASE Rollback(t)
      BY <2>12 DEF Rollback
    <2>13. CASE PutConn(t)
      BY <2>13 DEF PutConn
    <2>14. CASE Return(t)
      BY <2>14 DEF Return
    <2> QED
      BY <1>3, <2>1, <2>2, <2>3, <2>4, <2>5, <2>6, <2>7, <2>8, <2>9, <2>10,
         <2>11, <2>12, <2>13, <2>14 DEF Step
  <1>4. ASSUME NEW p \in PoolIds, ServerDrop(p) PROVE StageOK'
    BY <1>4 DEF ServerDrop
  <1> QED
    BY <1>1, <1>2, <1>3, <1>4 DEF Next

\* A worker has no call when the server starts, or is at the connect_db of main().
LEMMA InitPlace ==
    ASSUME Init, NEW t \in Threads
    PROVE  /\ pc[t] \in {"idle", "dropRo", "add"} /\ Tool(t) = "connect_db"
           /\ obj[t] = None /\ applied[t] = "no" /\ lock = None
  <1>1. PICK main \in Threads :
           pc = [w \in Threads |->
                   IF w = main THEN Entry("connect_db", DefaultAlias) ELSE "idle"]
    BY DEF Init
  <1>2. Entry("connect_db", DefaultAlias) \in {"dropRo", "add"}
    BY EntryStage DEF Tools, NeedsRo
  <1>3. pc[t] \in {"idle", "dropRo", "add"}
    BY <1>1, <1>2
  <1>4. /\ Tool(t) = "connect_db" /\ obj[t] = None /\ applied[t] = "no" /\ lock = None
    BY DEF Init, Tool
  <1> QED
    BY <1>3, <1>4

\* main() starts with well-typed state, one worker at its first connect_db.
LEMMA InitTypes == Init => TypeOK /\ StageOK
  <1>1. Init => TypeOK
    <2>1. Entry("connect_db", DefaultAlias) \in Labels
      BY EntryLabel
    <2> QED
      BY <2>1 DEF Init, TypeOK, Calls, Tools, Labels, ConnStates, Outcomes, Phases
  <1>2. Init => StageOK
    <2> SUFFICES ASSUME Init PROVE StageOK
      OBVIOUS
    <2>1. \A t \in Threads :
             /\ pc[t] \in {"idle", "dropRo", "add"} /\ Tool(t) = "connect_db"
             /\ obj[t] = None /\ lock # t
      <3> SUFFICES ASSUME NEW t \in Threads
                   PROVE  /\ pc[t] \in {"idle", "dropRo", "add"} /\ Tool(t) = "connect_db"
                          /\ obj[t] = None /\ lock # t
        OBVIOUS
      <3>1. lock = None /\ t # None
        BY InitPlace
      <3> QED
        BY <3>1, InitPlace
    <2> QED
      BY <2>1 DEF StageOK, InUse
  <1> QED
    BY <1>1, <1>2

\* Type correctness: whatever calls arrive, in whatever order the workers'
\* steps interleave, every variable keeps its type and every stage its facts.
THEOREM TypeCorrect == Spec => [](TypeOK /\ StageOK)
  <1>1. Init => TypeOK /\ StageOK
    BY InitTypes
  <1>2. TypeOK /\ StageOK /\ [Next]_vars => (TypeOK /\ StageOK)'
    BY TypeStep, StageStep
  <1> QED
    BY <1>1, <1>2, PTL DEF Spec

-----------------------------------------------------------------------------
RegistryInv == RegistryConsistent /\ OpenPoolsRegistered /\ ReplacedIsClosed

\* A step that neither opens nor closes a pool and leaves the dictionaries alone.
SamePools ==
    /\ UNCHANGED <<configs, pools>>
    /\ \A p \in PoolIds : /\ heap'[p] = None <=> heap[p] = None
                          /\ heap[p] # None => heap'[p].cfg = heap[p].cfg

\* Executing on a pool, or failing to connect, does not open or close one.
LEMMA ExecutionKeepsPools ==
    ASSUME TypeOK, StageOK, NEW t \in Threads,
           GetConn(t) \/ Run(t) \/ Commit(t) \/ Rollback(t) \/ PutConn(t)
    PROVE  SamePools
  <1> USE DEF TypeOK, registry, SamePools
  <1>1. CASE GetConn(t)
    <2>1. obj[t] \in PoolIds
      BY <1>1 DEF GetConn, StageOK
    <2>2. Idle(obj[t]) # "none" => ~Closed(obj[t])
      BY DEF Idle
    <2>3. ASSUME NEW c, ~Closed(obj[t]), Lend(t, obj[t], c)
          PROVE  \A p \in PoolIds :
                    /\ heap'[p] = None <=> heap[p] = None
                    /\ heap[p] # None => heap'[p].cfg = heap[p].cfg
      BY <2>1, <2>3 DEF Lend, Closed, PoolObjects
    <2>4. \/ UNCHANGED heap
          \/ \E c : ~Closed(obj[t]) /\ Lend(t, obj[t], c)
      BY <1>1, <2>2 DEF GetConn
    <2>5. UNCHANGED <<configs, pools>>
      BY <1>1 DEF GetConn
    <2>6. UNCHANGED heap => SamePools
      BY <2>5
    <2> QED
      BY <2>3, <2>4, <2>5, <2>6
  <1>2. CASE Run(t) \/ Commit(t) \/ Rollback(t)
    BY <1>2 DEF Run, Commit, Rollback
  <1>3. CASE PutConn(t)
    <2>1. obj[t] \in PoolIds
      BY <1>3 DEF PutConn, StageOK, InUse
    <2> QED
      BY <1>3, <2>1 DEF PutConn, Closed, PoolObjects, ConnStates
  <1> QED
    BY <1>1, <1>2, <1>3

\* Unregistering an alias, its pool closed first, keeps the other entries.
LEMMA RemoveKeepsRegistry ==
    ASSUME TypeOK, RegistryInv, NEW a \in Aliases, Remove(a)
    PROVE  RegistryConsistent' /\ OpenPoolsRegistered'
  <1> USE DEF TypeOK, RegistryInv, RegistryConsistent, OpenPoolsRegistered, Closed
  <1>1. /\ pools' = [pools EXCEPT ![a] = None]
        /\ configs' = [configs EXCEPT ![a] = None]
        /\ \A p \in PoolIds : heap'[p] = IF p = pools[a] THEN None ELSE heap[p]
    BY DEF Remove, CloseAll
  <1> QED
    BY <1>1

\* Registering a fresh pool under an alias whose old pool is closed.
LEMMA AddKeepsRegistry ==
    ASSUME TypeOK, StageOK, RegistryInv, NEW t \in Threads, AddOk(t)
    PROVE  RegistryConsistent' /\ OpenPoolsRegistered'
  <1> USE DEF TypeOK, RegistryInv, Closed
  <1>1. AddAlias(t) \in Aliases
    BY DEF AddAlias, Alias, Calls
  <1>2. PICK p \in PoolIds :
           /\ Unreferenced(p)
           /\ heap' = [heap EXCEPT ![p] = NewPool(AddConfig(t))]
           /\ pools' = [pools EXCEPT ![AddAlias(t)] = p]
           /\ configs' = [configs EXCEPT ![AddAlias(t)] = AddConfig(t)]
    BY DEF AddOk
  <1>3. AddConfig(t) \in Configs
    BY DEF AddOk, AddConfig, StageOK, Configs, Roles, Calls
  <1>4. NewPool(AddConfig(t)) \in PoolObjects /\ NewPool(AddConfig(t)).cfg = AddConfig(t)
    BY <1>3 DEF NewPool, PoolObjects
  <1>5. RegistryConsistent'
    BY <1>1, <1>2, <1>3, <1>4 DEF RegistryConsistent, Unreferenced
  <1>6. OpenPoolsRegistered'
    <2>1. pools[AddAlias(t)] # None => heap[pools[AddAlias(t)]] = None
      BY DEF AddOk, ReplacedIsClosed
    <2> QED
      BY <1>1, <1>2, <2>1 DEF OpenPoolsRegistered, Unreferenced
  <1> QED
    BY <1>5, <1>6

\* No action disturbs the registry: dictionaries agree, open pools are registered
\* once, and what add_connection replaces is closed.
LEMMA RegistryStep == TypeOK /\ StageOK /\ RegistryInv /\ [Next]_vars => RegistryInv'
  <1> SUFFICES ASSUME TypeOK, StageOK, RegistryInv, [Next]_vars PROVE RegistryInv'
    OBVIOUS
  <1> USE DEF TypeOK, registry, local, Goto
  <1>1. SamePools => RegistryConsistent' /\ OpenPoolsRegistered'
    BY DEF SamePools, RegistryInv, RegistryConsistent, OpenPoolsRegistered, Closed
  <1>2. ASSUME SamePools,
               \A u \in Threads : pc'[u] = "adding" => pc[u] = "adding" /\ call'[u] = call[u]
        PROVE  RegistryInv'
    <2>1. \A u \in Threads : pc'[u] = "adding" =>
                AddAlias(u)' = AddAlias(u) /\ AddAlias(u) \in Aliases
      BY <1>2 DEF AddAlias, Alias, Tool, Calls
    <2>2. ReplacedIsClosed'
      BY <1>2, <2>1 DEF SamePools, RegistryInv, ReplacedIsClosed, Closed
    <2> QED
      BY <1>1, <1>2, <2>2 DEF RegistryInv
  <1>3. CASE UNCHANGED vars
    BY <1>2, <1>3 DEF vars, SamePools
  <1>4. ASSUME NEW t \in Threads, Submit(t) PROVE RegistryInv'
    <2>1. SamePools
      BY <1>4 DEF Submit, SamePools
    <2>2. \A u \in Threads : pc'[u] = "adding" => pc[u] = "adding" /\ call'[u] = call[u]
      BY <1>4, EntryStage DEF Submit
    <2> QED
      BY <1>2, <2>1, <2>2
  <1>5. ASSUME NEW t \in Threads, Step(t) PROVE RegistryInv'
    <2>1. ASSUME lock = None, RegistryConsistent', OpenPoolsRegistered',
                 \A u \in Threads : pc'[u] = "adding" => pc[u] = "adding"
          PROVE  RegistryInv'
      BY <2>1 DEF RegistryInv, ReplacedIsClosed, StageOK
    <2>2. CASE DropRo(t)
      <3>1. RO[Alias(t)] \in Aliases
        BY DEF Alias, Calls
      <3> QED
        BY <2>1, <2>2, <3>1, RemoveKeepsRegistry DEF DropRo, Remove
    <2>3. CASE Drop(t)
      <3>1. Alias(t) \in Aliases
        BY DEF Alias, Calls
      <3> QED
        BY <2>1, <2>3, <3>1, RemoveKeepsRegistry DEF Drop, Remove
    <2>4. CASE BeginAdd(t)
      <3>1. AddAlias(t) \in Aliases /\ AddAlias(t)' = AddAlias(t)
        BY <2>4 DEF AddAlias, Alias, Tool, Calls, BeginAdd
      <3>2. /\ UNCHANGED <<configs, pools>>
            /\ \A p \in PoolIds : heap'[p] = IF p = pools[AddAlias(t)] THEN None ELSE heap[p]
        BY <2>4 DEF BeginAdd, CloseAll, Closed
      <3>3. RegistryConsistent' /\ OpenPoolsRegistered'
        BY <3>2 DEF RegistryInv, RegistryConsistent, OpenPoolsRegistered, Closed
      <3>4. \A u \in Threads : pc'[u] = "adding" => u = t
        BY <2>4 DEF BeginAdd, StageOK
      <3>5. ReplacedIsClosed'
        BY <3>1, <3>2, <3>4 DEF ReplacedIsClosed, Closed
      <3> QED
        BY <3>3, <3>5 DEF RegistryInv
    <2>5. CASE AddOk(t)
      <3>1. RegistryConsistent' /\ OpenPoolsRegistered'
        BY <2>5, AddKeepsRegistry
      <3>2. \A u \in Threads : pc'[u] # "adding"
        BY <2>5 DEF AddOk, StageOK
      <3> QED
        BY <3>1, <3>2 DEF RegistryInv, ReplacedIsClosed
    <2>6. CASE AddFail(t)
      BY <1>2, <2>6 DEF AddFail, SamePools
    <2>7. CASE RoLookup(t)
      BY <1>2, <2>7 DEF RoLookup, SamePools
    <2>8. CASE RoConfig(t)
      BY <1>2, <2>8 DEF RoConfig, SamePools
    <2>9. CASE GetPool(t)
      BY <1>2, <2>9 DEF GetPool, SamePools
    <2>10. CASE GetConn(t) \/ Run(t) \/ Commit(t) \/ Rollback(t) \/ PutConn(t)
      <3>1. SamePools
        BY <2>10, ExecutionKeepsPools
      <3> QED
        BY <1>2, <2>10, <3>1 DEF GetConn, Run, Commit, Rollback, PutConn
    <2>11. CASE Return(t)
      <3>1. SamePools
        BY <2>11 DEF Return, SamePools
      <3>2. \A u \in Threads : pc'[u] = "adding" => pc[u] = "adding" /\ call'[u] = call[u]
        BY <2>11 DEF Return
      <3> QED
        BY <1>2, <3>1, <3>2
    <2> QED
      BY <1>5, <2>2, <2>3, <2>4, <2>5, <2>6, <2>7, <2>8, <2>9, <2>10, <2>11 DEF Step
  <1>6. ASSUME NEW p \in PoolIds, ServerDrop(p) PROVE RegistryInv'
    <2>1. SamePools
      BY <1>6 DEF ServerDrop, SamePools, Closed, PoolObjects
    <2> QED
      BY <1>2, <1>6, <2>1 DEF ServerDrop
  <1> QED
    BY <1>3, <1>4, <1>5, <1>6 DEF Next

-----------------------------------------------------------------------------
\* The configuration add_connection stores has the role its alias demands.
LEMMA AddedRole ==
    ASSUME TypeOK, StageOK, NEW t \in Threads, pc[t] = "adding"
    PROVE  RolesOf(AddAlias(t), AddConfig(t))
  <1>1. Alias(t) \in ToolAliases
    BY DEF TypeOK, Alias, Calls
  <1> QED
    BY <1>1 DEF RolesOf, AddAlias, AddConfig, StageOK

\* No step lets a pool of the wrong role into the registry or into a worker's
\* hands.
LEMMA RolesStep ==
    TypeOK /\ StageOK /\ RegistryInv /\ RolesOK /\ [Next]_vars => RolesOK'
  <1> SUFFICES ASSUME TypeOK, StageOK, RegistryInv, RolesOK, [Next]_vars PROVE RolesOK'
    OBVIOUS
  <1> USE DEF TypeOK, registry, local, Goto
  <1>1. ASSUME SamePools,
               \A u \in Threads : obj'[u] # None => obj'[u] = obj[u] /\ call'[u] = call[u]
        PROVE  RolesOK'
    <2>1. \A a \in Aliases : configs'[a] # None => RolesOf(a, configs'[a])
      BY <1>1 DEF SamePools, RolesOK
    <2>2. ASSUME NEW u \in Threads, (obj[u] # None)', (~Closed(obj[u]))'
          PROVE  RolesOf(ExecAlias(u), heap[obj[u]].cfg)'
      <3>1. obj'[u] \in PoolIds /\ obj'[u] = obj[u] /\ ExecAlias(u)' = ExecAlias(u)
        BY <1>1, <2>2 DEF ExecAlias, Tool, Alias
      <3>2. ~Closed(obj[u]) /\ heap'[obj[u]].cfg = heap[obj[u]].cfg
        BY <1>1, <2>2, <3>1 DEF SamePools, Closed
      <3> QED
        BY <3>1, <3>2 DEF RolesOK, RolesOf
    <2> QED
      BY <2>1, <2>2 DEF RolesOK, RolesOf
  <1>2. CASE UNCHANGED vars
    BY <1>1, <1>2 DEF vars, SamePools
  <1>3. ASSUME NEW t \in Threads, Submit(t) PROVE RolesOK'
    BY <1>1, <1>3 DEF Submit, SamePools, StageOK, InUse
  <1>4. ASSUME NEW t \in Threads, Step(t) PROVE RolesOK'
    <2>1. ASSUME NEW a \in Aliases, Remove(a) PROVE RolesOK'
      <3>1. /\ configs' = [configs EXCEPT ![a] = None]
            /\ \A p \in PoolIds : heap'[p] # None => heap'[p] = heap[p]
            /\ UNCHANGED <<obj, call>>
        BY <2>1 DEF Remove, CloseAll, Closed
      <3> QED
        BY <3>1 DEF RolesOK, RolesOf, ExecAlias, Tool, Alias, Closed
    <2>2. CASE DropRo(t)
      BY <2>1, <2>2 DEF DropRo, Alias, Calls
    <2>3. CASE Drop(t)
      BY <2>1, <2>3 DEF Drop, Alias, Calls
    <2>4. CASE BeginAdd(t)
      <3>1. /\ UNCHANGED <<configs, obj, call>>
            /\ \A p \in PoolIds : heap'[p] # None => heap'[p] = heap[p]
        BY <2>4 DEF BeginAdd, CloseAll, Closed
      <3> QED
        BY <3>1 DEF RolesOK, RolesOf, ExecAlias, Tool, Alias, Closed
    <2>5. CASE AddOk(t)
      <3>1. PICK p \in PoolIds :
              Unreferenced(p) /\ heap' = [heap EXCEPT ![p] = NewPool(AddConfig(t))]
        BY <2>5 DEF AddOk
      <3>2. RolesOf(AddAlias(t), AddConfig(t))
        BY <2>5, AddedRole DEF AddOk
      <3>3. /\ configs' = [configs EXCEPT ![AddAlias(t)] = AddConfig(t)]
            /\ UNCHANGED <<obj, call>>
        BY <2>5 DEF AddOk
      <3>4. \A a \in Aliases : configs'[a] # None => RolesOf(a, configs'[a])
        BY <3>2, <3>3 DEF RolesOK
      <3>5. ASSUME NEW u \in Threads, (obj[u] # None)', (~Closed(obj[u]))'
            PROVE  RolesOf(ExecAlias(u), heap[obj[u]].cfg)'
        <4>1. obj'[u] = obj[u] /\ obj[u] # p /\ ExecAlias(u)' = ExecAlias(u)
          BY <3>1, <3>3 DEF Unreferenced, ExecAlias, Tool, Alias
        <4>2. obj[u] \in PoolIds /\ heap'[obj[u]] = heap[obj[u]]
          BY <3>1, <3>5, <4>1
        <4> QED
          BY <3>5, <4>1, <4>2 DEF RolesOK, RolesOf, Closed
      <3> QED
        BY <3>4, <3>5 DEF RolesOK, RolesOf
    <2>6. CASE AddFail(t)
      BY <1>1, <2>6 DEF AddFail, SamePools
    <2>7. CASE RoLookup(t)
      BY <1>1, <2>7 DEF RoLookup, SamePools
    <2>8. CASE RoConfig(t)
      BY <1>1, <2>8 DEF RoConfig, SamePools
    <2>9. CASE GetPool(t)
      <3>1. ExecAlias(t) \in Aliases
        BY DEF ExecAlias, Alias, Calls
      <3>2. /\ UNCHANGED <<configs, pools, heap, call>>
            /\ obj' = [obj EXCEPT ![t] = pools[ExecAlias(t)]]
        BY <2>9 DEF GetPool
      <3>3. \A u \in Threads : ExecAlias(u)' = ExecAlias(u)
        BY <3>2 DEF ExecAlias, Tool, Alias
      <3>4. ASSUME pools[ExecAlias(t)] # None, ~Closed(pools[ExecAlias(t)])
            PROVE  RolesOf(ExecAlias(t), heap[pools[ExecAlias(t)]].cfg)
        BY <3>1, <3>4 DEF RegistryInv, RegistryConsistent, RolesOK
      <3> QED
        BY <3>2, <3>3, <3>4 DEF RolesOK, RolesOf, Closed
    <2>10. CASE GetConn(t) \/ Run(t) \/ Commit(t) \/ Rollback(t) \/ PutConn(t)
      <3>1. SamePools
        BY <2>10, ExecutionKeepsPools
      <3> QED
        BY <1>1, <2>10, <3>1 DEF GetConn, Run, Commit, Rollback, PutConn
    <2>11. CASE Return(t)
      BY <1>1, <2>11 DEF Return, SamePools
    <2> QED
      BY <1>4, <2>2, <2>3, <2>4, <2>5, <2>6, <2>7, <2>8, <2>9, <2>10, <2>11 DEF Step
  <1>5. ASSUME NEW p \in PoolIds, ServerDrop(p) PROVE RolesOK'
    <2>1. SamePools
      BY <1>5 DEF ServerDrop, SamePools, Closed, PoolObjects
    <2> QED
      BY <1>1, <1>5, <2>1 DEF ServerDrop
  <1> QED
    BY <1>2, <1>3, <1>4, <1>5 DEF Next

-----------------------------------------------------------------------------
\* ReplyMatchesEffect and EffectOK, for one worker.
Told(t) ==
    /\ Executes(t) =>
          /\ pc[t] \in {"putOk", "replyOk"} => applied[t] = "yes"
          /\ pc[t] = "replyError" /\ applied[t] = "yes" => obj[t] # None /\ Closed(obj[t])
          /\ pc[t] \in {"rollback", "putError"} => applied[t] # "yes"
    /\ pc[t] \notin InUse \cup {"replyOk", "replyError"} => applied[t] = "no"
    /\ pc[t] \in {"run", "commit"} => applied[t] = "no"

EffectInv == \A t \in Threads : Told(t)

LEMMA EffectInvMeaning == EffectInv <=> ReplyMatchesEffect /\ EffectOK
  BY DEF EffectInv, Told, ReplyMatchesEffect, EffectOK

\* A closed pool object stays closed while some worker still holds it.
LEMMA HeldStaysClosed ==
    ASSUME TypeOK, StageOK, [Next]_vars,
           NEW u \in Threads, obj[u] # None, Closed(obj[u]), obj'[u] = obj[u]
    PROVE  Closed(obj[u])'
  <1> USE DEF TypeOK, Closed
  <1>1. CASE heap' = heap
    BY <1>1
  <1>2. ASSUME NEW p \in PoolIds \cup {None}, CloseAll(p) PROVE heap'[obj[u]] = None
    BY <1>2 DEF CloseAll
  <1>3. ASSUME NEW t \in Threads, Step(t) PROVE heap'[obj[u]] = None
    <2>1. CASE DropRo(t)
      BY <1>2, <2>1 DEF DropRo, Remove, Alias, Calls
    <2>2. CASE Drop(t)
      BY <1>2, <2>2 DEF Drop, Remove, Alias, Calls
    <2>3. CASE BeginAdd(t)
      BY <1>2, <2>3 DEF BeginAdd, AddAlias, Alias, Calls
    <2>4. CASE AddOk(t)
      BY <2>4 DEF AddOk, Unreferenced
    <2>5. CASE GetConn(t) \/ Run(t) \/ Commit(t) \/ Rollback(t) \/ PutConn(t)
      BY <2>5, ExecutionKeepsPools DEF SamePools
    <2> QED
      BY <1>1, <1>3, <2>1, <2>2, <2>3, <2>4, <2>5
         DEF Step, AddFail, RoLookup, RoConfig, GetPool, Return
  <1> QED
    BY <1>1, <1>3 DEF Next, Submit, ServerDrop, vars

\* Answers keep telling what the transaction did, whatever closes the pool.
LEMMA EffectStep == TypeOK /\ StageOK /\ EffectInv /\ [Next]_vars => EffectInv'
  <1> SUFFICES ASSUME TypeOK, StageOK, EffectInv, [Next]_vars PROVE EffectInv'
    OBVIOUS
  <1> USE DEF TypeOK, registry, local, Goto, EffectInv
  <1>1. ASSUME NEW u \in Threads,
               pc'[u] = pc[u], obj'[u] = obj[u], call'[u] = call[u], applied'[u] = applied[u]
        PROVE  Told(u)'
    <2>1. Executes(u)' = Executes(u)
      BY <1>1 DEF Executes, Tool
    <2>2. Told(u)
      OBVIOUS
    <2>3. obj[u] # None /\ Closed(obj[u]) => Closed(obj[u])'
      BY <1>1, HeldStaysClosed
    <2> QED
      BY <1>1, <2>1, <2>2, <2>3 DEF Told, Closed
  <1>2. CASE UNCHANGED vars
    BY <1>1, <1>2 DEF vars
  <1>3. ASSUME NEW t \in Threads, Submit(t) \/ Step(t) PROVE EffectInv'
    <2>1. \A u \in Threads \ {t} :
             /\ pc'[u] = pc[u] /\ obj'[u] = obj[u]
             /\ call'[u] = call[u] /\ applied'[u] = applied[u]
      BY <1>3 DEF Submit, Step, DropRo, Drop, Remove, BeginAdd, AddOk, AddFail, RoLookup,
                  RoConfig, GetPool, GetConn, Run, Commit, Rollback, PutConn, Return
    <2>2. Told(t)'
      <3> USE DEF Told, InUse
      <3>1. CASE Submit(t)
        BY <3>1, EntryStage DEF Submit
      <3>2. CASE DropRo(t) \/ Drop(t) \/ BeginAdd(t) \/ AddOk(t) \/ AddFail(t)
        BY <3>2 DEF DropRo, Drop, Remove, BeginAdd, AddOk, AddFail, Executes, Tool,
                    NeedsRo, StageOK
      <3>3. CASE RoLookup(t) \/ RoConfig(t) \/ GetPool(t)
        BY <3>3 DEF RoLookup, RoConfig, GetPool, Executes, Tool
      <3>4. CASE GetConn(t)
        BY <3>4 DEF GetConn, Executes, Tool
      <3>5. CASE Run(t)
        BY <3>5 DEF Run, Executes, Tool
      <3>6. CASE Commit(t)
        BY <3>6 DEF Commit, Executes, Tool
      <3>7. CASE Rollback(t)
        BY <3>7 DEF Rollback, Executes, Tool
      <3>8. CASE PutConn(t)
        BY <3>8 DEF PutConn, Executes, Tool, Closed, StageOK
      <3>9. CASE Return(t)
        BY <3>9 DEF Return
      <3> QED
        BY <1>3, <3>1, <3>2, <3>3, <3>4, <3>5, <3>6, <3>7, <3>8, <3>9 DEF Step
    <2> QED
      BY <1>1, <2>1, <2>2
  <1>4. ASSUME NEW p \in PoolIds, ServerDrop(p) PROVE EffectInv'
    BY <1>1, <1>4 DEF ServerDrop
  <1> QED
    BY <1>2, <1>3, <1>4 DEF Next

-----------------------------------------------------------------------------
\* The invariant holds in every reachable state of every instance.
THEOREM Invariance == Spec => []IndInv
  <1>1. Init => IndInv
    <2>1. Init => TypeOK /\ StageOK
      BY InitTypes
    <2>2. Init => RegistryInv
      BY EntryStage DEF Init, RegistryInv, RegistryConsistent, OpenPoolsRegistered,
                        ReplacedIsClosed, Closed, Tools
    <2>3. Init => RolesOK
      BY DEF Init, RolesOK
    <2>4. Init => EffectInv
      BY InitPlace DEF EffectInv, Told, InUse
    <2> QED
      BY <2>1, <2>2, <2>3, <2>4, EffectInvMeaning DEF IndInv, RegistryInv
  <1>2. IndInv /\ [Next]_vars => IndInv'
    <2> SUFFICES ASSUME IndInv, [Next]_vars PROVE IndInv'
      OBVIOUS
    <2>1. TypeOK /\ StageOK /\ RegistryInv /\ RolesOK /\ EffectInv
      BY EffectInvMeaning DEF IndInv, RegistryInv
    <2>2. TypeOK' /\ StageOK'
      BY <2>1, TypeStep, StageStep
    <2>3. RegistryInv' /\ RolesOK' /\ EffectInv'
      BY <2>1, RegistryStep, RolesStep, EffectStep
    <2>4. (ReplyMatchesEffect /\ EffectOK)'
      BY <2>3, EffectInvMeaning DEF EffectInv, Told, ReplyMatchesEffect, EffectOK
    <2> QED
      BY <2>2, <2>3, <2>4 DEF IndInv, RegistryInv
  <1> QED
    BY <1>1, <1>2, PTL DEF Spec

\* The registry's two dictionaries never disagree, and no open pool is lost from
\* it, however add_connection and remove_connection of any aliases interleave.
THEOREM RegistrySafe == Spec => [](RegistryConsistent /\ OpenPoolsRegistered)
  <1>1. IndInv => RegistryConsistent /\ OpenPoolsRegistered
    BY DEF IndInv
  <1> QED
    BY <1>1, Invariance, PTL

\* The answer to execute_query and execute_statement tells what happened to the
\* data, except under a pool that another call closed or a lost COMMIT.
THEOREM RepliesSafe == Spec => []ReplyMatchesEffect
  <1>1. IndInv => ReplyMatchesEffect
    BY DEF IndInv
  <1> QED
    BY <1>1, Invariance, PTL

\* execute_query is never served by the primary role once a read-only role is
\* configured, nor the other tools by the read-only role.
THEOREM RolesSafe == Spec => []RolesSeparated
  <1>1. IndInv => RolesSeparated
    <2> SUFFICES ASSUME IndInv, NEW t \in Threads, pc[t] \in InUse, ~Closed(obj[t])
                 PROVE  /\ NeedsRo(Tool(t)) /\ RO[Alias(t)] \notin ToolAliases
                              => heap[obj[t]].cfg.role = "ro"
                        /\ ~NeedsRo(Tool(t)) /\ Alias(t) \notin Suffixed
                              => heap[obj[t]].cfg.role = "primary"
      BY DEF RolesSeparated
    <2>1. obj[t] # None /\ Alias(t) \in ToolAliases
      BY DEF IndInv, StageOK, TypeOK, Alias, Calls
    <2>2. RolesOf(ExecAlias(t), heap[obj[t]].cfg)
      BY <2>1 DEF IndInv, RolesOK
    <2> QED
      BY <2>1, <2>2 DEF RolesOf, ExecAlias
  <1> QED
    BY <1>1, Invariance, PTL

-----------------------------------------------------------------------------
\* The threaded registry implements the abstract one: each step, the lock and
\* the pool objects hidden, retires, installs or removes one entry, or nothing.
THEOREM RegistryRefinement == Spec => ImplementsRegistry
  <1> DEFINE Serves(a) == ~Closed(pools[a])
             Entry1(a) == IF pools[a] = None THEN None
                          ELSE [cfg |-> configs[a], serves |-> Serves(a)]
             Table == [a \in Aliases |-> Entry1(a)]
  <1>1. Init => Registry!Init
    BY DEF Init, Registry!Init
  <1>2. ASSUME IndInv, [Next]_vars PROVE [Registry!Next]_Table
    <2> USE DEF registry, local
    <2>0. /\ TypeOK /\ StageOK /\ RegistryInv
          /\ \A t \in Threads : /\ Alias(t) \in Aliases /\ RO[Alias(t)] \in Aliases
                                /\ AddAlias(t) \in Aliases
      BY <1>2 DEF IndInv, RegistryInv, TypeOK, Calls, Alias, AddAlias
    <2>1. ASSUME SamePools PROVE UNCHANGED Table
      <3>1. \A a \in Aliases : Entry1(a)' = Entry1(a)
        BY <2>0, <2>1 DEF SamePools, TypeOK, Closed
      <3> QED
        BY <3>1
    <2>2. ASSUME NEW a \in Aliases, Remove(a) PROVE Registry!Remove(a)
      <3>1. \A b \in Aliases : Entry1(b)' = IF b = a THEN None ELSE Entry1(b)
        BY <2>0, <2>2 DEF Remove, CloseAll, Closed, TypeOK, RegistryInv, OpenPoolsRegistered
      <3> QED
        BY <3>1 DEF Registry!Remove
    <2>3. ASSUME NEW t \in Threads, BeginAdd(t), NEW a \in Aliases, a = AddAlias(t)
          PROVE  Registry!Retire(a) \/ UNCHANGED Table
      <3>1. /\ UNCHANGED <<configs, pools>>
            /\ \A p \in PoolIds : heap'[p] = IF p = pools[a] THEN None ELSE heap[p]
        BY <2>0, <2>3 DEF BeginAdd, CloseAll, Closed, TypeOK
      <3>2. CASE pools[a] = None
        <4>0. \A p \in PoolIds : p # pools[a]
          BY <3>2
        <4>1. \A p \in PoolIds : Closed(p)' <=> Closed(p)
          BY <3>1, <4>0 DEF Closed
        <4>2. \A b \in Aliases : Entry1(b)' = Entry1(b)
          BY <2>0, <3>1, <4>1 DEF TypeOK
        <4> QED
          BY <4>2
      <3>3. CASE pools[a] # None
        <4>0. pools[a] \in PoolIds /\ heap'[pools[a]] = None
          BY <2>0, <3>1, <3>3 DEF TypeOK
        <4>1. Entry1(a)' = [cfg |-> configs[a], serves |-> FALSE]
          BY <3>1, <3>3, <4>0 DEF Closed
        <4>2. ASSUME NEW b \in Aliases, b # a, pools[b] # None
              PROVE  Closed(pools[b])' <=> Closed(pools[b])
          BY <2>0, <3>1, <3>3, <4>2 DEF Closed, TypeOK, RegistryInv, OpenPoolsRegistered
        <4>3. \A b \in Aliases : b # a => Entry1(b)' = Entry1(b)
          BY <3>1, <4>2
        <4>4. configs[a] \in Configs /\ Serves(a) \in BOOLEAN
          BY <2>0, <3>3 DEF TypeOK, RegistryInv, RegistryConsistent, Closed
        <4>5. /\ Table[a] = [cfg |-> configs[a], serves |-> Serves(a)]
              /\ Table[a].cfg = configs[a]
          BY <3>3
        <4>6. Table[a] # None
          <5> HIDE DEF Serves
          <5>1. [cfg |-> configs[a], serves |-> Serves(a)] \in [cfg : Configs, serves : BOOLEAN]
            BY <4>4
          <5> QED
            BY <4>5, <5>1
        <4>7. Table' = [b \in Aliases |-> IF b = a THEN [cfg |-> Table[a].cfg, serves |-> FALSE]
                                          ELSE Table[b]]
          BY <4>1, <4>3, <4>5
        <4> QED
          BY <4>6, <4>7 DEF Registry!Retire
      <3> QED
        BY <3>2, <3>3
    <2>4. ASSUME NEW t \in Threads, AddOk(t), NEW a \in Aliases, a = AddAlias(t),
                 NEW c \in Configs, c = AddConfig(t)
          PROVE  Registry!Install(a, c)
      <3>1. PICK p \in PoolIds :
              /\ Unreferenced(p)
              /\ heap' = [heap EXCEPT ![p] = NewPool(c)]
              /\ pools' = [pools EXCEPT ![a] = p]
              /\ configs' = [configs EXCEPT ![a] = c]
        BY <2>4 DEF AddOk
      <3>2. NewPool(c) # None
        BY <2>0, <2>4 DEF NewPool, PoolObjects
      <3>3. \A b \in Aliases :
              Entry1(b)' = IF b = a THEN [cfg |-> c, serves |-> TRUE] ELSE Entry1(b)
        BY <2>0, <3>1, <3>2 DEF Closed, TypeOK, Unreferenced
      <3>4. Table[a] # None => ~Table[a].serves
        BY <2>0, <2>4 DEF AddOk, RegistryInv, ReplacedIsClosed
      <3> QED
        BY <3>3, <3>4 DEF Registry!Install
    <2>5. ASSUME NEW t \in Threads, Step(t) PROVE [Registry!Next]_Table
      <3>1. CASE DropRo(t)
        BY <2>0, <2>2, <3>1 DEF DropRo, Registry!Next
      <3>2. CASE Drop(t)
        BY <2>0, <2>2, <3>2 DEF Drop, Registry!Next
      <3>3. CASE BeginAdd(t)
        <4>1. PICK a \in Aliases : a = AddAlias(t)
          BY <2>0
        <4> QED
          BY <2>3, <3>3, <4>1 DEF Registry!Next
      <3>4. CASE AddOk(t)
        <4>1. AddConfig(t) \in Configs
          BY <2>0, <3>4 DEF AddOk, AddConfig, StageOK, Configs, Roles, Calls, TypeOK
        <4>2. PICK a \in Aliases, c \in Configs : a = AddAlias(t) /\ c = AddConfig(t)
          BY <2>0, <4>1
        <4>3. Registry!Install(a, c)
          BY <2>4, <3>4, <4>2
        <4> QED
          BY <4>3 DEF Registry!Next
      <3>5. CASE GetConn(t) \/ Run(t) \/ Commit(t) \/ Rollback(t) \/ PutConn(t)
        <4>1. SamePools
          BY <2>0, <3>5, ExecutionKeepsPools
        <4> QED
          BY <2>1, <4>1
      <3>6. CASE AddFail(t) \/ RoLookup(t) \/ RoConfig(t) \/ GetPool(t) \/ Return(t)
        <4>1. SamePools
          BY <3>6 DEF SamePools, AddFail, RoLookup, RoConfig, GetPool, Return
        <4> QED
          BY <2>1, <4>1
      <3> QED
        BY <2>5, <3>1, <3>2, <3>3, <3>4, <3>5, <3>6 DEF Step
    <2>6. ASSUME UNCHANGED vars \/ \E t \in Threads : Submit(t) PROVE UNCHANGED Table
      <3>1. SamePools
        BY <2>6 DEF vars, Submit, SamePools
      <3> QED
        BY <2>1, <3>1
    <2>7. ASSUME NEW p \in PoolIds, ServerDrop(p) PROVE UNCHANGED Table
      <3>1. SamePools
        BY <2>0, <2>7 DEF ServerDrop, SamePools, Closed, PoolObjects, TypeOK
      <3> QED
        BY <2>1, <3>1
    <2> QED
      BY <1>2, <2>5, <2>6, <2>7 DEF Next
  <1> QED
    BY <1>1, <1>2, Invariance, PTL DEF Spec, ImplementsRegistry, Registry!Spec

-----------------------------------------------------------------------------
(* SqlPoolHistory: the read-only pool follows the primary alias *)

\* A step of the system, in the terms the invariant needs.
LEMMA HistoryStep ==
    IndInv /\ IndInv' /\ HInv /\ [HNext]_hvars => HInv'
  <1> SUFFICES ASSUME IndInv, IndInv', HInv, [HNext]_hvars,
                      NEW a \in Plain, a \notin overlapped'
               PROVE  RoUpToDate(a)'
    BY DEF HInv, Plain
  <1> USE DEF registry, local, Goto
  <1>0. /\ pc \in [Threads -> Labels] /\ call \in [Threads -> Calls]
        /\ snap \in [Threads -> Configs \cup {None}]
        /\ configs \in [Aliases -> Configs \cup {None}]
        /\ StageOK
    BY DEF IndInv, TypeOK
  <1>1. CASE UNCHANGED hvars
    <2>1. RoUpToDate(a) /\ UNCHANGED <<configs, pc, call, snap>>
      BY <1>1 DEF hvars, vars, HInv
    <2> QED
      BY <2>1 DEF RoUpToDate, Overlap, BuildsRo, ChangesPrimary, Tool, Alias
  <1>2. CASE HNext
    <2>1. ~Overlap(a)'
      <3>1. a \in ToolAliases /\ a \notin {b \in ToolAliases : Overlap(b)'}
        BY <1>2 DEF HNext, Remember, Plain
      <3> QED
        BY <3>1
    <2>2. CASE a \in overlapped
      <3>1. pools'[RO[a]] = None /\ \A t \in Threads : ~BuildsRo(t, a)'
        BY <1>2, <2>2 DEF HNext, Remember, Plain
      <3>2. configs'[RO[a]] = None
        BY <3>1 DEF IndInv, RegistryConsistent, Plain
      <3> QED
        BY <2>1, <3>1, <3>2 DEF RoUpToDate
    <2>3. CASE a \notin overlapped
      <3>1. RoUpToDate(a)
        BY <2>3 DEF HInv
      <3>2. RO[a] \in Aliases /\ a \in Aliases /\ RO[a] # a /\ a \in ToolAliases
        BY DEF Plain
      <3> USE DEF RoUpToDate, Overlap, BuildsRo, ChangesPrimary, Tool, Alias, NeedsRo
      <3>3. ASSUME UNCHANGED <<configs, snap, call>>,
                   \A u \in Threads : \/ pc'[u] = pc[u]
                                      \/ pc[u] = "add" /\ pc'[u] = "adding"
                                      \/ pc'[u] \notin {"drop", "add", "adding"}
            PROVE  RoUpToDate(a)'
        BY <2>1, <3>1, <3>3
      <3>4. ASSUME NEW t \in Threads, Submit(t) \/ Return(t) PROVE RoUpToDate(a)'
        <4>1. /\ UNCHANGED configs
              /\ \A u \in Threads \ {t} : /\ pc'[u] = pc[u] /\ call'[u] = call[u]
                                          /\ snap'[u] = snap[u]
          BY <1>0, <3>4 DEF Submit, Return
        <4>2. ~ChangesPrimary(t, a)' /\ ~(BuildsRo(t, a) /\ pc[t] # "roConfig")'
          <5>1. CASE Return(t)
            BY <1>0, <5>1 DEF Return
          <5>2. CASE Submit(t)
            <6>1. PICK tool \in Tools, b \in ToolAliases :
                     /\ call'[t].tool = tool /\ call'[t].alias = b
                     /\ pc'[t] \in {Entry(tool, b), "replyError"}
              BY <1>0, <5>2 DEF Submit
            <6>2. b \notin Suffixed => Entry(tool, b) \notin {"drop", "add", "adding"}
              BY EntryStage DEF Entry
            <6> QED
              BY <6>1, <6>2 DEF Plain
          <5> QED
            BY <3>4, <5>1, <5>2
        <4> QED
          BY <2>1, <3>1, <4>1, <4>2
      <3>5. ASSUME NEW t \in Threads, Step(t) PROVE RoUpToDate(a)'
        <4>1. CASE DropRo(t)
          <5>1. /\ Alias(t) \in ToolAliases
                /\ configs' = [configs EXCEPT ![RO[Alias(t)]] = None]
                /\ UNCHANGED <<call, snap>>
                /\ \A u \in Threads \ {t} : pc'[u] = pc[u]
                /\ pc'[t] \in {"drop", "add"}
                /\ Tool(t) \in {"connect_db", "disconnect_db"}
            BY <1>0, <4>1 DEF DropRo, Remove, Calls, StageOK
          <5>2. RO[Alias(t)] # a /\ (Alias(t) # a => RO[Alias(t)] # RO[a])
            BY <3>2, <5>1 DEF Plain
          <5> QED
            BY <1>0, <2>1, <3>1, <3>2, <5>1, <5>2
        <4>2. CASE Drop(t)
          <5>1. /\ Alias(t) \in ToolAliases
                /\ configs' = [configs EXCEPT ![Alias(t)] = None]
                /\ UNCHANGED <<call, snap>>
                /\ \A u \in Threads \ {t} : pc'[u] = pc[u]
                /\ pc[t] = "drop" /\ pc'[t] = "replyOk"
                /\ Tool(t) \in {"connect_db", "disconnect_db"}
            BY <1>0, <4>2 DEF Drop, Remove, Calls, StageOK
          <5>2. Alias(t) # RO[a]
            BY <5>1 DEF Plain
          <5>3. CASE Alias(t) = a
            BY <1>0, <2>1, <3>1, <3>2, <5>1, <5>2, <5>3
          <5>4. CASE Alias(t) # a
            BY <1>0, <2>1, <3>1, <3>2, <5>1, <5>2, <5>4
          <5> QED
            BY <5>3, <5>4
        <4>3. CASE BeginAdd(t)
          BY <1>0, <3>3, <4>3 DEF BeginAdd
        <4>4. CASE AddOk(t)
          <5>1. /\ Alias(t) \in ToolAliases
                /\ configs' = [configs EXCEPT ![AddAlias(t)] = AddConfig(t)]
                /\ UNCHANGED <<call, snap>>
                /\ \A u \in Threads \ {t} : pc'[u] = pc[u]
                /\ pc[t] = "adding" /\ pc'[t] \in {"getPool", "replyOk"}
            BY <1>0, <4>4 DEF AddOk, Calls
          <5>2. CASE Tool(t) = "connect_db"
            <6>1. AddAlias(t) = Alias(t) /\ Alias(t) # RO[a] /\ AddConfig(t) # None
              BY <1>0, <5>1, <5>2 DEF AddAlias, AddConfig, Plain, Configs, Roles, Calls
            <6>2. CASE Alias(t) = a
              BY <1>0, <2>1, <3>1, <3>2, <5>1, <5>2, <6>1, <6>2
            <6>3. CASE Alias(t) # a
              BY <1>0, <2>1, <3>1, <3>2, <5>1, <5>2, <6>1, <6>3
            <6> QED
              BY <6>2, <6>3
          <5>3. CASE NeedsRo(Tool(t))
            <6>1. /\ AddAlias(t) = RO[Alias(t)] /\ RO[Alias(t)] # a
                  /\ AddConfig(t).target = snap[t].target
                  /\ snap[t] # None
              BY <1>0, <5>1, <5>3 DEF AddAlias, AddConfig, Plain, StageOK
            <6>2. CASE Alias(t) = a
              <7>1. BuildsRo(t, a) /\ snap[t] = configs[a]
                BY <3>1, <5>1, <5>3, <6>2
              <7>2. \A u \in Threads : ~ChangesPrimary(u, a)
                BY <3>1, <7>1
              <7> QED
                BY <1>0, <2>1, <3>1, <3>2, <5>1, <5>3, <6>1, <6>2, <7>1, <7>2
            <6>3. CASE Alias(t) # a
              <7>1. RO[Alias(t)] # RO[a]
                BY <3>2, <5>1, <6>3
              <7> QED
                BY <1>0, <2>1, <3>1, <3>2, <5>1, <5>3, <6>1, <7>1
            <6> QED
              BY <6>2, <6>3
          <5> QED
            BY <1>0, <5>1, <5>2, <5>3 DEF StageOK
        <4>5. CASE RoConfig(t)
          <5>1. /\ snap' = [snap EXCEPT ![t] = configs[Alias(t)]]
                /\ UNCHANGED <<call, configs>>
                /\ \A u \in Threads \ {t} : pc'[u] = pc[u]
                /\ pc[t] = "roConfig" /\ pc'[t] \in {"replyError", "add"}
            BY <1>0, <4>5 DEF RoConfig
          <5> QED
            BY <1>0, <2>1, <3>1, <5>1 DEF StageOK
        <4>6. CASE Return(t)
          BY <3>4, <4>6
        <4>7. CASE AddFail(t) \/ RoLookup(t) \/ GetPool(t) \/ GetConn(t) \/ Run(t)
                   \/ Commit(t) \/ Rollback(t) \/ PutConn(t)
          BY <1>0, <3>3, <4>7 DEF AddFail, RoLookup, GetPool, GetConn, Run, Commit, Rollback, PutConn
        <4> QED
          BY <3>5, <4>1, <4>2, <4>3, <4>4, <4>5, <4>6, <4>7 DEF Step
      <3>6. ASSUME NEW p \in PoolIds, ServerDrop(p) PROVE RoUpToDate(a)'
        BY <3>3, <3>6 DEF ServerDrop
      <3> QED
        BY <1>2, <3>4, <3>5, <3>6 DEF HNext, Next
    <2> QED
      BY <2>2, <2>3
  <1> QED
    BY <1>1, <1>2

\* The history variables do not constrain the system: Invariance carries over.
LEMMA HistoryInvariance == HSpec => []IndInv
  <1>1. HInit => Init
    BY DEF HInit
  <1>2. [HNext]_hvars => [Next]_vars
    BY DEF HNext, hvars, vars
  <1>3. HSpec => Spec
    BY <1>1, <1>2, PTL DEF HSpec, Spec
  <1> QED
    BY <1>3, Invariance, PTL

\* A query goes where the statements of its alias go, unless it overlapped a
\* connect_db or disconnect_db of that alias.
THEOREM RoutingSafe == HSpec => []RoFollowsPrimary
  <1>1. HInit => HInv
    <2>1. ASSUME HInit, NEW a \in Plain PROVE RoUpToDate(a)
      <3>1. RO[a] \in Aliases /\ a \notin Suffixed
        BY DEF Plain
      <3>2. \A t \in Threads : call[t].tool = "connect_db"
        BY <2>1 DEF HInit, Init
      <3>3. \A t \in Threads : ~BuildsRo(t, a)
        BY <3>2 DEF BuildsRo, NeedsRo, Tool
      <3>4. configs[RO[a]] = None
        BY <2>1, <3>1 DEF HInit, Init
      <3> QED
        BY <3>3, <3>4 DEF RoUpToDate, Overlap
    <2> QED
      BY <2>1 DEF HInv
  <1>2. IndInv /\ HInv => RoFollowsPrimary
    <2> SUFFICES ASSUME IndInv, HInv, NEW a \in Plain \ overlapped,
                        pools[RO[a]] # None, ~Closed(pools[RO[a]])
                 PROVE  /\ configs[a] # None
                        /\ heap[pools[RO[a]]].cfg.target = configs[a].target
      BY DEF RoFollowsPrimary
    <2>1. configs[RO[a]] # None /\ heap[pools[RO[a]]].cfg = configs[RO[a]]
      BY DEF IndInv, RegistryConsistent, Plain
    <2> QED
      BY <2>1 DEF HInv, RoUpToDate
  <1> QED
    BY <1>1, <1>2, HistoryStep, HistoryInvariance, PTL DEF HSpec

-----------------------------------------------------------------------------
(* The connections of a pool *)

\* A worker is between getconn and putconn on a pool.
Holds(t, p) == obj[t] = p /\ pc[t] \in InUse

\* What the accounting says of one pool.
AccountedAt(p) ==
    ~Closed(p) =>
        /\ heap[p].used = {t \in Threads : Holds(t, p)}
        /\ IsFiniteSet(heap[p].used)
        /\ Cardinality(heap[p].used) + (IF heap[p].idle = "none" THEN 0 ELSE 1) <= MaxConn

\* A pool keeps its account if it is closed, or if neither its connections nor the
\* workers that hold one change; a connection may die meanwhile.
LEMMA AccountStays ==
    ASSUME NEW p \in PoolIds, AccountedAt(p),
           \/ heap'[p] = None
           \/ /\ heap[p] # None
              /\ heap'[p].used = heap[p].used
              /\ heap'[p].idle = "none" <=> heap[p].idle = "none",
           \A t \in Threads : Holds(t, p)' <=> Holds(t, p)
    PROVE  AccountedAt(p)'
  <1>1. CASE heap'[p] = None
    BY <1>1 DEF AccountedAt, Closed
  <1>2. CASE /\ heap[p] # None
             /\ heap'[p].used = heap[p].used
             /\ heap'[p].idle = "none" <=> heap[p].idle = "none"
    <2>1. {t \in Threads : Holds(t, p)'} = {t \in Threads : Holds(t, p)}
      OBVIOUS
    <2>2. /\ heap[p].used = {t \in Threads : Holds(t, p)}
          /\ IsFiniteSet(heap[p].used)
          /\ Cardinality(heap[p].used) + (IF heap[p].idle = "none" THEN 0 ELSE 1) <= MaxConn
      BY <1>2 DEF AccountedAt, Closed
    <2> QED
      BY <1>2, <2>1, <2>2 DEF AccountedAt
  <1> QED
    BY <1>1, <1>2

\* A worker that is not executing, and will not be after its step, holds nothing.
LEMMA HoldsStays ==
    ASSUME TypeOK, NEW t \in Threads, pc[t] \notin InUse, pc'[t] \notin InUse,
           \A u \in Threads \ {t} : pc'[u] = pc[u] /\ obj'[u] = obj[u],
           NEW p, NEW u \in Threads
    PROVE  Holds(u, p)' <=> Holds(u, p)
  BY DEF Holds

\* The workers outside a step keep their place and their pool.
LEMMA BystandersKeep ==
    ASSUME TypeOK, NEW t \in Threads, Submit(t) \/ Step(t), NEW u \in Threads \ {t}
    PROVE  pc'[u] = pc[u] /\ obj'[u] = obj[u]
  <1> USE DEF TypeOK, registry, local, Goto
  <1>1. CASE Submit(t)
    BY <1>1 DEF Submit
  <1>2. CASE DropRo(t) \/ Drop(t) \/ BeginAdd(t) \/ AddOk(t) \/ AddFail(t)
    BY <1>2 DEF DropRo, Drop, Remove, BeginAdd, AddOk, AddFail
  <1>3. CASE RoLookup(t) \/ RoConfig(t) \/ GetPool(t) \/ GetConn(t) \/ Run(t)
    BY <1>3 DEF RoLookup, RoConfig, GetPool, GetConn, Run
  <1>4. CASE Commit(t) \/ Rollback(t) \/ PutConn(t) \/ Return(t)
    BY <1>4 DEF Commit, Rollback, PutConn, Return
  <1> QED
    BY <1>1, <1>2, <1>3, <1>4 DEF Step

\* Closing a pool closes no other.
LEMMA ClosedOrKept ==
    ASSUME TypeOK, NEW q \in PoolIds \cup {None}, CloseAll(q), NEW p \in PoolIds
    PROVE  heap'[p] = None \/ heap'[p] = heap[p]
  BY DEF TypeOK, CloseAll

\* getconn lends at most the one connection that the pool may still open.
LEMMA GetConnAccounts ==
    ASSUME TypeOK, StageOK, NEW t \in Threads, GetConn(t), NEW p \in PoolIds,
           AccountedAt(p)
    PROVE  AccountedAt(p)'
  <1> USE DEF registry, local, Goto
  <1>1. /\ pc[t] = "getConn" /\ pc[t] \notin InUse /\ obj[t] \in PoolIds
        /\ UNCHANGED obj
        /\ heap[p] \in PoolObjects \cup {None}
    BY DEF GetConn, StageOK, TypeOK, InUse
  <1>2. \A u \in Threads \ {t} : pc'[u] = pc[u] /\ obj'[u] = obj[u]
    BY BystandersKeep DEF Step
  <1>3. CASE UNCHANGED heap /\ pc'[t] = "replyError"
    <2>1. \A u \in Threads : Holds(u, p)' <=> Holds(u, p)
      BY <1>1, <1>2, <1>3, HoldsStays DEF InUse
    <2> QED
      BY <1>3, <2>1, AccountStays DEF AccountedAt, Closed
  <1>4. ASSUME NEW c, Lend(t, obj[t], c), pc'[t] = "run", ~Closed(obj[t]),
               \/ Idle(obj[t]) # "none"
               \/ Idle(obj[t]) = "none" /\ ~Exhausted(obj[t])
        PROVE  AccountedAt(p)'
    <2>1. CASE p # obj[t]
      <3>1. heap'[p] = heap[p]
        BY <1>1, <1>4, <2>1 DEF Lend, TypeOK
      <3>2. \A u \in Threads : Holds(u, p)' <=> Holds(u, p)
        BY <1>1, <1>2, <2>1 DEF Holds
      <3> QED
        BY <3>1, <3>2, AccountStays DEF AccountedAt, Closed
    <2>2. CASE p = obj[t]
      <3>1. /\ heap[p].used = {u \in Threads : Holds(u, p)}
            /\ IsFiniteSet(heap[p].used)
            /\ Cardinality(heap[p].used) + (IF heap[p].idle = "none" THEN 0 ELSE 1) <= MaxConn
            /\ heap[p] # None
        BY <1>4, <2>2 DEF AccountedAt, Closed
      <3>2. heap'[p].used = heap[p].used \cup {t} /\ heap'[p].idle = "none"
        BY <1>4, <2>2 DEF Lend, TypeOK
      <3>3. t \notin heap[p].used
        BY <1>1, <3>1 DEF Holds
      <3>4. /\ IsFiniteSet(heap'[p].used)
            /\ Cardinality(heap'[p].used) = Cardinality(heap[p].used) + 1
        <4> DEFINE lent == heap[p].used
        <4>1. t \notin lent /\ IsFiniteSet(lent)
          BY <3>1, <3>3
        <4>2. heap'[p].used = lent \cup {t}
          BY <3>2
        <4> HIDE DEF lent
        <4>3. IsFiniteSet(lent \cup {t}) /\ Cardinality(lent \cup {t}) = Cardinality(lent) + 1
          BY <4>1, FS_AddElement
        <4>4. IsFiniteSet(heap'[p].used) /\ Cardinality(heap'[p].used) = Cardinality(lent) + 1
          BY <4>2, <4>3
        <4> QED
          BY <4>4 DEF lent
      <3>5. Cardinality(heap[p].used) \in Nat
        BY <3>1, FS_CardinalityType
      <3>6. Cardinality(heap'[p].used) <= MaxConn
        <4>1. CASE Idle(p) # "none"
          <5>1. heap[p].idle # "none"
            BY <3>1, <4>1 DEF Idle, Closed
          <5> QED
            BY <3>1, <3>4, <3>5, <5>1
        <4>2. CASE ~Exhausted(p)
          BY <3>4, <3>5, <4>2 DEF Exhausted
        <4> QED
          BY <1>4, <2>2, <4>1, <4>2
      <3>7. heap'[p].used = {u \in Threads : Holds(u, p)'}
        <4>1. Holds(t, p)'
          BY <1>1, <1>4, <2>2 DEF Holds, InUse
        <4>2. \A u \in Threads \ {t} : Holds(u, p)' <=> Holds(u, p)
          BY <1>2 DEF Holds
        <4> QED
          BY <3>1, <3>2, <4>1, <4>2
      <3> QED
        BY <3>2, <3>4, <3>5, <3>6, <3>7 DEF AccountedAt
    <2> QED
      BY <2>1, <2>2
  <1>5. Idle(obj[t]) # "none" => ~Closed(obj[t])
    BY DEF Idle
  <1> QED
    BY <1>3, <1>4, <1>5 DEF GetConn, TypeOK

\* putconn gives back the one connection that the worker holds.
LEMMA PutConnAccounts ==
    ASSUME TypeOK, StageOK, NEW t \in Threads, PutConn(t), NEW p \in PoolIds,
           AccountedAt(p)
    PROVE  AccountedAt(p)'
  <1> USE DEF registry, local, Goto
  <1>1. /\ pc[t] \in {"putOk", "putError"} /\ pc[t] \in InUse /\ pc'[t] \notin InUse
        /\ obj[t] \in PoolIds
        /\ UNCHANGED obj
    BY DEF PutConn, StageOK, TypeOK, InUse
  <1>2. \A u \in Threads \ {t} : pc'[u] = pc[u] /\ obj'[u] = obj[u]
    BY BystandersKeep DEF Step
  <1>3. CASE p # obj[t]
    <2>1. heap'[p] = heap[p]
      BY <1>1, <1>3 DEF PutConn, TypeOK
    <2>2. \A u \in Threads : Holds(u, p)' <=> Holds(u, p)
      BY <1>1, <1>2, <1>3 DEF Holds
    <2> QED
      BY <2>1, <2>2, AccountStays DEF AccountedAt, Closed
  <1>4. CASE p = obj[t] /\ Closed(p)
    BY <1>4 DEF PutConn, AccountedAt, Closed
  <1>5. CASE p = obj[t] /\ ~Closed(p)
    <2>1. /\ heap[p].used = {u \in Threads : Holds(u, p)}
          /\ IsFiniteSet(heap[p].used)
          /\ Cardinality(heap[p].used) + (IF heap[p].idle = "none" THEN 0 ELSE 1) <= MaxConn
      BY <1>5 DEF AccountedAt
    <2>2. heap'[p].used = heap[p].used \ {t}
      BY <1>5 DEF PutConn, TypeOK
    <2>3. t \in heap[p].used
      BY <1>1, <1>5, <2>1 DEF Holds
    <2>4. /\ IsFiniteSet(heap'[p].used)
          /\ Cardinality(heap'[p].used) = Cardinality(heap[p].used) - 1
      <3> DEFINE lent == heap[p].used
      <3>1. t \in lent /\ IsFiniteSet(lent)
        BY <2>1, <2>3
      <3>2. heap'[p].used = lent \ {t}
        BY <2>2
      <3> HIDE DEF lent
      <3>3. IsFiniteSet(lent \ {t}) /\ Cardinality(lent \ {t}) = Cardinality(lent) - 1
        BY <3>1, FS_RemoveElement
      <3>4. IsFiniteSet(heap'[p].used) /\ Cardinality(heap'[p].used) = Cardinality(lent) - 1
        BY <3>2, <3>3
      <3> QED
        BY <3>4 DEF lent
    <2>5. Cardinality(heap[p].used) \in Nat
      BY <2>1, FS_CardinalityType
    <2>6. heap'[p].used = {u \in Threads : Holds(u, p)'}
      <3>1. ~Holds(t, p)'
        BY <1>1 DEF Holds
      <3>2. \A u \in Threads \ {t} : Holds(u, p)' <=> Holds(u, p)
        BY <1>2 DEF Holds
      <3> QED
        BY <2>1, <2>2, <3>1, <3>2
    <2>7. Cardinality(heap'[p].used) + (IF heap'[p].idle = "none" THEN 0 ELSE 1) <= MaxConn
      BY <2>1, <2>4, <2>5
    <2> QED
      BY <2>4, <2>6, <2>7 DEF AccountedAt
  <1> QED
    BY <1>3, <1>4, <1>5

\* Every step keeps the account of every pool.
LEMMA AccountStep ==
    ASSUME TypeOK, StageOK, [Next]_vars, NEW p \in PoolIds, AccountedAt(p)
    PROVE  AccountedAt(p)'
  <1> USE DEF registry, local, Goto
  <1>1. CASE UNCHANGED vars
    BY <1>1 DEF vars, AccountedAt, Closed, Holds
  <1>k. ASSUME NEW t \in Threads, Submit(t) \/ Step(t),
               pc[t] \notin InUse, pc'[t] \notin InUse,
               heap'[p] = None \/ heap'[p] = heap[p]
        PROVE  AccountedAt(p)'
    <2>1. \A u \in Threads : Holds(u, p)' <=> Holds(u, p)
      BY <1>k, BystandersKeep, HoldsStays
    <2> QED
      BY <1>k, <2>1, AccountStays DEF AccountedAt, Closed
  <1>2. ASSUME NEW t \in Threads, Submit(t) PROVE AccountedAt(p)'
    <2>1. pc[t] \notin InUse /\ UNCHANGED heap
      BY <1>2 DEF Submit, InUse
    <2>2. PICK tool \in Tools, a \in ToolAliases :
            Goto(t, Entry(tool, a)) \/ Goto(t, "replyError")
      BY <1>2 DEF Submit
    <2>3. Entry(tool, a) \notin InUse
      BY EntryStage DEF InUse
    <2>4. pc'[t] \notin InUse
      BY <2>2, <2>3 DEF TypeOK, InUse
    <2> QED
      BY <1>2, <1>k, <2>1, <2>4
  <1>3. ASSUME NEW t \in Threads, Step(t) PROVE AccountedAt(p)'
    <2>1. CASE DropRo(t) \/ Drop(t)
      <3>1. pc[t] \notin InUse /\ pc'[t] \notin InUse
        BY <2>1 DEF DropRo, Drop, InUse, TypeOK
      <3>2. PICK a \in Aliases : Remove(a)
        BY <2>1 DEF DropRo, Drop, TypeOK, Calls, Alias
      <3>3. heap'[p] = None \/ heap'[p] = heap[p]
        BY <3>2, ClosedOrKept DEF Remove, TypeOK
      <3> QED
        BY <1>3, <1>k, <3>1, <3>3
    <2>2. CASE BeginAdd(t)
      <3>1. pc[t] \notin InUse /\ pc'[t] \notin InUse
        BY <2>2 DEF BeginAdd, InUse, TypeOK
      <3>2. AddAlias(t) \in Aliases
        BY DEF AddAlias, Alias, TypeOK, Calls
      <3>3. heap'[p] = None \/ heap'[p] = heap[p]
        BY <2>2, <3>2, ClosedOrKept DEF BeginAdd, TypeOK
      <3> QED
        BY <1>3, <1>k, <3>1, <3>3
    <2>3. CASE AddOk(t)
      <3>1. pc[t] \notin InUse /\ pc'[t] \notin InUse
        BY <2>3 DEF AddOk, InUse, TypeOK
      <3>2. PICK q \in PoolIds : /\ Unreferenced(q)
                                 /\ heap' = [heap EXCEPT ![q] = NewPool(AddConfig(t))]
        BY <2>3 DEF AddOk
      <3>3. CASE p # q
        BY <1>3, <1>k, <3>1, <3>2, <3>3 DEF TypeOK
      <3>4. CASE p = q
        <4>1. heap'[p] = NewPool(AddConfig(t))
          BY <3>2, <3>4 DEF TypeOK
        <4>2. heap'[p].used = {} /\ heap'[p].idle = "live"
          BY <4>1 DEF NewPool
        <4>3. \A u \in Threads : ~Holds(u, p)'
          BY <2>3, <3>2, <3>4 DEF AddOk, Unreferenced, Holds
        <4>4. IsFiniteSet({}) /\ Cardinality({}) = 0
          BY FS_EmptySet
        <4> QED
          BY <4>2, <4>3, <4>4 DEF AccountedAt
      <3> QED
        BY <3>3, <3>4
    <2>4. CASE AddFail(t) \/ RoLookup(t) \/ RoConfig(t) \/ GetPool(t) \/ Return(t)
      <3>1. pc[t] \notin InUse /\ pc'[t] \notin InUse /\ UNCHANGED heap
        BY <2>4 DEF AddFail, RoLookup, RoConfig, GetPool, Return, InUse, TypeOK
      <3> QED
        BY <1>3, <1>k, <3>1
    <2>5. CASE GetConn(t)
      BY <2>5, GetConnAccounts
    <2>6. CASE Run(t) \/ Commit(t) \/ Rollback(t)
      <3>1. pc[t] \in InUse /\ pc'[t] \in InUse /\ UNCHANGED <<heap, obj>>
        BY <2>6 DEF Run, Commit, Rollback, InUse, TypeOK
      <3>2. \A u \in Threads : Holds(u, p)' <=> Holds(u, p)
        BY <1>3, <3>1, BystandersKeep DEF Holds
      <3> QED
        BY <3>1, <3>2, AccountStays DEF AccountedAt, Closed
    <2>7. CASE PutConn(t)
      BY <2>7, PutConnAccounts
    <2> QED
      BY <1>3, <2>1, <2>2, <2>3, <2>4, <2>5, <2>6, <2>7 DEF Step
  <1>4. ASSUME NEW q \in PoolIds, ServerDrop(q) PROVE AccountedAt(p)'
    <2>1. \A u \in Threads : Holds(u, p)' <=> Holds(u, p)
      BY <1>4 DEF ServerDrop, Holds
    <2>2. \/ heap'[p] = heap[p]
          \/ /\ heap[p] # None
             /\ heap'[p].used = heap[p].used
             /\ heap'[p].idle = "none" <=> heap[p].idle = "none"
      BY <1>4 DEF ServerDrop, Closed, TypeOK
    <2> QED
      BY <2>1, <2>2, AccountStays DEF AccountedAt, Closed
  <1> QED
    BY <1>1, <1>2, <1>3, <1>4 DEF Next

\* A connection of an open pool is lent to exactly the workers between getconn and
\* putconn, and there are never more than maxconn, however many workers there are.
THEOREM ConnectionsSafe == Spec => []ConnectionsAccounted
  <1> DEFINE Accounted == \A p \in PoolIds : AccountedAt(p)
  <1>1. Init => Accounted
    BY DEF Init, AccountedAt, Closed
  <1>2. TypeOK /\ StageOK /\ Accounted /\ [Next]_vars => Accounted'
    BY AccountStep
  <1>3. Accounted => ConnectionsAccounted
    <2> SUFFICES ASSUME Accounted, NEW p \in PoolIds, ~Closed(p)
                 PROVE  /\ heap[p].used = {t \in Threads : obj[t] = p /\ pc[t] \in InUse}
                        /\ Cardinality(heap[p].used)
                              + (IF Idle(p) = "none" THEN 0 ELSE 1) <= MaxConn
      BY DEF ConnectionsAccounted
    <2> QED
      BY DEF AccountedAt, Holds, Idle
  <1> HIDE DEF Accounted
  <1> QED
    BY <1>1, <1>2, <1>3, TypeCorrect, PTL DEF Spec
=============================================================================
