------------------------------- MODULE SqlPool -------------------------------
(***************************************************************************)
(* The connection registry of the SQL server (core/connection.py, DBPool)  *)
(* and the tools that use it (tools/db.py), called concurrently by the     *)
(* executor's worker threads (server.py, run_in_executor).                 *)
(*                                                                         *)
(* A worker runs one tool call at a time.  DBPool._lock protects the two   *)
(* dictionaries only: a worker that has left get_pool uses the pool object *)
(* without the lock, so another worker can close that pool at any step.    *)
(* One action is what happens between two points where another thread can  *)
(* be seen.  psycopg2's ThreadedConnectionPool and the database server are *)
(* external: `heap` holds the pool objects, as this code can observe them. *)
(***************************************************************************)
EXTENDS Workers, Naturals, FiniteSets

CONSTANTS
    Aliases,       \* every connection alias, the "__ro" ones included
    ToolAliases,   \* the aliases tool calls name
    Suffixed,      \* the aliases that end with _RO_SUFFIX
    RO,            \* alias |-> alias + _RO_SUFFIX
    DefaultAlias,  \* DB_DATABASE, the alias main() connects
    Targets,       \* (host, port, database) triples
    BootTarget,    \* the triple of the environment, connected by main()
    PoolIds,       \* identities of pool objects, reused once unreferenced
    MaxConn,       \* maxconn of a pool (5 in the code); minconn is 1
    RoConfigured   \* SQL_MCP_RO_USER and SQL_MCP_RO_PASSWORD are both set

Roles == {"primary", "ro"}
Configs == [target : Targets, role : Roles]

ASSUME AliasAssumption ==
    /\ ToolAliases \subseteq Aliases
    /\ Suffixed \subseteq Aliases
    /\ RO \in [ToolAliases -> Suffixed]
    /\ \A a, b \in ToolAliases : RO[a] = RO[b] => a = b
    /\ \A a \in ToolAliases : RO[a] # a
    /\ DefaultAlias \in ToolAliases

ASSUME ValueAssumption ==
    /\ BootTarget \in Targets
    /\ MaxConn \in Nat \ {0}
    /\ RoConfigured \in BOOLEAN

\* An open pool object; a closed one, or one not made yet, is None in the heap.
PoolObjects == [cfg : Configs, idle : {"none", "live", "dead"}, used : SUBSET Threads]

ASSUME NoneAssumption ==
    /\ None \notin Threads \cup PoolIds \cup Configs \cup PoolObjects
    /\ None \notin [cfg : Configs, serves : BOOLEAN]

VARIABLES
    lock,     \* the worker inside a `with self._lock` block, or None
    configs,  \* DBPool._configs
    pools,    \* DBPool._pools: the pool object registered under an alias
    heap,     \* the pool objects
    call,     \* the tool call a worker runs
    obj,      \* the pool object execute() got from get_pool
    snap,     \* what _ensure_ro_connection got from get_config
    conn,     \* the connection execute() holds
    applied,  \* what the call's transaction did at the server
    phase     \* main(): connecting, ensuring the read-only role, serving

registry == <<lock, configs, pools>>
local == <<call, obj, snap, applied>>
vars == <<lock, configs, pools, heap, pc, call, obj, snap, conn, applied, phase>>

Tools == {"connect_db", "disconnect_db", "execute_query",
          "execute_statement", "ensure_ro"}
Calls == [tool : Tools, alias : ToolAliases, target : Targets]

Labels == {"idle", "dropRo", "drop", "add", "adding", "roLookup", "roConfig",
           "getPool", "getConn", "run", "commit", "rollback",
           "putOk", "putError", "replyOk", "replyError"}

ConnStates == {"none", "live", "dead", "closed"}
Outcomes == {"no", "yes", "lost"}
Phases == {"connect", "ensure", "serving"}

(* "dead": the server end is gone and the client has not noticed;          *)
(* "closed": psycopg2 knows.  "lost": committed, and the answer was lost.  *)

-----------------------------------------------------------------------------
(* The call a worker runs *)

Tool(t) == call[t].tool
Alias(t) == call[t].alias

NeedsRo(tool) == tool = "ensure_ro" \/ (tool = "execute_query" /\ RoConfigured)

ExecAlias(t) == IF NeedsRo(Tool(t)) THEN RO[Alias(t)] ELSE Alias(t)

AddAlias(t) == IF Tool(t) = "connect_db" THEN Alias(t) ELSE RO[Alias(t)]

\* Faulty variant: the read-only pool is built with the primary's credentials.
AddConfigPrimary(t) ==
    [target |-> IF Tool(t) = "connect_db" THEN call[t].target ELSE snap[t].target,
     role |-> "primary"]

AddConfig(t) ==
    IF Tool(t) = "connect_db" THEN [target |-> call[t].target, role |-> "primary"]
    ELSE [target |-> snap[t].target, role |-> "ro"]

\* Faulty variant: connect_db leaves the read-only twin of the alias alone.
EntryKeepsRo(tool, a) ==
    CASE tool = "connect_db" -> "add"
      [] tool = "disconnect_db" -> IF a \in Suffixed THEN "drop" ELSE "dropRo"
      [] NeedsRo(tool) -> "roLookup"
      [] OTHER -> "getPool"

Entry(tool, a) ==
    CASE tool = "connect_db" -> IF a \in Suffixed THEN "add" ELSE "dropRo"
      [] tool = "disconnect_db" -> IF a \in Suffixed THEN "drop" ELSE "dropRo"
      [] NeedsRo(tool) -> "roLookup"
      [] OTHER -> "getPool"

-----------------------------------------------------------------------------
(* psycopg2's pool *)

Closed(p) == heap[p] = None
Idle(p) == IF Closed(p) THEN "none" ELSE heap[p].idle

\* closeall: every connection of pool p, idle or lent, is closed.  On a pool that
\* is closed already it raises, and the caller swallows that.
CloseAll(p) ==
    IF p = None \/ Closed(p) THEN UNCHANGED <<heap, conn>>
    ELSE /\ heap' = [heap EXCEPT ![p] = None]
         /\ conn' = [t \in Threads |-> IF t \in heap[p].used THEN "closed" ELSE conn[t]]

NewPool(cfg) == [cfg |-> cfg, idle |-> "live", used |-> {}]

\* No dictionary and no worker refers to the object any more.
Unreferenced(p) == /\ \A a \in Aliases : pools[a] # p
                   /\ \A t \in Threads : obj[t] # p

Exhausted(p) == Cardinality(heap[p].used) >= MaxConn

Lend(t, p, c) ==
    /\ heap' = [heap EXCEPT ![p] =
                  [cfg |-> @.cfg, idle |-> "none", used |-> @.used \cup {t}]]
    /\ conn' = [conn EXCEPT ![t] = c]

-----------------------------------------------------------------------------
Init ==
    /\ lock = None
    /\ configs = [a \in Aliases |-> None]
    /\ pools = [a \in Aliases |-> None]
    /\ heap = [p \in PoolIds |-> None]
    /\ \E main \in Threads :     \* a worker stands for main() until it serves
          pc = [t \in Threads |->
                  IF t = main THEN Entry("connect_db", DefaultAlias) ELSE "idle"]
    /\ call = [t \in Threads |->
                 [tool |-> "connect_db", alias |-> DefaultAlias, target |-> BootTarget]]
    /\ obj = [t \in Threads |-> None]
    /\ snap = [t \in Threads |-> None]
    /\ conn = [t \in Threads |-> "none"]
    /\ applied = [t \in Threads |-> "no"]
    /\ phase = "connect"

\* A tool call reaches a worker.  The statement filters may refuse it at once.
Submit(t) ==
    /\ phase = "serving"
    /\ pc[t] = "idle"
    /\ \E tool \in Tools \ {"ensure_ro"}, a \in ToolAliases, tg \in Targets :
          /\ tool # "connect_db" => tg = BootTarget
          /\ call' = [call EXCEPT ![t] = [tool |-> tool, alias |-> a, target |-> tg]]
          /\ \/ Goto(t, Entry(tool, a))
             \/ tool \in {"execute_query", "execute_statement"} /\ Goto(t, "replyError")
    /\ UNCHANGED <<registry, heap, obj, snap, conn, applied, phase>>

-----------------------------------------------------------------------------
(* DBPool: the registry, under the lock *)

Remove(a) ==
    /\ lock = None
    /\ CloseAll(pools[a])
    /\ pools' = [pools EXCEPT ![a] = None]
    /\ configs' = [configs EXCEPT ![a] = None]
    /\ UNCHANGED <<lock, local, phase>>

\* connect_db and disconnect_db first drop the alias's read-only twin.
DropRo(t) ==
    /\ pc[t] = "dropRo"
    /\ Remove(RO[Alias(t)])
    /\ Goto(t, IF Tool(t) = "connect_db" THEN "add" ELSE "drop")

Drop(t) ==
    /\ pc[t] = "drop"
    /\ Remove(Alias(t))
    /\ Goto(t, "replyOk")

\* Faulty variant: the pool to be replaced is not closed.
BeginAddKeepsOld(t) ==
    /\ pc[t] = "add"
    /\ lock = None
    /\ lock' = t
    /\ Goto(t, "adding")
    /\ UNCHANGED <<configs, pools, heap, conn, local, phase>>

\* add_connection takes the lock, closes the pool it is about to replace and
\* connects, up to connect_timeout seconds, with the lock held.
BeginAdd(t) ==
    /\ pc[t] = "add"
    /\ lock = None
    /\ lock' = t
    /\ CloseAll(pools[AddAlias(t)])
    /\ Goto(t, "adding")
    /\ UNCHANGED <<configs, pools, local, phase>>

AddOk(t) ==
    /\ pc[t] = "adding"
    /\ \E p \in PoolIds :
          /\ Unreferenced(p)
          /\ heap' = [heap EXCEPT ![p] = NewPool(AddConfig(t))]
          /\ pools' = [pools EXCEPT ![AddAlias(t)] = p]
    /\ configs' = [configs EXCEPT ![AddAlias(t)] = AddConfig(t)]
    /\ lock' = None
    /\ Goto(t, IF Tool(t) = "execute_query" THEN "getPool" ELSE "replyOk")
    /\ UNCHANGED <<local, conn, phase>>

\* Faulty variant: acquire() and release() instead of `with`.
AddFailKeepsLock(t) ==
    /\ pc[t] = "adding"
    /\ Goto(t, "replyError")
    /\ UNCHANGED <<lock, configs, pools, heap, local, conn, phase>>

\* The constructor raises: the registry keeps the old entry, now closed.
AddFail(t) ==
    /\ pc[t] = "adding"
    /\ lock' = None
    /\ Goto(t, "replyError")
    /\ UNCHANGED <<configs, pools, heap, local, conn, phase>>

-----------------------------------------------------------------------------
(* _ensure_ro_connection *)

RoLookup(t) ==
    /\ pc[t] = "roLookup"
    /\ lock = None
    /\ Goto(t, IF pools[RO[Alias(t)]] = None THEN "roConfig"
               ELSE IF Tool(t) = "ensure_ro" THEN "replyOk" ELSE "getPool")
    /\ UNCHANGED <<registry, heap, local, conn, phase>>

RoConfig(t) ==
    /\ pc[t] = "roConfig"
    /\ lock = None
    /\ snap' = [snap EXCEPT ![t] = configs[Alias(t)]]
    /\ Goto(t, IF configs[Alias(t)] = None THEN "replyError" ELSE "add")
    /\ UNCHANGED <<registry, heap, call, obj, conn, applied, phase>>

-----------------------------------------------------------------------------
(* DBPool.execute *)

GetPool(t) ==
    /\ pc[t] = "getPool"
    /\ lock = None
    /\ obj' = [obj EXCEPT ![t] = pools[ExecAlias(t)]]
    /\ Goto(t, IF pools[ExecAlias(t)] = None THEN "replyError" ELSE "getConn")
    /\ UNCHANGED <<registry, heap, call, snap, conn, applied, phase>>

\* getconn is outside the try block: when it raises, nothing is put back.
GetConn(t) ==
    /\ pc[t] = "getConn"
    /\ LET p == obj[t] IN
         \/ /\ Idle(p) = "none"   \* closed, exhausted or refused
            /\ Goto(t, "replyError")
            /\ UNCHANGED <<heap, conn>>
         \/ /\ Idle(p) # "none"
            /\ Lend(t, p, Idle(p))
            /\ Goto(t, "run")
         \/ /\ ~Closed(p) /\ Idle(p) = "none" /\ ~Exhausted(p)
            /\ Lend(t, p, "live")
            /\ Goto(t, "run")
    /\ UNCHANGED <<registry, local, phase>>

\* Using a dead connection makes psycopg2 notice and close it.
Noticed(t) == conn' = [conn EXCEPT ![t] = IF @ = "dead" THEN "closed" ELSE @]

Run(t) ==
    /\ pc[t] = "run"
    /\ Noticed(t)
    /\ \/ Goto(t, "rollback")
       \/ conn[t] = "live" /\ Goto(t, "commit")
    /\ UNCHANGED <<registry, heap, local, phase>>

Commit(t) ==
    /\ pc[t] = "commit"
    /\ \/ /\ conn[t] = "live"
          /\ applied' = [applied EXCEPT ![t] = "yes"]
          /\ Goto(t, "putOk")
          /\ UNCHANGED conn
       \/ /\ conn[t] = "live"                     \* committed, answer lost
          /\ applied' = [applied EXCEPT ![t] = "lost"]
          /\ conn' = [conn EXCEPT ![t] = "closed"]
          /\ Goto(t, "rollback")
       \/ /\ Noticed(t)                           \* refused, or connection gone
          /\ Goto(t, "rollback")
          /\ UNCHANGED applied
    /\ UNCHANGED <<registry, heap, call, obj, snap, phase>>

\* Faulty variant: the exception is not raised again.
RollbackSwallows(t) ==
    /\ pc[t] = "rollback"
    /\ Noticed(t)
    /\ Goto(t, "putOk")
    /\ UNCHANGED <<registry, heap, local, phase>>

\* `except: conn.rollback(); raise`, which a closed connection makes raise too.
Rollback(t) ==
    /\ pc[t] = "rollback"
    /\ Noticed(t)
    /\ Goto(t, "putError")
    /\ UNCHANGED <<registry, heap, local, phase>>

\* Faulty variant: putconn after the try block, skipped when the SQL raised.
PutConnOnSuccess(t) ==
    \/ /\ pc[t] = "putError"
       /\ Goto(t, "replyError")
       /\ UNCHANGED <<registry, heap, conn, local, phase>>
    \/ /\ pc[t] = "putOk"
       /\ conn' = [conn EXCEPT ![t] = "none"]
       /\ heap' = IF Closed(obj[t]) THEN heap
                  ELSE [heap EXCEPT ![obj[t]] =
                          [@ EXCEPT !.used = @ \ {t},
                                    !.idle = IF @ = "none" THEN conn[t] ELSE @]]
       /\ Goto(t, IF Closed(obj[t]) THEN "replyError" ELSE "replyOk")
       /\ UNCHANGED <<registry, local, phase>>

\* `finally: pool.putconn(conn)`; on a closed pool it raises, whatever happened.
PutConn(t) ==
    /\ pc[t] \in {"putOk", "putError"}
    /\ conn' = [conn EXCEPT ![t] = "none"]
    /\ LET p == obj[t] IN
         \/ /\ Closed(p)
            /\ Goto(t, "replyError")
            /\ UNCHANGED heap
         \/ /\ ~Closed(p)
            /\ heap' = [heap EXCEPT ![p] =
                          [cfg |-> @.cfg, used |-> @.used \ {t},
                           idle |-> IF @.idle = "none" /\ conn[t] # "closed"
                                    THEN conn[t] ELSE @.idle]]
            /\ Goto(t, IF pc[t] = "putOk" THEN "replyOk" ELSE "replyError")
    /\ UNCHANGED <<registry, local, phase>>

-----------------------------------------------------------------------------
\* The answer is sent.  While main() starts up, it decides what comes next;
\* it goes on whether or not the call raised.
Return(t) ==
    /\ pc[t] \in {"replyOk", "replyError"}
    /\ obj' = [obj EXCEPT ![t] = None]
    /\ snap' = [snap EXCEPT ![t] = None]
    /\ applied' = [applied EXCEPT ![t] = "no"]
    /\ call' = [call EXCEPT ![t] = [tool |-> IF phase = "connect" THEN "ensure_ro" ELSE "connect_db",
                                    alias |-> DefaultAlias, target |-> BootTarget]]
    /\ IF phase = "connect" /\ RoConfigured
       THEN phase' = "ensure" /\ Goto(t, "roLookup")
       ELSE phase' = "serving" /\ Goto(t, "idle")
    /\ UNCHANGED <<registry, heap, conn>>

\* The database server drops every connection of pool p.
ServerDrop(p) ==
    /\ ~Closed(p)
    /\ heap' = [heap EXCEPT ![p] =
                  [cfg |-> @.cfg, used |-> @.used,
                   idle |-> IF @.idle = "live" THEN "dead" ELSE @.idle]]
    /\ conn' = [t \in Threads |->
                  IF t \in heap[p].used /\ conn[t] = "live" THEN "dead" ELSE conn[t]]
    /\ UNCHANGED <<registry, pc, local, phase>>

Step(t) ==
    \/ DropRo(t) \/ Drop(t) \/ BeginAdd(t) \/ AddOk(t) \/ AddFail(t)
    \/ RoLookup(t) \/ RoConfig(t)
    \/ GetPool(t) \/ GetConn(t) \/ Run(t) \/ Commit(t) \/ Rollback(t) \/ PutConn(t)
    \/ Return(t)

Next ==
    \/ \E t \in Threads : Submit(t) \/ Step(t)
    \/ \E p \in PoolIds : ServerDrop(p)

Spec == Init /\ [][Next]_vars
-----------------------------------------------------------------------------
TypeOK ==
    /\ lock \in Threads \cup {None}
    /\ configs \in [Aliases -> Configs \cup {None}]
    /\ pools \in [Aliases -> PoolIds \cup {None}]
    /\ heap \in [PoolIds -> PoolObjects \cup {None}]
    /\ pc \in [Threads -> Labels]
    /\ call \in [Threads -> Calls]
    /\ obj \in [Threads -> PoolIds \cup {None}]
    /\ snap \in [Threads -> Configs \cup {None}]
    /\ conn \in [Threads -> ConnStates]
    /\ applied \in [Threads -> Outcomes]
    /\ phase \in Phases

-----------------------------------------------------------------------------
(* What the registry and its users must keep *)

InUse == {"run", "commit", "rollback", "putOk", "putError"}
Executes(t) == Tool(t) \in {"execute_query", "execute_statement"}

\* The two dictionaries never disagree: they have the same keys, and a pool that
\* is open was built from the configuration list_connections reports for it.
\* add_connection writes neither before the constructor has succeeded.
RegistryConsistent ==
    \A a \in Aliases :
        /\ pools[a] = None <=> configs[a] = None
        /\ pools[a] # None /\ ~Closed(pools[a]) => heap[pools[a]].cfg = configs[a]

\* No pool leaks: an open pool is registered, under one alias only, so a later
\* connect_db or disconnect_db can still close it.  Two workers may build the
\* read-only pool of one alias at the same time.
OpenPoolsRegistered ==
    \A p \in PoolIds : ~Closed(p) =>
        \E a \in Aliases : /\ pools[a] = p
                          /\ \A b \in Aliases : pools[b] = p => b = a

\* A connection of an open pool is lent to exactly the workers that are between
\* getconn and putconn on it: none is leaked by an exception, none returned
\* twice, and the pool never has more than maxconn of them.
ConnectionsAccounted ==
    \A p \in PoolIds : ~Closed(p) =>
        /\ heap[p].used = {t \in Threads : obj[t] = p /\ pc[t] \in InUse}
        /\ Cardinality(heap[p].used) + (IF Idle(p) = "none" THEN 0 ELSE 1) <= MaxConn

\* What the caller is told about its SQL: success only after a commit, and an
\* error for a committed statement only because another call closed the pool
\* under it (or the server's answer to COMMIT was lost, "lost").
ReplyMatchesEffect ==
    \A t \in Threads : Executes(t) =>
        /\ pc[t] \in {"putOk", "replyOk"} => applied[t] = "yes"
        /\ pc[t] = "replyError" /\ applied[t] = "yes" => obj[t] # None /\ Closed(obj[t])
        /\ pc[t] \in {"rollback", "putError"} => applied[t] # "yes"

\* With a read-only role configured, execute_query never runs on a connection of
\* the primary role ("refusing to fall back to the primary connection"), and the
\* other tools never on one of the read-only role; unless a client connects the
\* suffixed alias itself.
RolesSeparated ==
    \A t \in Threads : pc[t] \in InUse /\ ~Closed(obj[t]) =>
        /\ NeedsRo(Tool(t)) /\ RO[Alias(t)] \notin ToolAliases
              => heap[obj[t]].cfg.role = "ro"
        /\ ~NeedsRo(Tool(t)) /\ Alias(t) \notin Suffixed
              => heap[obj[t]].cfg.role = "primary"

\* The registry as its clients see it, threads, lock and pool objects hidden: no
\* interleaving reconfigures an alias while it serves or revives a closed pool.
Registry == INSTANCE ConnectionRegistry WITH
    table <- [a \in Aliases |->
                IF pools[a] = None THEN None
                ELSE [cfg |-> configs[a], serves |-> ~Closed(pools[a])]]

ImplementsRegistry == Registry!Spec

-----------------------------------------------------------------------------
(* The facts that make those properties inductive *)

\* Only the worker that is connecting holds the lock, it has what it connects
\* with, and a worker that executes has a pool object.
StageOK ==
    \A t \in Threads :
        /\ pc[t] = "adding" <=> lock = t
        /\ pc[t] \in {"add", "adding"} =>
              Tool(t) = "connect_db" \/ (NeedsRo(Tool(t)) /\ snap[t] # None)
        /\ pc[t] \in {"dropRo", "drop"} => Tool(t) \in {"connect_db", "disconnect_db"}
        /\ pc[t] \in {"roLookup", "roConfig"} => NeedsRo(Tool(t))
        /\ pc[t] \in {"getPool", "getConn"} \cup InUse => Executes(t)
        /\ pc[t] \in {"getConn"} \cup InUse => obj[t] # None
        /\ obj[t] # None => pc[t] \in {"getConn", "replyOk", "replyError"} \cup InUse

\* The pool that add_connection is about to replace is closed already.
ReplacedIsClosed ==
    \A t \in Threads : pc[t] = "adding" /\ pools[AddAlias(t)] # None
                          => Closed(pools[AddAlias(t)])

\* A primary alias is registered with the primary role, and a read-only twin that
\* no client names with the read-only role; and so is the pool a worker holds.
RolesOf(a, cfg) ==
    /\ a \notin Suffixed => cfg.role = "primary"
    /\ a \in {RO[b] : b \in ToolAliases} \ ToolAliases => cfg.role = "ro"

RolesOK ==
    /\ \A a \in Aliases : configs[a] # None => RolesOf(a, configs[a])
    /\ \A t \in Threads : obj[t] # None /\ ~Closed(obj[t])
                          => RolesOf(ExecAlias(t), heap[obj[t]].cfg)

\* What the transaction of a call has done at each stage of execute().
EffectOK ==
    \A t \in Threads :
        /\ pc[t] \notin InUse \cup {"replyOk", "replyError"} => applied[t] = "no"
        /\ pc[t] \in {"run", "commit"} => applied[t] = "no"

IndInv == /\ TypeOK /\ StageOK
          /\ RegistryConsistent /\ OpenPoolsRegistered /\ ReplacedIsClosed
          /\ RolesOK
          /\ ReplyMatchesEffect /\ EffectOK

=============================================================================
