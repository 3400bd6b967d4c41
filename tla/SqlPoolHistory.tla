--------------------------- MODULE SqlPoolHistory ---------------------------
(***************************************************************************)
(* SqlPool with a history variable, which no action reads: it remembers    *)
(* what the properties below need of the past.                             *)
(***************************************************************************)
EXTENDS SqlPool

VARIABLE
    overlapped    \* aliases whose read-only pool a query (re)built while a
                  \* connect_db or disconnect_db of the alias was under way

hvars == <<vars, overlapped>>

\* Between the missed lookup in _ensure_ro_connection and the end of its add.
BuildsRo(t, a) == /\ NeedsRo(Tool(t)) /\ Alias(t) = a
                  /\ pc[t] \in {"roConfig", "add", "adding"}

\* Between the removal of the read-only twin and the end of the tool's work.
ChangesPrimary(t, a) == /\ Tool(t) \in {"connect_db", "disconnect_db"} /\ Alias(t) = a
                        /\ pc[t] \in {"drop", "add", "adding"}

Overlap(a) == \E t, u \in Threads : BuildsRo(t, a) /\ ChangesPrimary(u, a)

HInit == Init /\ overlapped = {}

\* The mark stays until the read-only pool is dropped and no stale build is left.
Remember ==
    /\ overlapped' = {a \in ToolAliases :
          \/ Overlap(a)'
          \/ /\ a \in overlapped
             /\ pools'[RO[a]] # None \/ \E t \in Threads : BuildsRo(t, a)'}

HNext == Next /\ Remember

HSpec == HInit /\ [][HNext]_hvars

-----------------------------------------------------------------------------
\* The aliases whose read-only pool only execute_query and main() build.  (A
\* client may name "x__ro" itself: connect_db then drops no "x__ro__ro".)
Plain == {a \in ToolAliases : a \notin Suffixed /\ RO[a] \notin ToolAliases}

\* Queries and statements of one alias reach the same database: the read-only
\* pool was built for the target the primary alias has now, unless the query
\* that built it overlapped a connect_db or disconnect_db of that alias.
RoFollowsPrimary ==
    \A a \in Plain \ overlapped :
        pools[RO[a]] # None /\ ~Closed(pools[RO[a]]) =>
            /\ configs[a] # None
            /\ heap[pools[RO[a]]].cfg.target = configs[a].target

\* What makes it inductive: without an overlap, a tool that is changing the
\* primary entry finds no read-only pool, and a query that builds one holds the
\* primary's present configuration.
RoUpToDate(a) ==
    /\ ~Overlap(a)
    /\ configs[RO[a]] # None =>
          configs[a] # None /\ configs[RO[a]].target = configs[a].target
    /\ \A t \in Threads :
          /\ ChangesPrimary(t, a) => configs[RO[a]] = None
          /\ BuildsRo(t, a) /\ pc[t] # "roConfig" => snap[t] = configs[a]

HInv == \A a \in Plain \ overlapped : RoUpToDate(a)
=============================================================================
