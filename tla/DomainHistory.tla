---------------------------- MODULE DomainHistory ----------------------------
(***************************************************************************)
(* DomainPools with what its connections and answers are judged by: the    *)
(* settings the controller has had since each call began, the calls during *)
(* which nobody has disturbed the registries or the results that all       *)
(* workers share, the pages in the lists of these, and whether two changes *)
(* of the registries have crossed.                                         *)
(***************************************************************************)
EXTENDS DomainPools

VARIABLES known, alone, crossed, pages

hvars == <<vars, known, alone, crossed, pages>>

HInit ==
    /\ Init
    /\ known = [t \in Threads |-> {}] /\ alone = Threads /\ crossed = FALSE
    /\ pages = [t \in Threads |-> {}]

Between(t) == pc[t] \in {"winrmAdd", "winrmRemove"}

\* What a step of `t`, or of the controller, makes known.
Observed(t) ==
    /\ known' = [u \in Threads |->
                    IF pc'[u] \in Answers \cup {"idle", "names", "command", "ldapRemove", "winrmRemove"}
                    THEN {} ELSE known[u] \cup ({ldap'} \ {None})]
    /\ alone' = {u \in Threads :
                    \/ pc'[u] \in {"idle", "error", "raised"}
                    \/ /\ u \in alone
                       /\ u = t \/ UNCHANGED <<registries, cached, heap>>}
    \* Whoever changes the first registry last decides, if nobody is between the two then.
    /\ crossed' = IF t # None /\ pc[t] \in {"ldapAdd", "ldapRemove"}
                  THEN \E u \in Threads \ {t} : Between(u) ELSE crossed
    /\ pages' = [u \in Threads |->
                    IF u \notin alone' \/ pc'[u] \in {"idle", "error", "raised"} THEN {}
                    ELSE IF u = t /\ pc[t] = "entries" THEN pages[t] \cup {heap[conn[t]].page}
                    ELSE pages[u]]

HStep(t) == Step(t) /\ Observed(t)
HNext ==
    \/ Dies /\ Observed(None)
    \/ \E t \in Threads : (Submit(t) /\ Observed(t)) \/ HStep(t)
HSpec == HInit /\ [][HNext]_hvars

\* Each step of a call ends: ldap3 and pywinrm are given timeouts, and the lock is free for
\* whoever asks for it once the bind of its holder is over.  No client has to call.
HFairSpec == HSpec /\ \A t \in Threads : WF_hvars(HStep(t))
-----------------------------------------------------------------------------
\* The two registries have the same settings of a controller whenever nobody is between the
\* two changes of an add_dc or a remove_dc, unless the last two of them crossed.
RegistriesAgree == ~crossed /\ (\A t \in Threads : ~Between(t)) => winrm = ldap

\* A connection is used with settings that the controller has had since the call began,
\* although the connection may be another call's, of long ago.
OpsCurrent == \A t \in Threads : pc[t] = "use" => heap[conn[t]].settings \in known[t]

\* A list of all users, or one cut short at a page that the controller has refused.
Lists == {1..Pages} \cup {0..k : k \in 0..Pages - 1}

\* What the answer of a call says is so, if nobody has disturbed it: the controller is in
\* both registries with these settings and can be reached, is in neither and has no
\* connection left, or the list has every user, in so far as the controller has not refused
\* a page: list_users answers then as if the pages before it were all.
AnswersHold ==
    \A t \in alone : pc[t] = "ok" =>
       LET tool == call[t].tool
       IN /\ tool = "add_dc" => /\ ldap = call[t].settings /\ winrm = ldap /\ cached # None
          /\ tool = "remove_dc" => ldap = None /\ winrm = None /\ cached = None
          /\ tool = "list_users" => pages[t] \in Lists

-----------------------------------------------------------------------------
(* The facts that make them inductive *)

HTypeOK ==
    /\ known \in [Threads -> SUBSET Settings]
    /\ alone \subseteq Threads
    /\ crossed \in BOOLEAN
    /\ pages \in [Threads -> SUBSET (0..Pages)]

\* A connection in a worker's hands has settings that were there since the call began.
KnownOK == \A t \in Threads :
    pc[t] \in {"use", "entries", "cookie"} => heap[conn[t]].settings \in known[t]

\* Unless they have crossed, one change is under way, and its first half is done.
BetweenOK == ~crossed =>
    /\ \A t, u \in Threads : Between(t) /\ Between(u) => t = u
    /\ \A t \in Threads :
          /\ pc[t] = "winrmAdd" => ldap = call[t].settings
          /\ pc[t] = "winrmRemove" => ldap = None

\* What a call that nobody has disturbed has done so far.
DoneBy(t) ==
    LET tool == call[t].tool
    IN /\ tool = "add_dc" =>
             /\ pc[t] \in {"winrmAdd", "get", "bind", "use", "ok"} => ldap = call[t].settings
             /\ pc[t] \in {"get", "bind", "use", "ok"} => winrm = call[t].settings
             /\ pc[t] \in {"use", "ok"} => cached # None
       /\ tool = "remove_dc" =>
             /\ pc[t] \in {"winrmRemove", "ok"} => ldap = None /\ cached = None
             /\ pc[t] = "ok" => winrm = None
       /\ tool = "list_users" =>
             /\ pc[t] \in {"config", "get", "bind", "use", "entries"} => pages[t] = 1..cookie[t] - 1
             /\ pc[t] \in {"entries", "cookie"} => heap[conn[t]].page \in {cookie[t], 0}
             /\ pc[t] = "cookie" => pages[t] = (1..cookie[t] - 1) \cup {heap[conn[t]].page}
             /\ pc[t] = "ok" => pages[t] \in Lists

AloneOK == \A t \in Threads :
    /\ t \in alone => DoneBy(t)
    /\ pc[t] = "idle" => pages[t] = {}

IndInv == PoolsInv /\ HTypeOK /\ KnownOK /\ BetweenOK /\ AloneOK /\ RegistriesAgree
=============================================================================
