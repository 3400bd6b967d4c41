---------------------------- MODULE WinRMSessions ----------------------------
(***************************************************************************)
(* WinRMConnectionPool and the tools that need no more than it: add_host,  *)
(* remove_host, list_hosts, test_connection, run_ps and run_cmd.  A host   *)
(* has one session, which all workers share and which the lock guards only *)
(* while it is looked up: a command runs later, with the settings and the  *)
(* timeout the session has by then.  The files tools run their commands in *)
(* the same way (WinRMFiles).                                              *)
(*                                                                         *)
(* pywinrm is external: a session connects with each command, which is run *)
(* and succeeds, is refused (an exit status that is not zero), or raises,  *)
(* whether or not it was run.  read_timeout_sec, set next to the operation *)
(* timeout, is not modelled: pywinrm has given it to its transport before. *)
(***************************************************************************)
EXTENDS Workers, Naturals, FiniteSets

CONSTANTS
    Hosts,
    Settings,  \* user, password, port and transport of a host
    Timeouts,  \* operation timeouts of run_ps and run_cmd
    Default    \* the timeout of a new session and of all other tools

Sessions == [settings : Settings, timeout : Timeouts]

ASSUME SessionsAssumption ==
    /\ IsFiniteSet(Threads) /\ IsFiniteSet(Hosts)
    /\ Default \in Timeouts
    /\ None \notin Nat /\ None \notin Settings \cup Hosts \cup Threads \cup Sessions

VARIABLES
    configs,   \* settings of each registered host, or None
    sessions,  \* the session of each host, or None
    heap,      \* session objects: the settings they were made with, their timeout
    call,      \* its tool, host, settings and timeout
    todo,      \* the hosts that add_host or list_hosts has still to visit
    host,      \* the host its command is for
    mine       \* the session its command runs in, or None

pool == <<configs, sessions, heap>>
work == <<call, todo, host, mine>>
svars == <<pool, pc, work>>

Ids == 1 .. Cardinality(Threads) + Cardinality(Hosts)

\* The tools that visit several hosts, and those that run one command.
Visiting == {"add_host", "list_hosts"}
Tools == Visiting \cup {"remove_host", "test_connection", "run_ps", "run_cmd"}
NoCall == [tool |-> "list_hosts", hosts |-> {}, settings |-> None, timeout |-> Default]
Calls == [tool : {"add_host"}, hosts : SUBSET Hosts, settings : Settings, timeout : {Default}]
    \cup [tool : {"remove_host", "test_connection"}, hosts : {{h} : h \in Hosts},
          settings : {None}, timeout : {Default}]
    \cup [tool : {"run_ps", "run_cmd"}, hosts : {{h} : h \in Hosts},
          settings : {None}, timeout : Timeouts]
    \cup {NoCall}

-----------------------------------------------------------------------------
SInit ==
    /\ configs = [h \in Hosts |-> None]
    /\ sessions = [h \in Hosts |-> None]
    /\ heap = [i \in Ids |-> None]
    /\ pc = [t \in Threads |-> "idle"]
    /\ call = [t \in Threads |-> NoCall]
    /\ todo = [t \in Threads |-> {}]
    /\ host = [t \in Threads |-> None]
    /\ mine = [t \in Threads |-> None]

Begin(t, c, label) ==
    /\ pc[t] = "idle"
    /\ call' = [call EXCEPT ![t] = c]
    /\ todo' = [todo EXCEPT ![t] = IF c.tool \in Visiting THEN c.hosts ELSE {}]
    /\ host' = [host EXCEPT ![t] = IF c.tool \in Visiting THEN None
                                   ELSE CHOOSE h \in Hosts : c.hosts = {h}]
    /\ Goto(t, label)
    /\ UNCHANGED <<pool, mine>>

Submit(t) == \E c \in Calls :
    Begin(t, c, CASE c.tool = "list_hosts" -> "names" [] c.tool = "add_host" -> "visit"
                  [] c.tool = "remove_host" -> "remove" [] OTHER -> "session")

\* list_hosts copies the names.
Names(t) ==
    /\ pc[t] = "names"
    /\ todo' = [todo EXCEPT ![t] = {h \in Hosts : configs[h] # None}]
    /\ Goto(t, "visit")
    /\ UNCHANGED <<pool, call, host, mine>>

\* The next host.  list_hosts reads its settings only to answer with them.
Visit(t) ==
    /\ pc[t] = "visit"
    /\ \/ /\ todo[t] = {}
          /\ Goto(t, "ok")
          /\ UNCHANGED <<todo, host>>
       \/ \E h \in todo[t] :
             /\ todo' = [todo EXCEPT ![t] = @ \ {h}]
             /\ host' = [host EXCEPT ![t] = h]
             /\ Goto(t, IF call[t].tool = "add_host" THEN "register" ELSE "session")
    /\ UNCHANGED <<pool, call, mine>>

\* Faulty variant: the session made with the old settings stays.
RegisterOnly(t) ==
    /\ pc[t] = "register"
    /\ configs' = [configs EXCEPT ![host[t]] = call[t].settings]
    /\ Goto(t, "session")
    /\ UNCHANGED <<sessions, heap, work>>

Register(t) ==
    /\ pc[t] = "register"
    /\ configs' = [configs EXCEPT ![host[t]] = call[t].settings]
    /\ sessions' = [sessions EXCEPT ![host[t]] = None]
    /\ Goto(t, "session")
    /\ UNCHANGED <<heap, work>>

\* Faulty variant: the session of a removed host stays.
RemoveConfig(t) ==
    /\ pc[t] = "remove"
    /\ configs' = [configs EXCEPT ![host[t]] = None]
    /\ Goto(t, "ok")
    /\ UNCHANGED <<sessions, heap, work>>

Remove(t) ==
    /\ pc[t] = "remove"
    /\ configs' = [configs EXCEPT ![host[t]] = None]
    /\ sessions' = [sessions EXCEPT ![host[t]] = None]
    /\ Goto(t, "ok")
    /\ UNCHANGED <<heap, work>>

-----------------------------------------------------------------------------
(* A command: get_session, its timeout, the command, and what is left when it raises. *)

\* What a host's command has come to: the next host, or the answer.
Ended(t, answer) == IF call[t].tool \in Visiting THEN "visit" ELSE answer
Free == {i \in Ids : i \notin {sessions[h] : h \in Hosts} \cup {mine[u] : u \in Threads}}

GetSession(t) ==
    /\ pc[t] = "session"
    /\ LET h == host[t]
       IN \/ /\ configs[h] = None
             /\ Goto(t, Ended(t, "raised"))
             /\ UNCHANGED <<pool, mine>>
          \/ /\ configs[h] # None /\ sessions[h] # None
             /\ mine' = [mine EXCEPT ![t] = sessions[h]]
             /\ Goto(t, "timeout")
             /\ UNCHANGED pool
          \/ /\ configs[h] # None /\ sessions[h] = None
             /\ \E new \in Free :
                   /\ \A i \in Free : new <= i
                   /\ heap' = [heap EXCEPT ![new] = [settings |-> configs[h], timeout |-> Default]]
                   /\ sessions' = [sessions EXCEPT ![h] = new]
                   /\ mine' = [mine EXCEPT ![t] = new]
             /\ Goto(t, "timeout")
             /\ UNCHANGED configs
    /\ UNCHANGED <<call, todo, host>>

\* Nothing changes if the session has this timeout already.
SetTimeout(t) ==
    /\ pc[t] = "timeout"
    /\ heap' = [heap EXCEPT ![mine[t]].timeout = call[t].timeout]
    /\ Goto(t, "run")
    /\ UNCHANGED <<configs, sessions, work>>

\* The command has an answer: the session is in this worker's hands no longer.
Answered(t, label) ==
    /\ Goto(t, label)
    /\ mine' = [mine EXCEPT ![t] = None]
    /\ UNCHANGED <<pool, call, todo, host>>
\* It raises.
Raises(t) ==
    /\ Goto(t, "forget")
    /\ UNCHANGED <<pool, work>>

\* add_host, list_hosts and test_connection tell a refused command from one that
\* succeeds, or do not; either way run_ps has returned.
Run(t) ==
    /\ pc[t] = "run" /\ call[t].tool \in Tools
    /\ \/ Answered(t, Ended(t, "ok"))
       \/ Answered(t, Ended(t, "refused"))
       \/ Raises(t)

\* The session registered now, which need not be the one the command ran in.
Forget(t) ==
    /\ pc[t] = "forget"
    /\ sessions' = [sessions EXCEPT ![host[t]] = None]
    /\ mine' = [mine EXCEPT ![t] = None]
    /\ Goto(t, Ended(t, "raised"))
    /\ UNCHANGED <<configs, heap, call, todo, host>>

Answers == {"ok", "refused", "error", "raised"}
Return(t) ==
    /\ pc[t] \in Answers
    /\ call' = [call EXCEPT ![t] = NoCall]
    /\ host' = [host EXCEPT ![t] = None]
    /\ Goto(t, "idle")
    /\ UNCHANGED <<pool, todo, mine>>

Step(t) ==
    \/ Submit(t) \/ Names(t) \/ Visit(t) \/ Register(t) \/ Remove(t) \/ GetSession(t)
    \/ SetTimeout(t) \/ Run(t) \/ Forget(t)
=============================================================================
