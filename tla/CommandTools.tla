---------------------------- MODULE CommandTools ----------------------------
(***************************************************************************)
(* The tools of CommandTables, run by concurrent workers on one machine.   *)
(*                                                                         *)
(* `target` is what the calls are about: for each facet, the values that   *)
(* are there.  A command does what it says, is refused by the machine, or  *)
(* its client loses it: the connection fails before it runs, or the time   *)
(* is up, and then it may still run to its end later (`late`; ssh does not *)
(* end what it has started).  The machine, its shell and PowerShell are    *)
(* external.                                                               *)
(***************************************************************************)
EXTENDS Workers, CommandTables, Naturals, FiniteSets

CONSTANTS
    Values,   \* addresses, names, records, ... a call may ask for
    Areas     \* the tools that are called: pairs of a server and a file

ASSUME CommandAssumption ==
    /\ None \notin Threads
    /\ \A a \in Areas : \E server \in DOMAIN Servers :
          \E file \in DOMAIN Servers[server] : a = <<server, file>>

VARIABLES
    area,     \* the tools that the calls of this run come from
    target,   \* for each facet, the values that are there
    late,     \* a command that goes on without its client, or None
    script,   \* the statements of the worker's call
    at,       \* the statement it is at
    value,    \* what the call asks for
    good      \* no judged statement of the call has failed

commandVars == <<area, target, late, pc, script, at, value, good>>

ToolTable(a) == Servers[a[1]][a[2]]

\* In these files a command that times out is a command that failed; everywhere else
\* the exception ends the tool.
TimeoutIsResult == {<<"bash", "packages">>, <<"bash", "system">>, <<"bash", "exec">>,
                    <<"bash", "network">>}

\* What a facet belongs to, and goes away with.  Linux drops the routes through an
\* interface with its last address, and takes none without one.
Parent == [route |-> "address", password |-> "user", member |-> "user", reservation |-> "scope", gplink |-> "gpo",
           gposettings |-> "gpo", size |-> "volume", paused |-> "unit"]
Owned(f) == f \in DOMAIN Parent

\* The scripts that calls of these tools run, whatever their options.
Scripts(a) == UNION {ToolTable(a)[tool] : tool \in DOMAIN ToolTable(a)}
Statements(a) == UNION {{s[i] : i \in DOMAIN s} : s \in Scripts(a)}
FacetsOf(a) == LET named == {s.on : s \in Statements(a)}
               IN named \cup {Parent[f] : f \in named \cap DOMAIN Parent}

\* A call that sets nothing takes no value.
Arguments(statements) ==
    IF \E i \in DOMAIN statements : statements[i].op \in {"put", "new", "add"}
    THEN Values ELSE {None}

-----------------------------------------------------------------------------
(* The machine *)

Changes(s) == s.op \in {"put", "new", "add", "drop", "wipe"}

Refused(s, v) ==
    \/ s.op = "refuse"
    \/ s.op \in {"find", "drop"} /\ target[s.on] = {}
    \/ s.op = "new" /\ target[s.on] # {}
    \/ s.op = "add" /\ v \in target[s.on]
    \/ Owned(s.on) /\ s.op # "look" /\ target[Parent[s.on]] = {}

\* What is there after the statement: what goes takes with it what it owns.
After(s, v) ==
    LET self == CASE s.op = "put" -> {v}
                  [] s.op \in {"new", "add"} -> target[s.on] \cup {v}
                  [] s.op \in {"drop", "wipe"} -> {}
                  [] OTHER -> target[s.on]
    IN [f \in DOMAIN target |->
           CASE f = s.on -> self
             [] Owned(f) /\ Parent[f] = s.on /\ self = {} -> {}
             [] OTHER -> target[f]]

-----------------------------------------------------------------------------
Current(t) == script[t][at[t]]

CommandInit ==
    /\ area \in Areas
    /\ \E v \in Values :
          target \in [FacetsOf(area) -> {{}, {v}}]
    /\ \A f \in DOMAIN target : Owned(f) /\ target[Parent[f]] = {} => target[f] = {}
    /\ late = None
    /\ pc = [t \in Threads |-> "idle"]
    /\ script = [t \in Threads |-> <<>>]
    /\ at = [t \in Threads |-> 1]
    /\ value = [t \in Threads |-> None]
    /\ good = [t \in Threads |-> TRUE]

Ask(t) ==
    /\ pc[t] = "idle"
    /\ \E statements \in Scripts(area) :
          \E v \in Arguments(statements) :
             /\ script' = [script EXCEPT ![t] = statements]
             /\ value' = [value EXCEPT ![t] = v]
    /\ at' = [at EXCEPT ![t] = 1]
    /\ good' = [good EXCEPT ![t] = TRUE]
    /\ Goto(t, "run")
    /\ UNCHANGED <<area, target, late>>

\* On to the next statement, or to the answer.
Onward(t, stillGood) ==
    /\ good' = [good EXCEPT ![t] = stillGood]
    /\ IF at[t] < Len(script[t])
       THEN at' = [at EXCEPT ![t] = @ + 1] /\ UNCHANGED pc
       ELSE Goto(t, IF stillGood THEN "ok" ELSE "error") /\ UNCHANGED at
    /\ UNCHANGED <<area, script, value>>

Ends(t, answer) == Goto(t, answer) /\ UNCHANGED <<area, script, at, value, good>>

Works(t) ==
    /\ pc[t] = "run"
    /\ ~Refused(Current(t), value[t])
    /\ target' = After(Current(t), value[t])
    /\ Onward(t, good[t])
    /\ UNCHANGED late

\* What a tool does about a statement that failed.
Deals(t) ==
    \/ Current(t).fail = "must" /\ Ends(t, "error")
    \/ Current(t).fail = "half" /\ Ends(t, "partial")
    \/ Current(t).fail = "judge" /\ Onward(t, FALSE)
    \/ Current(t).fail = "try" /\ Onward(t, good[t])

\* The machine may refuse for reasons of its own.
Fails(t) ==
    /\ pc[t] = "run"
    /\ Deals(t)
    /\ UNCHANGED <<target, late>>

\* The connection or the time is lost, before, while or after the command runs.
Lost(t) ==
    /\ pc[t] = "run"
    /\ IF area \in TimeoutIsResult THEN Deals(t) ELSE Ends(t, "raised")
    /\ \/ UNCHANGED <<target, late>>
       \/ late = None
          /\ Changes(Current(t))
          /\ late' = [does |-> Current(t), for |-> value[t]]
          /\ UNCHANGED target

Late ==
    /\ late # None
    /\ late' = None
    /\ target' = IF Refused(late.does, late.for) THEN target ELSE After(late.does, late.for)
    /\ UNCHANGED <<area, pc, script, at, value, good>>

Reply(t) ==
    /\ pc[t] \notin {"idle", "run"}
    /\ Goto(t, "idle")
    /\ script' = [script EXCEPT ![t] = <<>>]
    /\ at' = [at EXCEPT ![t] = 1]
    /\ value' = [value EXCEPT ![t] = None]
    /\ good' = [good EXCEPT ![t] = TRUE]
    /\ UNCHANGED <<area, target, late>>

CommandStep(t) == Ask(t) \/ Works(t) \/ Fails(t) \/ Lost(t) \/ Reply(t)
CommandNext == Late \/ \E t \in Threads : CommandStep(t)
CommandSpec == CommandInit /\ [][CommandNext]_commandVars
=============================================================================
