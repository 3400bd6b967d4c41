---------------------------- MODULE WinRMHistory ----------------------------
(***************************************************************************)
(* WinRMFiles with what its commands and answers are judged by: the        *)
(* settings the hosts have had since each command began, the calls during  *)
(* which nobody else has changed anything (or set what was set), and the   *)
(* uploads told of a chunk that it was written when it was not.            *)
(***************************************************************************)
EXTENDS WinRMFiles

VARIABLES known, alone, dropped

hvars == <<vars, known, alone, dropped>>

HInit == Init /\ known = [t \in Threads |-> {}] /\ alone = Threads /\ dropped = {}

Current == {<<h, configs[h]>> : h \in Hosts}
\* What a step of `t`, or of a command of nobody any more, makes known.
Observed(t) ==
    /\ known' = [u \in Threads |-> IF pc'[u] \notin {"session", "timeout", "run"} THEN {}
                                   ELSE IF pc'[u] = pc[u] \/ pc[u] \in {"session", "timeout"}
                                        THEN known[u] \cup Current' ELSE Current']
    /\ alone' = {u \in Threads :
                    \/ pc'[u] = "idle"
                    \/ u \in alone /\ u = t
                    \/ /\ u \in alone
                       /\ t # None => pc[t] \notin {"timeout", "stage", "write"}
                       /\ UNCHANGED <<configs, sessions, remote>>}

HNext ==
    \/ LateRun /\ dropped' = dropped /\ Observed(None)
    \/ \E t \in Threads :
          /\ \/ FileStep(t) /\ dropped' = {u \in dropped : pc'[u] # "idle"}
             \/ ChunkDropped(t) /\ dropped' = dropped \cup {t}
          /\ Observed(t)
HSpec == HInit /\ [][HNext]_hvars

-----------------------------------------------------------------------------
\* A command runs with settings that its host has had since it asked for a session, although
\* sessions outlive calls and add_host may be called at any time; and with its own timeout,
\* if nobody has changed anything during the call.
CommandsCurrent ==
    \A t \in Threads : pc[t] = "run" =>
       /\ <<host[t], heap[mine[t]].settings>> \in known[t]
       /\ t \in alone => heap[mine[t]].timeout = call[t].timeout

\* Whatever becomes of its commands, an upload that nobody has disturbed leaves the first
\* chunks of the file, in their order and once each, after its first command.
UploadsArePrefixes ==
    \A t \in alone \ dropped : call[t].tool = "upload_file" /\ next[t] > 1 =>
       \E n \in {next[t] - 1, next[t]} : remote[host[t]] = SubSeq(data[t], 1, n)

\* What the answer of a call says is so, if nobody has disturbed it.
AnswersHold ==
    \A t \in alone : pc[t] = "ok" =>
       LET tool == call[t].tool
           h == host[t]
       IN /\ tool = "add_host" => \A g \in call[t].hosts : configs[g] = call[t].settings
          /\ tool = "remove_host" => configs[h] = None /\ sessions[h] = None
          /\ tool \notin Visiting \cup {"remove_host"} => sessions[h] # None
          /\ tool = "upload_file" /\ t \notin dropped => remote[h] = data[t]
          /\ tool = "download_file" => staged[call[t].path] = remote[h]
          /\ tool = "delete_file" => remote[h] = None

-----------------------------------------------------------------------------
(* The inductive invariant. *)

Labels == {"idle", "names", "visit", "register", "remove", "open", "session", "timeout", "run",
           "forget", "stage", "write"} \cup Answers
Scripts == [does : {"write", "append"}, chunk : Chunks] \cup [does : {"delete"}, chunk : {None}]

TypeOK ==
    /\ configs \in [Hosts -> Settings \cup {None}]
    /\ sessions \in [Hosts -> Ids \cup {None}]
    /\ heap \in [Ids -> Sessions \cup {None}]
    /\ pc \in [Threads -> Labels]
    /\ call \in [Threads -> Calls \cup FileCalls]
    /\ todo \in [Threads -> SUBSET Hosts]
    /\ host \in [Threads -> Hosts \cup {None}]
    /\ mine \in [Threads -> Ids \cup {None}]
    /\ remote \in [Hosts -> Seq(Chunks) \cup {None}]
    /\ staged \in [Sources \cup Targets -> Seq(Chunks) \cup {None}]
    /\ data \in [Threads -> Seq(Chunks)]
    /\ next \in [Threads -> Nat \ {0}]
    /\ late \subseteq Hosts \X Scripts

\* A disk holds so many chunks, and so many commands are still to be run.
LimitsOK ==
    /\ \A h \in Hosts : remote[h] # None => Len(remote[h]) <= MaxLen
    /\ IsFiniteSet(late) /\ Cardinality(late) <= MaxLate

\* A session belongs to a registered host and was made with the settings the host has now.
SessionsOK ==
    \A h \in Hosts : sessions[h] # None =>
       /\ configs[h] # None
       /\ heap[sessions[h]] # None /\ heap[sessions[h]].settings = configs[h]

\* A worker holds a session exactly while it runs a command, which its host has had since
\* the command began; and it is where its tool leads.
Commanding == {"session", "timeout", "run", "forget"}
StageOK(t) ==
    /\ mine[t] # None <=> pc[t] \in {"timeout", "run", "forget"}
    /\ mine[t] # None => heap[mine[t]] # None
    /\ pc[t] \in {"timeout", "run"} => <<host[t], heap[mine[t]].settings>> \in known[t]
    /\ \/ pc[t] \in Commanding \cup {"register"}
       \/ pc[t] # "idle" /\ call[t].tool \notin Visiting
       => host[t] \in Hosts
    /\ pc[t] = "names" => call[t].tool = "list_hosts"
    /\ pc[t] = "visit" => call[t].tool \in Visiting
    /\ pc[t] = "register" => call[t].tool = "add_host"
    /\ pc[t] \in Commanding => call[t].tool # "remove_host"
    /\ pc[t] = "remove" => call[t].tool = "remove_host"
    /\ pc[t] = "open" => call[t].tool = "upload_file"
    /\ pc[t] \in {"stage", "write"} => call[t].tool = "download_file"
    /\ pc[t] \in {"idle", "open"} => next[t] = 1
    /\ pc[t] = "ok" /\ call[t].tool = "add_host" => todo[t] = {}
    /\ call[t].tool = "upload_file" /\ (pc[t] \in Commanding \/ next[t] > 1)
          => next[t] <= Len(data[t])

\* What a call that nobody has disturbed has done so far: ...
CommandDone(t) ==
    /\ pc[t] \in {"timeout", "run"} => sessions[host[t]] = mine[t]
    /\ pc[t] = "run" => heap[mine[t]].timeout = call[t].timeout
    /\ pc[t] \in {"ok", "stage", "write"} /\ call[t].tool \notin Visiting \cup {"remove_host"}
          => sessions[host[t]] # None

\* ... the registry, ...
HostsDone(t) ==
    /\ call[t].tool = "add_host" =>
          \A h \in call[t].hosts \ todo[t] :
             ~(pc[t] = "register" /\ h = host[t]) => configs[h] = call[t].settings
    /\ call[t].tool = "remove_host" /\ pc[t] = "ok" =>
          configs[host[t]] = None /\ sessions[host[t]] = None

\* ... and the files.
FilesDone(t) ==
    LET file == remote[host[t]]
    IN /\ call[t].tool = "upload_file" /\ t \notin dropped =>
             /\ next[t] > 1 => \E n \in {next[t] - 1, next[t]} : file = SubSeq(data[t], 1, n)
             /\ next[t] > 1 /\ pc[t] \in {"session", "timeout", "run"} =>
                   file = SubSeq(data[t], 1, next[t] - 1)
             /\ pc[t] = "ok" => file = data[t]
       /\ call[t].tool = "download_file" =>
             /\ pc[t] \in {"stage", "write"} => file = data[t]
             /\ pc[t] = "ok" => staged[call[t].path] = file
       /\ call[t].tool = "delete_file" /\ pc[t] = "ok" => file = None

DoneBy(t) == pc[t] # "idle" => CommandDone(t) /\ HostsDone(t) /\ FilesDone(t)

IndInv ==
    /\ TypeOK /\ LimitsOK /\ SessionsOK /\ alone \subseteq Threads
    /\ \A t \in Threads : StageOK(t) /\ (t \in alone => DoneBy(t))
=============================================================================
