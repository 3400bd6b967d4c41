--------------------------- MODULE MCWinRMHistory ---------------------------
(* Small instances of WinRMHistory for TLC. *)
EXTENDS WinRMHistory, TLC

CONSTANTS a, b
TwoFiles == {<<>>, <<a, b>>}

Symm == Permutations(Threads) \cup Permutations(Settings)

\* What makes a difference to no step and no property is left out: the timeout of a session
\* but to a command in it, which of the tools that do the same a worker runs, what it was
\* given once its commands are over, and what its answer is not judged by.
Same == {"test_connection", "run_ps", "run_cmd"}
Judged(t) == pc[t] = "ok" /\ t \in alone
Busy(t) == pc[t] \notin Answers \cup {"idle"}
Tool(t) == IF call[t].tool \in Same THEN "run_ps" ELSE call[t].tool
Transfer(t) ==
    IF \/ call[t].tool = "upload_file" /\ (pc[t] \in {"session", "timeout", "run"} \/ t \in alone)
       \/ call[t].tool = "download_file" /\ pc[t] \in {"stage", "write"}
    THEN <<data[t], next[t]>> ELSE <<>>
Work(t) ==
    IF Busy(t) \/ Judged(t)
    THEN <<Tool(t), call[t].hosts, call[t].settings, todo[t], host[t], Transfer(t)>>
    ELSE IF t \in alone THEN <<call[t].tool = "upload_file", Transfer(t), host[t]>> ELSE <<>>
Command(t) ==
    CASE pc[t] = "session" -> <<call[t].timeout, known[t]>>
      [] pc[t] = "timeout" -> <<call[t].timeout, <<host[t], heap[mine[t]].settings>> \in known[t]>>
      [] pc[t] = "run" -> <<t \in alone => heap[mine[t]].timeout = call[t].timeout,
                            <<host[t], heap[mine[t]].settings>> \in known[t]>>
      [] OTHER -> <<>>
Path(t) ==
    CASE call[t].tool \notin FileTools \/ ~(Busy(t) \/ Judged(t)) -> <<>>
      [] call[t].tool = "download_file" /\ Judged(t) -> <<call[t].path, staged[call[t].path]>>
      [] OTHER -> <<call[t].path>>
Label(t) == IF pc[t] \in Answers /\ ~Judged(t) THEN "answered" ELSE pc[t]
Made(i) == IF i \in Free THEN None ELSE heap[i].settings
Seen == <<configs, sessions, [i \in Ids |-> Made(i)], [t \in Threads |-> Label(t)], mine, remote, late, alone, dropped,
          [p \in Sources |-> staged[p]], [t \in Threads |-> <<Work(t), Command(t), Path(t)>>]>>
=============================================================================
