----------------------------- MODULE WinRMProofs -----------------------------
(***************************************************************************)
(* Proofs about WinRMHistory: for any finite sets of workers and hosts,    *)
(* any settings, timeouts, files and staging paths, a disk of any size and *)
(* any number of commands that are run after their answer was lost.        *)
(***************************************************************************)
EXTENDS WinRMHistory, FiniteSetTheorems, SequenceTheorems, TLAPS

USE SessionsAssumption, FilesAssumption

\* No session object is None.
LEMMA IdsFact == None \notin Ids
  <1>1. Cardinality(Threads) + Cardinality(Hosts) \in Nat
    BY FS_CardinalityType
  <1> QED
    BY <1>1 DEF Ids

\* What the tools are called with.
LEMMA CallFact ==
  \A c \in Calls \cup FileCalls :
    /\ c.timeout \in Timeouts /\ c.hosts \subseteq Hosts
    /\ c.tool = "add_host" => c.settings \in Settings
    /\ c.tool \notin Visiting => \E h \in Hosts : c.hosts = {h}
    /\ c.tool = "download_file" => c.path \in Targets
    /\ c.tool = "upload_file" => c.path \in Sources
  <1>1. ASSUME NEW c \in Calls
        PROVE  /\ c.timeout \in Timeouts /\ c.hosts \subseteq Hosts
               /\ c.tool = "add_host" => c.settings \in Settings
               /\ c.tool \notin Visiting => \E h \in Hosts : c.hosts = {h}
               /\ c.tool \notin {"download_file", "upload_file"}
    BY <1>1 DEF Calls, NoCall, Visiting
  <1>2. ASSUME NEW c \in FileCalls
        PROVE  /\ c.timeout \in Timeouts /\ c.tool \notin Visiting
               /\ \E h \in Hosts : c.hosts = {h}
               /\ c.tool = "download_file" => c.path \in Targets
               /\ c.tool = "upload_file" => c.path \in Sources
    BY <1>2 DEF FileCalls, FileCall, Visiting
  <1> QED
    BY <1>1, <1>2 DEF Visiting

\* Where a call begins.
LEMMA SubmitFact ==
  ASSUME NEW t \in Threads, Submit(t) \/ FileSubmit(t)
  PROVE  \E c \in Calls \cup FileCalls, label \in Labels, h \in Hosts \cup {None} :
           /\ pc[t] = "idle"
           /\ pc' = [pc EXCEPT ![t] = label]
           /\ call' = [call EXCEPT ![t] = c]
           /\ todo' = [todo EXCEPT ![t] = IF c.tool \in Visiting THEN c.hosts ELSE {}]
           /\ host' = [host EXCEPT ![t] = h]
           /\ c.tool \notin Visiting => h \in Hosts
           /\ c.tool = "list_hosts" => label = "names"
           /\ c.tool = "add_host" => label = "visit"
           /\ c.tool = "remove_host" => label = "remove"
           /\ c.tool = "upload_file" => label = "open"
           /\ c.tool \notin Visiting \cup {"remove_host", "upload_file"} => label = "session"
           /\ c.tool \in Visiting => c.hosts \subseteq Hosts
  <1> DEFINE H(c) == IF c.tool \in Visiting THEN None ELSE CHOOSE h \in Hosts : c.hosts = {h}
  <1>1. \A c \in Calls \cup FileCalls : /\ H(c) \in Hosts \cup {None}
                                        /\ c.tool \notin Visiting => H(c) \in Hosts
                                        /\ c.hosts \subseteq Hosts
    BY CallFact
  <1>2. CASE Submit(t)
    <2> DEFINE L(c) == CASE c.tool = "list_hosts" -> "names" [] c.tool = "add_host" -> "visit"
                         [] c.tool = "remove_host" -> "remove" [] OTHER -> "session"
    <2>1. PICK c \in Calls : Begin(t, c, L(c))
      BY <1>2 DEF Submit
    <2>2. /\ c.tool = "list_hosts" => L(c) = "names"
          /\ c.tool = "add_host" => L(c) = "visit"
          /\ c.tool = "remove_host" => L(c) = "remove"
          /\ c.tool \notin {"list_hosts", "add_host", "remove_host"} => L(c) = "session"
      BY Zenon
    <2>3. c.tool # "upload_file"
      BY DEF Calls, NoCall
    <2> HIDE DEF L, H
    <2>4. L(c) \in Labels
      BY <2>2 DEF Labels
    <2>5. c \in Calls \cup FileCalls /\ H(c) \in Hosts \cup {None}
      BY <1>1
    <2>6. /\ pc[t] = "idle"
          /\ pc' = [pc EXCEPT ![t] = L(c)]
          /\ call' = [call EXCEPT ![t] = c]
          /\ todo' = [todo EXCEPT ![t] = IF c.tool \in Visiting THEN c.hosts ELSE {}]
          /\ host' = [host EXCEPT ![t] = H(c)]
      BY <2>1 DEF Begin, Goto, H
    <2> QED
      BY <1>1, <2>2, <2>3, <2>4, <2>5, <2>6 DEF Visiting
  <1>3. CASE FileSubmit(t)
    <2> DEFINE L(c) == IF c.tool = "upload_file" THEN "open" ELSE "session"
    <2>1. PICK c \in FileCalls : Begin(t, c, L(c))
      BY <1>3 DEF FileSubmit
    <2>2. c.tool \notin {"list_hosts", "add_host", "remove_host"}
      BY DEF FileCalls, FileCall
    <2>3. L(c) \in Labels
      BY DEF Labels
    <2>4. c \in Calls \cup FileCalls /\ H(c) \in Hosts \cup {None}
      BY <1>1
    <2> HIDE DEF H
    <2>5. /\ pc[t] = "idle"
          /\ pc' = [pc EXCEPT ![t] = L(c)]
          /\ call' = [call EXCEPT ![t] = c]
          /\ todo' = [todo EXCEPT ![t] = IF c.tool \in Visiting THEN c.hosts ELSE {}]
          /\ host' = [host EXCEPT ![t] = H(c)]
      BY <2>1 DEF Begin, Goto, H
    <2> QED
      BY <1>1, <2>2, <2>3, <2>4, <2>5 DEF Visiting
  <1> QED
    BY <1>2, <1>3

\* Starting a call leaves all else as it was.
LEMMA SubmitKeeps ==
  ASSUME NEW t \in Threads, (Submit(t) /\ UNCHANGED files) \/ FileSubmit(t)
  PROVE  UNCHANGED <<configs, sessions, heap, mine, remote, staged, data, next, late>>
  BY DEF Submit, FileSubmit, Begin, pool, files

-----------------------------------------------------------------------------
\* A step of a worker.
HStep(t) == FileStep(t) \/ ChunkDropped(t)

\* Steps that leave the sessions alone.
Idly(t) == Submit(t) \/ FileSubmit(t) \/ Names(t) \/ Visit(t) \/ Open(t) \/ Stage(t) \/ Write(t)

LEMMA IdlyFact ==
  ASSUME NEW t \in Threads, Idly(t)
  PROVE  UNCHANGED <<configs, sessions, heap, mine>>
  BY DEF Idly, Submit, FileSubmit, Begin, Names, Visit, Open, Stage, Write, pool, work

\* The end of a command.
Ends(t) == Run(t) \/ FileRun(t) \/ FileRefused(t) \/ FileRaises(t) \/ ChunkDropped(t)

LEMMA EndsFact ==
  ASSUME NEW t \in Threads, Ends(t)
  PROVE  UNCHANGED <<configs, sessions, heap, call, todo, host>>
  BY DEF Ends, Run, FileRun, FileRefused, FileRaises, ChunkDropped, Onward, Answered, Raises, pool, work

LEMMA HStepShape ==
  ASSUME NEW t \in Threads, HStep(t)
  PROVE  \/ Idly(t) \/ Ends(t) \/ Register(t) \/ Remove(t) \/ GetSession(t) \/ SetTimeout(t)
         \/ Forget(t) \/ FileReturn(t)
  BY DEF HStep, FileStep, Step, Idly, Ends

\* get_session gives a worker the session that its host has, or has now, which was made with
\* the settings of the host, and takes it from nobody.
LEMMA GetFact ==
  ASSUME IndInv, NEW t \in Threads, GetSession(t)
  PROVE  \/ UNCHANGED <<configs, sessions, heap, mine>> /\ Goto(t, Ended(t, "raised"))
         \/ /\ Goto(t, "timeout") /\ configs' = configs
            /\ \E i \in Ids : /\ configs[host[t]] # None
                              /\ sessions' = [sessions EXCEPT ![host[t]] = i]
                              /\ mine' = [mine EXCEPT ![t] = i]
                              /\ sessions[host[t]] \in {i, None}
                              /\ \/ heap' = heap /\ i = sessions[host[t]]
                                 \/ i \in Free /\ heap' = [heap EXCEPT ![i] =
                                       [settings |-> configs[host[t]], timeout |-> Default]]
  <1>0. host[t] \in Hosts
    BY DEF IndInv, StageOK, Commanding, GetSession
  <1>1. CASE configs[host[t]] = None
    BY <1>1 DEF GetSession, pool
  <1>2. CASE configs[host[t]] # None /\ sessions[host[t]] # None
    <2>1. /\ sessions[host[t]] \in Ids
          /\ sessions = [sessions EXCEPT ![host[t]] = sessions[host[t]]]
      BY <1>0, <1>2 DEF IndInv, TypeOK
    <2>2. /\ mine' = [mine EXCEPT ![t] = sessions[host[t]]]
          /\ Goto(t, "timeout")
          /\ configs' = configs /\ heap' = heap /\ sessions' = sessions
      BY <1>2 DEF GetSession, pool
    <2> QED
      BY <1>2, <2>1, <2>2
  <1>3. CASE configs[host[t]] # None /\ sessions[host[t]] = None
    <2>1. PICK new \in Free :
             /\ heap' = [heap EXCEPT ![new] = [settings |-> configs[host[t]], timeout |-> Default]]
             /\ sessions' = [sessions EXCEPT ![host[t]] = new]
             /\ mine' = [mine EXCEPT ![t] = new]
      BY <1>3 DEF GetSession
    <2>2. Goto(t, "timeout") /\ configs' = configs
      BY <1>3 DEF GetSession
    <2>3. new \in Ids
      BY DEF Free
    <2> QED
      BY <1>3, <2>1, <2>2, <2>3
  <1> QED
    BY <1>1, <1>2, <1>3

\* The sessions of the hosts and of the workers are objects that exist.
LEMMA InHands ==
  ASSUME IndInv
  PROVE  /\ heap \in [Ids -> Sessions \cup {None}]
         /\ \A u \in Threads : mine[u] # None => mine[u] \in Ids /\ heap[mine[u]] \in Sessions
         /\ \A h \in Hosts : sessions[h] # None => sessions[h] \in Ids /\ heap[sessions[h]] \in Sessions
  <1>1. /\ heap \in [Ids -> Sessions \cup {None}]
        /\ mine \in [Threads -> Ids \cup {None}]
        /\ sessions \in [Hosts -> Ids \cup {None}]
    BY DEF IndInv, TypeOK
  <1>2. \A u \in Threads : mine[u] # None => heap[mine[u]] # None
    BY DEF IndInv, StageOK
  <1>3. \A h \in Hosts : sessions[h] # None => heap[sessions[h]] # None
    BY DEF IndInv, SessionsOK
  <1> QED
    BY <1>1, <1>2, <1>3

\* A session keeps the settings it was made with, and its timeout but for run_ps and run_cmd.
LEMMA HeapStep ==
  ASSUME IndInv, NEW t \in Threads, HStep(t)
  PROVE  /\ heap' \in [Ids -> Sessions \cup {None}]
         /\ \A u \in Threads : mine[u] # None =>
               /\ heap'[mine[u]] \in Sessions /\ heap'[mine[u]].settings = heap[mine[u]].settings
               /\ pc[t] # "timeout" => heap'[mine[u]] = heap[mine[u]]
         /\ \A h \in Hosts : sessions[h] # None =>
               heap'[sessions[h]] \in Sessions /\ heap'[sessions[h]].settings = heap[sessions[h]].settings
         /\ pc[t] = "timeout" => heap'[mine[t]].timeout = call[t].timeout
  <1>0. /\ heap \in [Ids -> Sessions \cup {None}]
        /\ \A u \in Threads : mine[u] # None => mine[u] \in Ids /\ heap[mine[u]] \in Sessions
        /\ \A h \in Hosts : sessions[h] # None => sessions[h] \in Ids /\ heap[sessions[h]] \in Sessions
    BY InHands
  <1>1. CASE heap' = heap /\ pc[t] # "timeout"
    BY <1>0, <1>1
  <1>2. CASE Idly(t) \/ Ends(t) \/ Register(t) \/ Remove(t) \/ Forget(t) \/ FileReturn(t)
    <2>1. pc[t] # "timeout"
      BY <1>2 DEF Idly, Ends, Register, Remove, Forget, FileReturn, Return, Answers, Submit, FileSubmit,
                  Begin, Names, Visit, Open, Stage, Write, Run, FileRun, FileRefused, FileRaises,
                  ChunkDropped
    <2>2. heap' = heap
      BY <1>2, IdlyFact, EndsFact DEF Register, Remove, Forget, FileReturn, Return, pool
    <2> QED
      BY <1>1, <2>1, <2>2
  <1>3. CASE GetSession(t)
    <2>1. pc[t] # "timeout" /\ host[t] \in Hosts
      BY <1>3 DEF GetSession, IndInv, StageOK, Commanding
    <2>2. CASE heap' = heap
      BY <1>1, <2>1, <2>2
    <2>3. CASE heap' # heap
      <3>1. PICK i \in Free : /\ configs[host[t]] # None
                              /\ heap' = [heap EXCEPT ![i] =
                                             [settings |-> configs[host[t]], timeout |-> Default]]
        BY <1>3, <2>3, GetFact
      <3>2. [settings |-> configs[host[t]], timeout |-> Default] \in Sessions
        BY <2>1, <3>1 DEF IndInv, TypeOK, Sessions
      <3> DEFINE s == [settings |-> configs[host[t]], timeout |-> Default]
      <3> HIDE DEF s
      <3>3. heap' = [heap EXCEPT ![i] = s] /\ s \in Sessions
        BY <3>1, <3>2 DEF s
      <3>4. /\ i \in Ids
            /\ \A u \in Threads : mine[u] # i
            /\ \A h \in Hosts : sessions[h] # i
        BY DEF Free
      <3> QED
        BY <1>0, <2>1, <3>3, <3>4
    <2> QED
      BY <2>2, <2>3
  <1>4. CASE SetTimeout(t)
    <2>1. pc[t] = "timeout" /\ mine[t] \in Ids /\ heap[mine[t]] \in Sessions /\ call[t].timeout \in Timeouts
      BY <1>0, <1>4, CallFact DEF SetTimeout, IndInv, StageOK, TypeOK
    <2> DEFINE s == [heap[mine[t]] EXCEPT !.timeout = call[t].timeout]
    <2>2. s \in Sessions /\ s.settings = heap[mine[t]].settings /\ s.timeout = call[t].timeout
      BY <2>1 DEF Sessions
    <2>3. heap' = [heap EXCEPT ![mine[t]] = s]
      BY <1>4 DEF SetTimeout
    <2> HIDE DEF s
    <2> QED
      BY <1>0, <2>1, <2>2, <2>3
  <1> QED
    BY <1>2, <1>3, <1>4, HStepShape

-----------------------------------------------------------------------------
\* What the command of a files tool does.
LEMMA ScriptFact ==
  ASSUME IndInv, NEW t \in Threads, pc[t] = "run", call[t].tool \in FileTools
  PROVE  /\ call[t].tool = "upload_file" =>
               /\ next[t] \in 1..Len(data[t]) /\ data[t] \in Seq(Chunks)
               /\ data[t][next[t]] \in Chunks
               /\ Script(t) = [does |-> IF next[t] = 1 THEN "write" ELSE "append",
                               chunk |-> data[t][next[t]]]
         /\ call[t].tool = "delete_file" => Script(t) = [does |-> "delete", chunk |-> None]
         /\ call[t].tool \notin {"upload_file", "delete_file"} =>
               Script(t) = [does |-> "read", chunk |-> None]
         /\ Script(t).does # "read" => Script(t) \in Scripts
         /\ host[t] \in Hosts
  <1>1. /\ call[t].tool = "upload_file" =>
              Script(t) = [does |-> IF next[t] = 1 THEN "write" ELSE "append",
                           chunk |-> data[t][next[t]]]
        /\ call[t].tool = "delete_file" => Script(t) = [does |-> "delete", chunk |-> None]
        /\ call[t].tool \notin {"upload_file", "delete_file"} =>
              Script(t) = [does |-> "read", chunk |-> None]
    BY Zenon DEF Script
  <1>2. next[t] \in Nat \ {0} /\ data[t] \in Seq(Chunks)
    BY DEF IndInv, TypeOK
  <1>3. host[t] \in Hosts /\ (call[t].tool = "upload_file" => next[t] <= Len(data[t]))
    BY DEF IndInv, StageOK, Commanding
  <1>4. call[t].tool = "upload_file" => next[t] \in 1..Len(data[t]) /\ data[t][next[t]] \in Chunks
    BY <1>2, <1>3, ElementOfSeq
  <1>5. Script(t).does # "read" => Script(t) \in Scripts
    BY <1>1, <1>4 DEF Scripts, FileTools
  <1> QED
    BY <1>1, <1>2, <1>3, <1>4, <1>5

LEMMA WorkedFact ==
  ASSUME NEW s, NEW file
  PROVE  /\ s.does = "delete" => Worked(s, file) = None
         /\ s.does = "write" => Worked(s, file) = <<s.chunk>>
         /\ s.does = "append" => Worked(s, file) = Append(IF file = None THEN <<>> ELSE file, s.chunk)
         /\ s.does \notin {"delete", "write", "append"} => Worked(s, file) = file
  BY Zenon DEF Worked

\* A command that works leaves a file that the disk holds, or none.
OnDisk(file) == file = None \/ (file \in Seq(Chunks) /\ Len(file) <= MaxLen)

LEMMA WorksFact ==
  ASSUME NEW s, s.does = "read" \/ s \in Scripts, NEW file, OnDisk(file), Works(s, file)
  PROVE  OnDisk(Worked(s, file))
  <1>1. CASE s.does \notin {"write", "append"}
    <2>1. Worked(s, file) \in {None, file}
      BY <1>1, WorkedFact, Zenon
    <2> QED
      BY <2>1, Zenon DEF OnDisk
  <1>2. CASE s.does \in {"write", "append"}
    <2>1. s.chunk \in Chunks
      BY <1>2 DEF Scripts
    <2>2. CASE s.does = "write" \/ file = None
      <3>1. Worked(s, file) = <<s.chunk>>
        <4>1. Worked(s, file) \in {<<s.chunk>>, Append(<<>>, s.chunk)}
          BY <1>2, <2>2, WorkedFact
        <4> QED
          BY <4>1
      <3> QED
        BY <2>1, <3>1 DEF OnDisk
    <2>3. CASE s.does = "append" /\ file # None
      <3>1. file \in Seq(Chunks) /\ Len(file) < MaxLen
        BY <2>3 DEF OnDisk, Works
      <3>2. Worked(s, file) = Append(file, s.chunk)
        BY <2>3, WorkedFact
      <3>3. Append(file, s.chunk) \in Seq(Chunks) /\ Len(Append(file, s.chunk)) = Len(file) + 1
        BY <2>1, <3>1, AppendProperties
      <3> QED
        BY <3>1, <3>2, <3>3 DEF OnDisk
    <2> QED
      BY <1>2, <2>2, <2>3
  <1> QED
    BY <1>1, <1>2

\* What becomes of the files on the hosts, and of the commands without an answer.
FilesOK ==
    /\ remote \in [Hosts -> Seq(Chunks) \cup {None}]
    /\ late \subseteq Hosts \X Scripts
    /\ LimitsOK

LEMMA FilesStep ==
  ASSUME IndInv, [Next]_vars
  PROVE  FilesOK'
  <1>0. FilesOK /\ \A h \in Hosts : OnDisk(remote[h])
    <2>1. FilesOK
      BY DEF IndInv, TypeOK, FilesOK
    <2> QED
      BY <2>1, Zenon DEF FilesOK, LimitsOK, OnDisk
  <1>1. ASSUME UNCHANGED <<remote, late>> PROVE FilesOK'
    BY <1>0, <1>1 DEF FilesOK, LimitsOK
  <1>2. ASSUME NEW h \in Hosts, NEW file, OnDisk(file), remote' = [remote EXCEPT ![h] = file],
               late' = late
        PROVE  FilesOK'
    BY <1>0, <1>2 DEF FilesOK, LimitsOK, OnDisk
  <1>3. OnDisk(<<>>)
    BY DEF OnDisk
  <1>4. CASE UNCHANGED vars
    BY <1>1, <1>4 DEF vars, files
  <1>5. CASE LateRun
    <2>1. PICK c \in late : /\ late' = late \ {c}
                            /\ \/ remote' = remote
                               \/ /\ Works(c[2], remote[c[1]])
                                  /\ remote' = [remote EXCEPT ![c[1]] = Worked(c[2], remote[c[1]])]
      BY <1>5 DEF LateRun
    <2>2. c[1] \in Hosts /\ c[2] \in Scripts
      BY <1>0 DEF FilesOK
    <2>3. IsFiniteSet(late') /\ Cardinality(late') <= MaxLate
      <3>1. IsFiniteSet(late') /\ Cardinality(late') = Cardinality(late) - 1
        BY <1>0, <2>1, FS_RemoveElement DEF FilesOK, LimitsOK
      <3>2. Cardinality(late) \in Nat /\ Cardinality(late) <= MaxLate
        BY <1>0, FS_CardinalityType DEF FilesOK, LimitsOK
      <3> QED
        BY <3>1, <3>2
    <2>4. \A h \in Hosts : OnDisk(remote'[h])
      <3>1. Works(c[2], remote[c[1]]) => OnDisk(Worked(c[2], remote[c[1]]))
        BY <1>0, <2>2, WorksFact
      <3> QED
        BY <1>0, <2>1, <2>2, <3>1 DEF FilesOK
    <2>5. remote' = [h \in Hosts |-> remote'[h]]
      BY <1>0, <2>1 DEF FilesOK
    <2> QED
      BY <1>0, <2>1, <2>3, <2>4, <2>5 DEF FilesOK, LimitsOK, OnDisk
  <1>6. ASSUME NEW t \in Threads, HStep(t) PROVE FilesOK'
    <2>1. CASE \/ Step(t) /\ UNCHANGED files
               \/ FileSubmit(t) \/ Open(t) \/ Stage(t) \/ Write(t) \/ FileReturn(t)
      BY <1>1, <2>1 DEF files, FileSubmit, Open, Stage, Write, FileReturn
    <2>2. CASE FileRun(t)
      <3>1. /\ Works(Script(t), remote[host[t]]) /\ late' = late
            /\ remote' = [remote EXCEPT ![host[t]] = Worked(Script(t), remote[host[t]])]
        BY <2>2 DEF FileRun
      <3>2. host[t] \in Hosts /\ (Script(t).does = "read" \/ Script(t) \in Scripts)
        BY <2>2, ScriptFact DEF FileRun
      <3> QED
        BY <1>0, <1>2, <3>1, <3>2, WorksFact
    <2>3. CASE FileRefused(t)
      <3>1. host[t] \in Hosts /\ late' = late
        BY <2>3, ScriptFact DEF FileRefused
      <3>2. remote' = remote \/ remote' = [remote EXCEPT ![host[t]] = <<>>]
        BY <2>3 DEF FileRefused
      <3> QED
        BY <1>1, <1>2, <1>3, <3>1, <3>2
    <2>4. CASE ChunkDropped(t)
      <3>1. host[t] \in Hosts /\ late' = late
        BY <2>4, ScriptFact DEF ChunkDropped, FileTools
      <3>2. remote' = [remote EXCEPT ![host[t]] = IF remote[host[t]] = None THEN <<>>
                                                  ELSE remote[host[t]]]
        BY <2>4 DEF ChunkDropped
      <3> QED
        BY <1>0, <1>2, <1>3, <3>1, <3>2
    <2>5. CASE FileRaises(t)
      <3>1. host[t] \in Hosts /\ (Script(t).does = "read" \/ Script(t) \in Scripts)
        BY <2>5, ScriptFact DEF FileRaises
      <3>2. CASE UNCHANGED <<remote, late>>
        BY <1>1, <3>2
      <3>3. CASE /\ Works(Script(t), remote[host[t]]) /\ late' = late
                 /\ remote' = [remote EXCEPT ![host[t]] = Worked(Script(t), remote[host[t]])]
        BY <1>0, <1>2, <3>1, <3>3, WorksFact
      <3>4. CASE /\ Cardinality(late) < MaxLate /\ Script(t).does # "read"
                 /\ late' = late \cup {<<host[t], Script(t)>>} /\ remote' = remote
        <4>1. IsFiniteSet(late) /\ Cardinality(late) \in Nat
          BY <1>0, FS_CardinalityType DEF FilesOK, LimitsOK
        <4>2. /\ IsFiniteSet(late')
              /\ Cardinality(late') \in {Cardinality(late), Cardinality(late) + 1}
          BY <3>4, <4>1, FS_AddElement
        <4>3. IsFiniteSet(late') /\ Cardinality(late') <= MaxLate
          BY <3>4, <4>1, <4>2, FS_CardinalityType
        <4>4. late' \subseteq Hosts \X Scripts
          BY <1>0, <3>1, <3>4 DEF FilesOK
        <4> QED
          BY <1>0, <3>4, <4>3, <4>4 DEF FilesOK, LimitsOK
      <3> QED
        BY <2>5, <3>2, <3>3, <3>4 DEF FileRaises
    <2> QED
      BY <1>6, <2>1, <2>2, <2>3, <2>4, <2>5 DEF HStep, FileStep
  <1> QED
    BY <1>4, <1>5, <1>6 DEF Next, HStep

-----------------------------------------------------------------------------
\* The types of what the workers and the registry hold.
WorkOK ==
    /\ configs \in [Hosts -> Settings \cup {None}]
    /\ sessions \in [Hosts -> Ids \cup {None}]
    /\ pc \in [Threads -> Labels]
    /\ call \in [Threads -> Calls \cup FileCalls]
    /\ todo \in [Threads -> SUBSET Hosts]
    /\ host \in [Threads -> Hosts \cup {None}]
    /\ mine \in [Threads -> Ids \cup {None}]
TransferOK ==
    /\ staged \in [Sources \cup Targets -> Seq(Chunks) \cup {None}]
    /\ data \in [Threads -> Seq(Chunks)]
    /\ next \in [Threads -> Nat \ {0}]

LEMMA WorkStep ==
  ASSUME IndInv, NEW t \in Threads, HStep(t)
  PROVE  WorkOK'
  <1>0. WorkOK
    BY DEF IndInv, TypeOK, WorkOK
  <1> USE <1>0 DEF WorkOK, Goto, pool, work
  <1>2. CASE Submit(t) \/ FileSubmit(t)
    <2>1. UNCHANGED <<configs, sessions, mine>>
      BY <1>2, IdlyFact DEF Idly
    <2>2. \E c \in Calls \cup FileCalls, label \in Labels, h \in Hosts \cup {None}, S \in SUBSET Hosts :
             /\ pc' = [pc EXCEPT ![t] = label]
             /\ call' = [call EXCEPT ![t] = c]
             /\ todo' = [todo EXCEPT ![t] = S]
             /\ host' = [host EXCEPT ![t] = h]
      BY <1>2, SubmitFact
    <2> QED
      BY <2>1, <2>2
  <1>3. CASE Names(t) \/ Visit(t) \/ Open(t) \/ Stage(t) \/ Write(t)
    <2>1. UNCHANGED <<configs, sessions, mine, call>>
      BY <1>3, IdlyFact DEF Idly, Names, Visit, Open, Stage, Write
    <2>2. \E label \in Labels : pc' = [pc EXCEPT ![t] = label]
      BY <1>3 DEF Names, Visit, Open, Stage, Write, Labels, Answers
    <2>3. /\ todo' = todo \/ \E S \in SUBSET Hosts : todo' = [todo EXCEPT ![t] = S]
          /\ host' = host \/ \E h \in Hosts : host' = [host EXCEPT ![t] = h]
      BY <1>3 DEF Names, Visit, Open, Stage, Write
    <2> QED
      BY <2>1, <2>2, <2>3
  <1>5. CASE Register(t)
    <2>1. call[t].settings \in Settings
      BY <1>5, CallFact DEF Register, IndInv, StageOK
    <2> QED
      BY <1>5, <2>1 DEF Register, Labels
  <1>6. CASE Remove(t) \/ Forget(t)
    <2>1. \E label \in Labels : pc' = [pc EXCEPT ![t] = label]
      BY <1>6 DEF Remove, Forget, Ended, Labels, Answers
    <2>2. /\ configs' = configs \/ configs' = [configs EXCEPT ![host[t]] = None]
          /\ sessions' = [sessions EXCEPT ![host[t]] = None]
          /\ mine' = mine \/ mine' = [mine EXCEPT ![t] = None]
          /\ UNCHANGED <<call, todo, host>>
      BY <1>6 DEF Remove, Forget
    <2>3. configs' \in [Hosts -> Settings \cup {None}] /\ sessions' \in [Hosts -> Ids \cup {None}]
      BY <2>2
    <2>4. pc' \in [Threads -> Labels] /\ mine' \in [Threads -> Ids \cup {None}]
      BY <2>1, <2>2
    <2> QED
      BY <2>2, <2>3, <2>4
  <1>7. CASE GetSession(t)
    <2>1. /\ configs' = configs /\ \E label \in Labels : pc' = [pc EXCEPT ![t] = label]
          /\ UNCHANGED <<call, todo, host>>
      BY <1>7 DEF GetSession, Ended, Labels, Answers
    <2>2. \E i \in Ids \cup {None}, j \in Ids \cup {None} :
             /\ mine' = mine \/ mine' = [mine EXCEPT ![t] = i]
             /\ sessions' = sessions \/ sessions' = [sessions EXCEPT ![host[t]] = j]
      BY <1>7, GetFact
    <2> QED
      BY <2>1, <2>2
  <1>8. CASE SetTimeout(t)
    BY <1>8 DEF SetTimeout, Labels
  <1>9. CASE Ends(t)
    <2>1. UNCHANGED <<configs, sessions, call, todo, host>>
      BY <1>9, EndsFact
    <2>2. \E label \in Labels : pc' = [pc EXCEPT ![t] = label]
      BY <1>9 DEF Ends, Run, FileRun, FileRefused, FileRaises, ChunkDropped, Onward, Answered, Raises,
                  Ended, Labels, Answers
    <2>3. mine' = mine \/ mine' = [mine EXCEPT ![t] = None]
      BY <1>9 DEF Ends, Run, FileRun, FileRefused, FileRaises, ChunkDropped, Onward, Answered, Raises
    <2> QED
      BY <2>1, <2>2, <2>3
  <1>10. CASE FileReturn(t)
    <2>1. NoCall \in Calls
      BY DEF Calls
    <2> QED
      BY <1>10, <2>1 DEF FileReturn, Return, Labels
  <1> QED
    BY <1>2, <1>3, <1>5, <1>6, <1>7, <1>8, <1>9, <1>10, HStepShape DEF Idly

LEMMA TransferStep ==
  ASSUME IndInv, NEW t \in Threads, HStep(t)
  PROVE  TransferOK'
  <1>0. TransferOK /\ remote \in [Hosts -> Seq(Chunks) \cup {None}]
    BY DEF IndInv, TypeOK, TransferOK
  <1> USE <1>0 DEF TransferOK, files
  <1>1. CASE \/ Step(t) /\ UNCHANGED files
             \/ FileSubmit(t) \/ FileRaises(t)
    BY <1>1 DEF FileSubmit, FileRaises
  <1>2. CASE Open(t)
    <2>1. call[t].tool = "upload_file"
      BY <1>2 DEF Open, IndInv, StageOK
    <2>2. staged[call[t].path] \in Seq(Chunks) \cup {None}
      <3>1. call[t].path \in Sources
        BY <2>1, CallFact DEF IndInv, TypeOK
      <3> QED
        BY <3>1
    <2> QED
      BY <1>2, <2>2 DEF Open
  <1>3. CASE FileRun(t)
    <2>1. host[t] \in Hosts
      BY <1>3, ScriptFact DEF FileRun
    <2>2. \E file \in Seq(Chunks) : data' = data \/ data' = [data EXCEPT ![t] = file]
      BY <1>3, <2>1 DEF FileRun
    <2>3. data' \in [Threads -> Seq(Chunks)]
      BY <2>2
    <2>4. staged' = staged /\ (next' = next \/ next' = [next EXCEPT ![t] = next[t] + 1])
      BY <1>3 DEF FileRun, Onward
    <2> QED
      BY <2>3, <2>4
  <1>4. CASE FileRefused(t) \/ ChunkDropped(t)
    <2>1. UNCHANGED <<staged, data>> /\ (next' = next \/ next' = [next EXCEPT ![t] = next[t] + 1])
      BY <1>4 DEF FileRefused, ChunkDropped, Onward
    <2> QED
      BY <2>1
  <1>5. CASE Stage(t) \/ Write(t)
    <2>1. UNCHANGED <<data, next>>
      BY <1>5 DEF Stage, Write
    <2>2. PICK file \in {<<>>, data[t]} :
             staged' = staged \/ staged' = [staged EXCEPT ![call[t].path] = file]
      BY <1>5 DEF Stage, Write
    <2>3. file \in Seq(Chunks)
      <3>1. <<>> \in Seq(Chunks)
        OBVIOUS
      <3>2. data[t] \in Seq(Chunks)
        OBVIOUS
      <3> QED
        BY <3>1, <3>2
    <2>4. staged' \in [Sources \cup Targets -> Seq(Chunks) \cup {None}]
      BY <2>2, <2>3
    <2> QED
      BY <2>1, <2>4
  <1>6. CASE FileReturn(t)
    BY <1>6 DEF FileReturn
  <1> QED
    BY <1>1, <1>2, <1>3, <1>4, <1>5, <1>6 DEF HStep, FileStep

\* Every action keeps the types of the variables.
LEMMA TypeStep ==
  ASSUME IndInv, [Next]_vars
  PROVE  TypeOK'
  <1>0. TypeOK /\ FilesOK'
    BY FilesStep DEF IndInv
  <1>1. CASE UNCHANGED vars
    BY <1>0, <1>1 DEF vars, svars, pool, work, files, TypeOK
  <1>2. CASE LateRun
    BY <1>0, <1>2 DEF LateRun, svars, pool, work, TypeOK, FilesOK
  <1>3. ASSUME NEW t \in Threads, HStep(t) PROVE TypeOK'
    BY <1>0, <1>3, HeapStep, WorkStep, TransferStep DEF TypeOK, FilesOK, WorkOK, TransferOK
  <1> QED
    BY <1>1, <1>2, <1>3 DEF Next, HStep

-----------------------------------------------------------------------------
\* What a step of `t` leaves as it was: what concerns the calls of the others.
Aside(t) == \A u \in Threads \ {t} :
    /\ pc'[u] = pc[u] /\ call'[u] = call[u] /\ todo'[u] = todo[u] /\ host'[u] = host[u]
    /\ mine'[u] = mine[u] /\ data'[u] = data[u] /\ next'[u] = next[u]

LEMMA AsideFact ==
  ASSUME IndInv, NEW t \in Threads, HStep(t)
  PROVE  Aside(t)
  <1>0. TypeOK
    BY DEF IndInv
  <1> USE <1>0 DEF Aside, TypeOK, Goto, work, pool, files
  <1>1. CASE (Submit(t) /\ UNCHANGED files) \/ FileSubmit(t)
    <2>1. UNCHANGED <<mine, data, next>>
      BY <1>1, SubmitKeeps
    <2> QED
      BY <1>1, <2>1, SubmitFact
  <1>2. CASE (Names(t) \/ Visit(t)) /\ UNCHANGED files
    BY <1>2 DEF Names, Visit
  <1>3. CASE (Register(t) \/ Remove(t) \/ SetTimeout(t) \/ Forget(t)) /\ UNCHANGED files
    BY <1>3 DEF Register, Remove, SetTimeout, Forget
  <1>4. CASE GetSession(t) /\ UNCHANGED files
    <2>1. UNCHANGED <<call, todo, host, data, next>>
      BY <1>4 DEF GetSession
    <2>2. /\ \E label \in Labels : pc' = [pc EXCEPT ![t] = label]
          /\ mine' = mine \/ \E i \in Ids : mine' = [mine EXCEPT ![t] = i]
      BY <1>4, GetFact DEF Ended, Labels, Answers
    <2> QED
      BY <2>1, <2>2
  <1>5. CASE \/ Run(t) /\ UNCHANGED files
             \/ FileRun(t) \/ FileRefused(t) \/ FileRaises(t) \/ ChunkDropped(t)
    <2>1. UNCHANGED <<call, todo, host>>
      BY <1>5, EndsFact DEF Ends
    <2>2. /\ \E label \in Labels : pc' = [pc EXCEPT ![t] = label]
          /\ mine' = mine \/ mine' = [mine EXCEPT ![t] = None]
          /\ next' = next \/ next' = [next EXCEPT ![t] = next[t] + 1]
          /\ data' = data \/ data' = [data EXCEPT ![t] = remote[host[t]]]
      BY <1>5 DEF Run, FileRun, FileRefused, FileRaises, ChunkDropped, Onward, Answered, Raises,
         Ended, Labels, Answers
    <2> QED
      BY <2>1, <2>2
  <1>6. CASE Open(t) \/ Stage(t) \/ Write(t)
    BY <1>6 DEF Open, Stage, Write
  <1>7. CASE FileReturn(t)
    BY <1>7 DEF FileReturn, Return
  <1> QED
    BY <1>1, <1>2, <1>3, <1>4, <1>5, <1>6, <1>7 DEF HStep, FileStep, Step

-----------------------------------------------------------------------------
\* A session goes when the settings of its host do.
LEMMA SessionsStep ==
  ASSUME IndInv, [Next]_vars
  PROVE  SessionsOK'
  <1>0. /\ configs \in [Hosts -> Settings \cup {None}] /\ sessions \in [Hosts -> Ids \cup {None}]
        /\ SessionsOK
    BY DEF IndInv, TypeOK
  <1>1. CASE UNCHANGED <<configs, sessions, heap>>
    BY <1>0, <1>1 DEF SessionsOK
  <1>2. ASSUME NEW t \in Threads, HStep(t) PROVE SessionsOK'
    <2>0. \A h \in Hosts : sessions[h] # None => /\ heap'[sessions[h]] # None
                                               /\ heap'[sessions[h]].settings = configs[h]
      <3>1. \A h \in Hosts : sessions[h] # None =>
               heap'[sessions[h]] \in Sessions /\ heap'[sessions[h]].settings = heap[sessions[h]].settings
        BY <1>2, HeapStep
      <3> QED
        BY <1>0, <3>1 DEF SessionsOK
    <2>1. CASE UNCHANGED <<configs, sessions>>
      BY <1>0, <2>0, <2>1 DEF SessionsOK
    <2>2. CASE Register(t) \/ Remove(t) \/ Forget(t)
      <3>1. \A h \in Hosts : sessions'[h] # None => sessions'[h] = sessions[h] /\ configs'[h] = configs[h]
        BY <1>0, <2>2 DEF Register, Remove, Forget
      <3> QED
        BY <1>0, <2>0, <3>1 DEF SessionsOK
    <2>3. CASE GetSession(t)
      <3>1. CASE UNCHANGED <<configs, sessions>>
        BY <2>1, <3>1
      <3>2. CASE ~UNCHANGED <<configs, sessions>>
        <4>1. host[t] \in Hosts
          BY <2>3 DEF IndInv, StageOK, Commanding, GetSession
        <4>2. PICK i \in Ids : /\ configs' = configs /\ configs[host[t]] # None
                               /\ sessions' = [sessions EXCEPT ![host[t]] = i]
                               /\ \/ heap' = heap /\ i = sessions[host[t]]
                                  \/ heap' = [heap EXCEPT ![i] =
                                        [settings |-> configs[host[t]], timeout |-> Default]]
          BY <2>3, <3>2, GetFact
        <4> DEFINE s == [settings |-> configs[host[t]], timeout |-> Default]
        <4>3. s \in Sessions /\ s.settings = configs[host[t]]
          BY <1>0, <4>1, <4>2 DEF Sessions
        <4>4. heap \in [Ids -> Sessions \cup {None}]
          BY InHands
        <4>5. i = sessions[host[t]] \/ heap' = [heap EXCEPT ![i] = s]
          BY <4>2
        <4> HIDE DEF s
        <4>6. heap'[i] # None /\ heap'[i].settings = configs[host[t]]
          BY <2>0, <4>1, <4>3, <4>4, <4>5, IdsFact
        <4>7. \A h \in Hosts : h # host[t] => sessions'[h] = sessions[h]
          BY <1>0, <4>2
        <4>8. sessions'[host[t]] = i
          BY <1>0, <4>1, <4>2
        <4> QED
          BY <1>0, <2>0, <4>2, <4>6, <4>7, <4>8 DEF SessionsOK
      <3> QED
        BY <3>1, <3>2
    <2> QED
      BY <1>2, <2>1, <2>2, <2>3, IdlyFact, EndsFact, HStepShape DEF SetTimeout, FileReturn, Return, pool
  <1> QED
    BY <1>1, <1>2 DEF Next, HStep, LateRun, vars, svars, pool

-----------------------------------------------------------------------------
\* A step of HNext is one of a worker or of a late command.
Drops(t) == \/ FileStep(t) /\ dropped' = {u \in dropped : pc'[u] # "idle"}
            \/ ChunkDropped(t) /\ dropped' = dropped \cup {t}

LEMMA HNextShape ==
  ASSUME [HNext]_hvars
  PROVE  /\ [Next]_vars
         /\ \/ UNCHANGED hvars
            \/ LateRun /\ Observed(None) /\ dropped' = dropped
            \/ \E t \in Threads : HStep(t) /\ Observed(t) /\ Drops(t)
  BY DEF HNext, hvars, HStep, Next, Drops

\* The parts of StageOK: the session of a command, ...
Holds(t) ==
    /\ mine[t] # None <=> pc[t] \in {"timeout", "run", "forget"}
    /\ mine[t] # None => heap[mine[t]] # None
    /\ pc[t] \in {"timeout", "run"} => <<host[t], heap[mine[t]].settings>> \in known[t]
\* ... where the tools lead ...
Leads(t) ==
    /\ \/ pc[t] \in Commanding \cup {"register"}
       \/ pc[t] # "idle" /\ call[t].tool \notin Visiting
       => host[t] \in Hosts
    /\ pc[t] = "names" => call[t].tool = "list_hosts"
    /\ pc[t] = "visit" => call[t].tool \in Visiting
    /\ pc[t] = "register" => call[t].tool = "add_host"
    /\ pc[t] \in Commanding => call[t].tool # "remove_host"
    /\ pc[t] = "remove" => call[t].tool = "remove_host"
    /\ pc[t] = "open" => call[t].tool = "upload_file"
    /\ pc[t] \in {"stage", "write"} => call[t].tool = "download_file"
    /\ pc[t] = "ok" /\ call[t].tool = "add_host" => todo[t] = {}
\* ... and the chunks of an upload.
Sends(t) ==
    /\ pc[t] \in {"idle", "open"} => next[t] = 1
    /\ call[t].tool = "upload_file" /\ (pc[t] \in Commanding \/ next[t] > 1)
          => next[t] <= Len(data[t])

LEMMA StageParts == \A t \in Threads : StageOK(t) <=> Holds(t) /\ Leads(t) /\ Sends(t)
  BY DEF StageOK, Holds, Leads, Sends

\* The session that a worker holds is kept, although its host may have another by now.
LEMMA HoldsStep ==
  ASSUME IndInv, NEW t \in Threads, HStep(t), Observed(t), NEW u \in Threads
  PROVE  Holds(u)'
  <1>0. /\ Holds(u) /\ TypeOK
        /\ mine[u] # None => heap'[mine[u]] # None /\ heap'[mine[u]].settings = heap[mine[u]].settings
    BY HeapStep, StageParts DEF IndInv
  <1>1. /\ pc'[u] \in {"timeout", "run"} /\ pc[u] \in {"session", "timeout", "run"}
             /\ (pc'[u] = pc[u] \/ pc[u] # "run")
           => known[u] \subseteq known'[u] /\ Current' \subseteq known'[u]
    BY DEF Observed
  <1>2. CASE u # t
    <2>1. pc'[u] = pc[u] /\ host'[u] = host[u] /\ mine'[u] = mine[u]
      BY <1>2, AsideFact DEF Aside
    <2> QED
      BY <1>0, <1>1, <2>1 DEF Holds
  <1>3. CASE u = t
    <2>1. CASE Idly(t) \/ Register(t) \/ Remove(t) \/ FileReturn(t)
      <3>1. mine'[t] = mine[t]
        BY <2>1, IdlyFact DEF Register, Remove, FileReturn, Return, work
      <3>2. pc[t] \notin {"timeout", "run", "forget"} /\ pc'[t] \notin {"timeout", "run", "forget"}
        <4>1. CASE Submit(t) \/ FileSubmit(t)
          BY <1>0, <4>1, SubmitFact DEF TypeOK, Visiting
        <4> QED
          BY <1>0, <2>1, <4>1 DEF Idly, Names, Visit, Open, Stage, Write, Register, Remove, FileReturn,
             Return, Answers, Goto, TypeOK
      <3> QED
        BY <1>0, <1>3, <3>1, <3>2 DEF Holds
    <2>2. CASE GetSession(t)
      <3>0. pc[t] = "session" /\ host'[t] = host[t] /\ host[t] \in Hosts
        BY <2>2, StageParts DEF GetSession, Leads, Commanding, IndInv
      <3>1. CASE Goto(t, Ended(t, "raised")) /\ mine' = mine
        BY <1>0, <1>3, <3>0, <3>1 DEF Goto, Ended, Holds, TypeOK
      <3>2. CASE ~(Goto(t, Ended(t, "raised")) /\ mine' = mine)
        <4>1. PICK i \in Ids : /\ Goto(t, "timeout") /\ configs' = configs
                               /\ configs[host[t]] # None
                               /\ sessions' = [sessions EXCEPT ![host[t]] = i]
                               /\ mine' = [mine EXCEPT ![t] = i]
          BY <2>2, <3>2, GetFact
        <4>2. pc'[t] = "timeout" /\ mine'[t] = i /\ sessions'[host[t]] = i /\ i # None
          BY <1>0, <3>0, <4>1, IdsFact DEF Goto, TypeOK
        <4>3. heap'[i] # None /\ heap'[i].settings = configs[host[t]]
          <5>1. SessionsOK'
            BY SessionsStep DEF HStep, Next
          <5> QED
            BY <3>0, <4>1, <4>2, <5>1 DEF SessionsOK
        <4>4. <<host[t], configs[host[t]]>> \in Current'
          BY <3>0, <4>1 DEF Current
        <4>5. <<host[t], configs[host[t]]>> \in known'[t]
          BY <1>1, <1>3, <3>0, <4>2, <4>4
        <4> QED
          BY <1>3, <3>0, <4>2, <4>3, <4>5 DEF Holds
      <3> QED
        BY <3>1, <3>2
    <2>3. CASE SetTimeout(t)
      <3>1. pc[t] = "timeout" /\ pc'[t] = "run" /\ mine'[t] = mine[t] /\ host'[t] = host[t]
        BY <1>0, <2>3 DEF SetTimeout, Goto, work, TypeOK
      <3> QED
        BY <1>0, <1>1, <1>3, <3>1 DEF Holds
    <2>4. CASE Ends(t)
      <3>1. /\ pc[t] = "run"
            /\ \/ pc'[t] = "forget" /\ mine'[t] = mine[t]
               \/ pc'[t] \notin {"timeout", "run", "forget"} /\ mine'[t] = None
        BY <1>0, <2>4 DEF Ends, Run, FileRun, FileRefused, FileRaises, ChunkDropped, Onward, Answered,
           Raises, Ended, Goto, work, TypeOK
      <3> QED
        BY <1>0, <1>3, <3>1 DEF Holds
    <2>5. CASE Forget(t)
      <3>1. pc'[t] \notin {"timeout", "run", "forget"} /\ mine'[t] = None
        BY <1>0, <2>5 DEF Forget, Goto, Ended, TypeOK
      <3> QED
        BY <1>3, <3>1 DEF Holds
    <2> QED
      BY <2>1, <2>2, <2>3, <2>4, <2>5, HStepShape
  <1> QED
    BY <1>2, <1>3

\* A worker stays on the way of its tool.
LEMMA LeadsStep ==
  ASSUME IndInv, NEW t \in Threads, HStep(t), NEW u \in Threads
  PROVE  Leads(u)'
  <1>0. Leads(u) /\ TypeOK
    BY StageParts DEF IndInv
  <1>1. CASE u # t
    <2>1. pc'[u] = pc[u] /\ host'[u] = host[u] /\ call'[u] = call[u] /\ todo'[u] = todo[u]
      BY <1>1, AsideFact DEF Aside
    <2> QED
      BY <1>0, <2>1 DEF Leads
  <1>2. CASE u = t
    <2> USE <1>0, <1>2 DEF Leads, Commanding, Visiting, TypeOK, Goto, work, pool
    <2>1. CASE Submit(t) \/ FileSubmit(t)
      BY <2>1, SubmitFact
    <2>2. CASE Names(t) \/ Visit(t)
      BY <2>2 DEF Names, Visit
    <2>3. CASE Register(t) \/ Remove(t) \/ SetTimeout(t)
      BY <2>3 DEF Register, Remove, SetTimeout
    <2>4. CASE GetSession(t) \/ Forget(t)
      BY <2>4 DEF GetSession, Forget, Ended
    <2>5. CASE Open(t) \/ Stage(t) \/ Write(t)
      BY <2>5 DEF Open, Stage, Write
    <2>6. CASE Ends(t)
      <3>1. UNCHANGED <<call, todo, host>>
        BY <2>6, EndsFact
      <3>2. /\ pc[t] = "run"
            /\ \/ pc'[t] \in {"forget", "error", "raised", "refused"}
               \/ pc'[t] = "visit" /\ call[t].tool \in Visiting
               \/ pc'[t] = "session" /\ call[t].tool = "upload_file"
               \/ pc'[t] = "stage" /\ call[t].tool = "download_file"
               \/ pc'[t] = "ok" /\ call[t].tool # "add_host"
        BY <2>6 DEF Ends, Run, FileRun, FileRefused, FileRaises, ChunkDropped, Onward, Answered,
           Raises, Ended, FileTools
      <3> QED
        BY <3>1, <3>2
    <2>7. CASE FileReturn(t)
      BY <2>7 DEF FileReturn, Return
    <2> QED
      BY <2>1, <2>2, <2>3, <2>4, <2>5, <2>6, <2>7, HStepShape DEF Idly
  <1> QED
    BY <1>1, <1>2

\* An upload has a chunk to send as long as it runs commands.
LEMMA SendsStep ==
  ASSUME IndInv, NEW t \in Threads, HStep(t), NEW u \in Threads
  PROVE  Sends(u)'
  <1>0. Sends(u) /\ Leads(u) /\ TypeOK
    BY StageParts DEF IndInv
  <1>1. CASE u # t
    <2>1. pc'[u] = pc[u] /\ call'[u] = call[u] /\ data'[u] = data[u] /\ next'[u] = next[u]
      BY <1>1, AsideFact DEF Aside
    <2> QED
      BY <1>0, <2>1 DEF Sends
  <1>2. CASE u = t
    <2> USE <1>0, <1>2 DEF Sends, Leads, Commanding, TypeOK, Goto, work, pool, files
    <2>1. CASE (Submit(t) /\ UNCHANGED files) \/ FileSubmit(t)
      <3>1. UNCHANGED <<data, next>>
        BY <2>1, SubmitKeeps
      <3> QED
        BY <2>1, <3>1, SubmitFact
    <2>2. CASE Open(t)
      <3>1. CASE pc'[t] = "session"
        <4>1. data'[t] \in Seq(Chunks) \ {<<>>} /\ next' = next /\ next[t] = 1 /\ call' = call
          <5>1. data'[t] # <<>> /\ next' = next /\ next[t] = 1 /\ call' = call
            BY <2>2, <3>1 DEF Open
          <5>2. data' \in [Threads -> Seq(Chunks)]
            BY TransferStep DEF TransferOK
          <5> QED
            BY <5>1, <5>2
        <4>2. Len(data'[t]) >= 1
          BY <4>1
        <4> QED
          BY <3>1, <4>1, <4>2
      <3> QED
        BY <2>2, <3>1 DEF Open
    <2>3. CASE /\ Names(t) \/ Visit(t) \/ Register(t) \/ Remove(t) \/ GetSession(t) \/ SetTimeout(t)
                  \/ Run(t) \/ Forget(t)
               /\ UNCHANGED files
      <3>1. UNCHANGED <<data, next, call>>
        BY <2>3 DEF Names, Visit, Register, Remove, GetSession, SetTimeout, Run, Forget, Answered, Raises
      <3>2. pc'[t] # "idle" /\ pc'[t] # "open"
        BY <2>3 DEF Names, Visit, Register, Remove, GetSession, SetTimeout, Run, Forget, Answered,
           Raises, Ended
      <3>3. pc'[t] \in Commanding => pc[t] \in Commanding \/ call[t].tool # "upload_file"
        BY <2>3 DEF Names, Visit, Register, Remove, GetSession, SetTimeout, Run, Forget, Answered,
           Raises, Ended, Visiting
      <3> QED
        BY <3>1, <3>2, <3>3
    <2>4. CASE FileRun(t) \/ FileRefused(t) \/ FileRaises(t) \/ ChunkDropped(t)
      <3>1. /\ pc[t] = "run" /\ call' = call /\ pc'[t] \notin {"idle", "open"}
            /\ call[t].tool = "upload_file" => data'[t] = data[t]
            /\ call[t].tool = "upload_file" =>
                  \/ next'[t] = next[t]
                  \/ next'[t] = next[t] + 1 /\ next[t] < Len(data[t])
        BY <2>4 DEF FileRun, FileRefused, FileRaises, ChunkDropped, Onward, Answered, Raises
      <3>2. Len(data[t]) \in Nat
        OBVIOUS
      <3> QED
        BY <3>1, <3>2
    <2>5. CASE Stage(t) \/ Write(t)
      BY <2>5 DEF Stage, Write
    <2>6. CASE FileReturn(t)
      BY <2>6 DEF FileReturn, Return, NoCall
    <2> QED
      BY <2>1, <2>2, <2>3, <2>4, <2>5, <2>6 DEF HStep, FileStep, Step
  <1> QED
    BY <1>1, <1>2

-----------------------------------------------------------------------------
\* One chunk more.
LEMMA PrefixFact ==
  ASSUME NEW s \in Seq(Chunks), NEW k \in 1..Len(s)
  PROVE  /\ SubSeq(s, 1, k) \in Seq(Chunks)
         /\ <<s[1]>> = SubSeq(s, 1, 1)
         /\ k > 1 => /\ SubSeq(s, 1, k - 1) \in Seq(Chunks)
                     /\ Append(SubSeq(s, 1, k - 1), s[k]) = SubSeq(s, 1, k)
         /\ SubSeq(s, 1, Len(s)) = s
  <1>1. \A i \in 1..k : s[i] \in Chunks
    BY ElementOfSeq
  <1>2. SubSeq(s, 1, k) \in Seq(Chunks)
    BY <1>1, SubSeqProperties
  <1>3. <<s[1]>> = SubSeq(s, 1, 1)
    <2>1. SubSeq(s, 1, 1) = SubSeq(s, 1, 1 - 1) \o <<s[1]>>
      BY SubSeqRecursiveSecond
    <2>2. SubSeq(s, 1, 1 - 1) = <<>>
      BY SubSeqEmpty
    <2>3. s[1] \in Chunks
      BY <1>1
    <2> QED
      BY <2>1, <2>2, <2>3
  <1>4. ASSUME k > 1
        PROVE  /\ SubSeq(s, 1, k - 1) \in Seq(Chunks)
               /\ Append(SubSeq(s, 1, k - 1), s[k]) = SubSeq(s, 1, k)
    <2>1. SubSeq(s, 1, k - 1) \in Seq(Chunks)
      BY <1>1, <1>4, SubSeqProperties
    <2>2. SubSeq(s, 1, k) = SubSeq(s, 1, k - 1) \o <<s[k]>>
      BY <1>4, SubSeqRecursiveSecond
    <2>3. s[k] \in Chunks
      BY <1>1
    <2> QED
      BY <2>1, <2>2, <2>3, AppendIsConcat
  <1>5. SubSeq(s, 1, Len(s)) = s
    BY SubSeqFull
  <1> QED
    BY <1>2, <1>3, <1>4, <1>5

\* What a call has done stays done while others disturb nothing of it.
LEMMA DoneStays ==
  ASSUME IndInv, NEW u \in Threads, u \in alone, u \notin dropped' => u \notin dropped,
         UNCHANGED <<configs, sessions, remote, staged>>,
         mine[u] # None => heap'[mine[u]] = heap[mine[u]],
         pc'[u] = pc[u], call'[u] = call[u], todo'[u] = todo[u], host'[u] = host[u],
         mine'[u] = mine[u], data'[u] = data[u], next'[u] = next[u]
  PROVE  DoneBy(u)'
  <1>1. DoneBy(u) /\ Holds(u)
    BY StageParts DEF IndInv
  <1>2. pc'[u] # "idle" => CommandDone(u)'
    BY <1>1 DEF DoneBy, CommandDone, Holds
  <1>3. pc'[u] # "idle" => HostsDone(u)'
    BY <1>1 DEF DoneBy, HostsDone
  <1>4. pc'[u] # "idle" => FilesDone(u)'
    BY <1>1 DEF DoneBy, FilesDone
  <1> QED
    BY <1>2, <1>3, <1>4 DEF DoneBy

\* A step of the call itself: the session it runs its command in is its host's.
LEMMA OwnCommand ==
  ASSUME IndInv, NEW t \in Threads, t \in alone, HStep(t), pc'[t] # "idle"
  PROVE  CommandDone(t)'
  <1>0. /\ pc[t] # "idle" => CommandDone(t)
        /\ Leads(t) /\ Holds(t) /\ TypeOK /\ Leads(t)'
    BY StageParts, LeadsStep DEF IndInv, DoneBy
  <1> USE <1>0 DEF CommandDone, TypeOK, Goto, work, pool
  <1>1. CASE Idly(t)
    <2>1. UNCHANGED <<sessions, mine>>
      BY <1>1, IdlyFact
    <2>2. CASE Submit(t) \/ FileSubmit(t)
      <3>1. pc'[t] \notin {"timeout", "run", "ok", "stage", "write"}
        BY <2>2, SubmitFact DEF Visiting
      <3> QED
        BY <3>1
    <2>3. CASE Names(t) \/ Visit(t) \/ Open(t)
      BY <2>3 DEF Names, Visit, Open, Leads
    <2>4. CASE Stage(t) \/ Write(t)
      BY <2>1, <2>4 DEF Stage, Write, Leads, Visiting
    <2> QED
      BY <1>1, <2>2, <2>3, <2>4 DEF Idly
  <1>2. CASE Register(t) \/ Remove(t) \/ Forget(t) \/ FileReturn(t)
    BY <1>2 DEF Register, Remove, Forget, FileReturn, Return, Ended, Leads
  <1>3. CASE GetSession(t)
    <2>1. CASE Goto(t, Ended(t, "raised"))
      BY <1>3, <2>1 DEF GetSession, Ended
    <2>2. CASE ~Goto(t, Ended(t, "raised"))
      <3>1. host[t] \in Hosts /\ host' = host /\ pc[t] = "session"
        BY <1>3 DEF GetSession, Leads, Commanding
      <3>2. PICK i \in Ids : /\ Goto(t, "timeout")
                             /\ sessions' = [sessions EXCEPT ![host[t]] = i]
                             /\ mine' = [mine EXCEPT ![t] = i]
        BY <1>3, <2>2, GetFact
      <3> QED
        BY <3>1, <3>2
    <2> QED
      BY <2>1, <2>2
  <1>4. CASE SetTimeout(t)
    <2>1. pc[t] = "timeout" /\ pc'[t] = "run" /\ UNCHANGED <<sessions, mine, call, host>>
      BY <1>4 DEF SetTimeout
    <2>2. heap'[mine[t]].timeout = call[t].timeout
      BY <2>1, HeapStep
    <2> QED
      BY <2>1, <2>2
  <1>5. CASE Ends(t)
    <2>1. UNCHANGED <<sessions, call, host>>
      BY <1>5, EndsFact
    <2>2. pc[t] = "run" /\ pc'[t] \notin {"timeout", "run"}
      BY <1>5 DEF Ends, Run, FileRun, FileRefused, FileRaises, ChunkDropped, Onward, Answered, Raises,
         Ended
    <2>3. sessions[host[t]] # None
      BY <2>2 DEF Holds
    <2> QED
      BY <2>1, <2>2, <2>3
  <1> QED
    BY <1>1, <1>2, <1>3, <1>4, <1>5, HStepShape

\* A step of the call itself: what add_host and remove_host do.
LEMMA OwnHosts ==
  ASSUME IndInv, NEW t \in Threads, t \in alone, HStep(t), pc'[t] # "idle"
  PROVE  HostsDone(t)'
  <1>0. /\ pc[t] # "idle" => HostsDone(t)
        /\ Leads(t) /\ TypeOK
    BY StageParts DEF IndInv, DoneBy
  <1> USE <1>0 DEF HostsDone, Leads, Visiting, Commanding, TypeOK, Goto, work, pool
  <1>1. CASE Submit(t) \/ FileSubmit(t)
    BY <1>1, SubmitFact
  <1>2. CASE Names(t)
    BY <1>2 DEF Names
  <1>3. CASE Visit(t)
    <2>1. configs' = configs /\ call' = call /\ pc[t] = "visit"
      BY <1>3 DEF Visit
    <2>2. CASE call[t].tool = "add_host" /\ todo'[t] = todo[t]
      BY <2>1, <2>2
    <2>3. CASE call[t].tool = "add_host" /\ todo'[t] # todo[t]
      <3>1. PICK h \in todo[t] : todo'[t] = todo[t] \ {h} /\ host'[t] = h /\ pc'[t] = "register"
        BY <1>3, <2>3 DEF Visit
      <3>2. \A g \in call[t].hosts \ todo[t] : configs[g] = call[t].settings
        BY <2>1, <2>3
      <3> QED
        BY <2>1, <2>3, <3>1, <3>2
    <2>4. CASE call[t].tool # "add_host"
      BY <2>1, <2>4
    <2> QED
      BY <2>2, <2>3, <2>4
  <1>4. CASE Register(t)
    <2>1. /\ call[t].tool = "add_host" /\ host[t] \in Hosts /\ UNCHANGED <<call, todo, host>>
          /\ configs' = [configs EXCEPT ![host[t]] = call[t].settings]
      BY <1>4 DEF Register
    <2>2. \A h \in Hosts : configs'[h] = IF h = host[t] THEN call[t].settings ELSE configs[h]
      BY <2>1
    <2>3. call[t].hosts \subseteq Hosts
      BY CallFact
    <2>4. \A h \in call[t].hosts \ todo[t] : h = host[t] \/ configs[h] = call[t].settings
      BY <1>4, <2>1 DEF Register
    <2> QED
      BY <2>1, <2>2, <2>3, <2>4
  <1>5. CASE Remove(t)
    BY <1>5 DEF Remove
  <1>6. CASE GetSession(t) \/ SetTimeout(t) \/ Forget(t)
    BY <1>6 DEF GetSession, SetTimeout, Forget
  <1>7. CASE Ends(t)
    <2>1. UNCHANGED <<configs, call, todo, host>>
      BY <1>7, EndsFact
    <2>2. pc[t] = "run"
      BY <1>7 DEF Ends, Run, FileRun, FileRefused, FileRaises, ChunkDropped
    <2> QED
      BY <2>1, <2>2
  <1>8. CASE Open(t) \/ Stage(t) \/ Write(t)
    BY <1>8 DEF Open, Stage, Write
  <1>9. CASE FileReturn(t)
    BY <1>9 DEF FileReturn, Return
  <1> QED
    BY <1>1, <1>2, <1>3, <1>4, <1>5, <1>6, <1>7, <1>8, <1>9, HStepShape DEF Idly

\* What has become of a file that an upload has written `n` chunks of, one more with this.
LEMMA ChunkFact ==
  ASSUME IndInv, NEW t \in Threads, t \in alone, t \notin dropped,
         pc[t] = "run", call[t].tool = "upload_file", Works(Script(t), remote[host[t]])
  PROVE  Worked(Script(t), remote[host[t]]) = SubSeq(data[t], 1, next[t])
  <1>1. /\ next[t] \in 1..Len(data[t]) /\ data[t] \in Seq(Chunks)
        /\ Script(t) = [does |-> IF next[t] = 1 THEN "write" ELSE "append", chunk |-> data[t][next[t]]]
    BY ScriptFact DEF FileTools
  <1>2. next[t] > 1 => remote[host[t]] = SubSeq(data[t], 1, next[t] - 1)
    BY DEF IndInv, DoneBy, FilesDone
  <1>3. CASE next[t] = 1
    <2>1. Script(t).does = "write" /\ Script(t).chunk = data[t][1]
      BY <1>1, <1>3
    <2>2. Worked(Script(t), remote[host[t]]) = <<data[t][1]>>
      BY <2>1, WorkedFact
    <2> QED
      BY <1>1, <1>3, <2>2, PrefixFact
  <1>4. CASE next[t] > 1
    <2>1. Script(t).does = "append" /\ Script(t).chunk = data[t][next[t]]
      BY <1>1, <1>4
    <2>2. remote[host[t]] \in Seq(Chunks)
      BY <1>1, <1>2, <1>4, PrefixFact
    <2>3. Worked(Script(t), remote[host[t]]) = Append(remote[host[t]], data[t][next[t]])
      BY <2>1, <2>2, WorkedFact
    <2>4. Append(SubSeq(data[t], 1, next[t] - 1), data[t][next[t]]) = SubSeq(data[t], 1, next[t])
      BY <1>1, <1>4, PrefixFact
    <2> QED
      BY <1>2, <1>4, <2>3, <2>4
  <1> QED
    BY <1>3, <1>4 DEF IndInv, TypeOK

\* What FilesDone says of an upload.
Uploaded(t) ==
    LET file == remote[host[t]]
    IN /\ next[t] > 1 => \E n \in {next[t] - 1, next[t]} : file = SubSeq(data[t], 1, n)
       /\ next[t] > 1 /\ pc[t] \in {"session", "timeout", "run"} =>
             file = SubSeq(data[t], 1, next[t] - 1)
       /\ pc[t] = "ok" => file = data[t]

\* A step of an upload: it goes on only after a chunk that was written.
LEMMA OwnUpload ==
  ASSUME IndInv, NEW t \in Threads, t \in alone, HStep(t), Drops(t), pc'[t] # "idle",
         call'[t].tool = "upload_file", t \notin dropped'
  PROVE  Uploaded(t)'
  <1>1. FileStep(t) /\ t \notin dropped
    BY DEF Drops
  <1>0. /\ pc[t] # "idle" /\ call[t].tool = "upload_file" => Uploaded(t)
        /\ Leads(t) /\ Sends(t) /\ Holds(t) /\ TypeOK
    BY <1>1, StageParts DEF IndInv, DoneBy, FilesDone, Uploaded
  <1> USE <1>0 DEF Uploaded, Leads, Sends, Visiting, Commanding, TypeOK, Goto, work, pool, files
  <1>2. CASE (Submit(t) /\ UNCHANGED files) \/ FileSubmit(t)
    <2>1. next'[t] = 1 /\ pc'[t] = "open"
      BY <1>2, SubmitKeeps, SubmitFact
    <2> QED
      BY <2>1
  <1>3. CASE Open(t)
    <2>1. next'[t] = 1 /\ pc'[t] # "ok"
      BY <1>3 DEF Open
    <2> QED
      BY <2>1
  <1>4. CASE GetSession(t) \/ SetTimeout(t) \/ Forget(t)
    <2>1. /\ UNCHANGED <<call, host>> /\ pc[t] # "idle" /\ pc'[t] # "ok"
          /\ pc'[t] \in {"session", "timeout", "run"} => pc[t] \in {"session", "timeout", "run"}
      BY <1>4 DEF GetSession, SetTimeout, Forget, Ended
    <2>2. UNCHANGED files
      BY <1>1, <1>4 DEF FileStep, GetSession, SetTimeout, Forget, FileSubmit, Begin, Open, FileRun,
         FileRefused, FileRaises, Stage, Write, FileReturn, Return, Answers
    <2> QED
      BY <2>1, <2>2
  <1>5. CASE FileRun(t)
    <2>1. /\ call' = call /\ host' = host /\ host[t] \in Hosts /\ data'[t] = data[t]
          /\ pc[t] = "run" /\ call[t].tool = "upload_file"
      BY <1>5, EndsFact DEF Ends, FileRun
    <2>2. remote'[host[t]] = SubSeq(data[t], 1, next[t])
      <3>1. Works(Script(t), remote[host[t]])
        BY <1>5 DEF FileRun
      <3>2. Worked(Script(t), remote[host[t]]) = SubSeq(data[t], 1, next[t])
        BY <1>1, <2>1, <3>1, ChunkFact
      <3>3. remote' = [remote EXCEPT ![host[t]] = Worked(Script(t), remote[host[t]])]
        BY <1>5 DEF FileRun
      <3> QED
        BY <2>1, <3>2, <3>3
    <2>3. next[t] \in 1..Len(data[t]) /\ data[t] \in Seq(Chunks)
      BY <2>1, ScriptFact DEF FileTools
    <2>4. CASE next[t] < Len(data[t])
      <3>1. next'[t] = next[t] + 1 /\ pc'[t] = "session"
        BY <1>5, <2>1, <2>4 DEF FileRun, Onward, Answered
      <3>2. next'[t] - 1 = next[t]
        BY <2>3, <3>1
      <3> QED
        BY <2>1, <2>2, <3>1, <3>2
    <2>5. CASE next[t] = Len(data[t])
      <3>1. next'[t] = next[t] /\ pc'[t] = "ok"
        BY <1>5, <2>1, <2>3, <2>5 DEF FileRun, Onward, Answered
      <3>2. remote'[host[t]] = data[t]
        BY <2>2, <2>3, <2>5, PrefixFact
      <3> QED
        BY <2>1, <2>2, <3>1, <3>2
    <2> QED
      BY <2>3, <2>4, <2>5
  <1>6. CASE FileRefused(t)
    <2>1. /\ UNCHANGED <<call, host, data, next>> /\ pc[t] = "run" /\ pc'[t] \in {"error", "raised"}
          /\ next[t] > 1 => remote' = remote
      BY <1>6 DEF FileRefused, Answered
    <2> QED
      BY <2>1
  <1>7. CASE FileRaises(t)
    <2>1. /\ UNCHANGED <<call, host, data, next>> /\ pc[t] = "run" /\ pc'[t] = "forget"
          /\ host[t] \in Hosts
      BY <1>7 DEF FileRaises, Raises
    <2>2. CASE remote' = remote
      BY <2>1, <2>2
    <2>3. CASE remote' # remote
      <3>1. /\ Works(Script(t), remote[host[t]])
            /\ remote' = [remote EXCEPT ![host[t]] = Worked(Script(t), remote[host[t]])]
        BY <1>7, <2>3 DEF FileRaises
      <3>2. Worked(Script(t), remote[host[t]]) = SubSeq(data[t], 1, next[t])
        BY <1>1, <2>1, <3>1, ChunkFact
      <3>3. remote'[host[t]] = SubSeq(data[t], 1, next[t])
        BY <2>1, <3>1, <3>2
      <3> QED
        BY <2>1, <3>3
    <2> QED
      BY <2>2, <2>3
  <1>8. CASE \/ Names(t) \/ Visit(t) \/ Register(t) \/ Remove(t) \/ Run(t) \/ Stage(t) \/ Write(t)
             \/ FileReturn(t)
    <2>1. call[t].tool # "upload_file" \/ call'[t].tool # "upload_file"
      BY <1>8 DEF Names, Visit, Register, Remove, Run, Tools, Stage, Write, FileReturn, Return, NoCall
    <2>2. call' = call \/ call'[t].tool # "upload_file"
      BY <1>8 DEF Names, Visit, Register, Remove, Run, Answered, Raises, Stage, Write, FileReturn,
         Return, NoCall
    <2> QED
      BY <2>1, <2>2
  <1> QED
    BY <1>1, <1>2, <1>3, <1>4, <1>5, <1>6, <1>7, <1>8 DEF FileStep, Step

\* What FilesDone says of downloads and deletions.
Transferred(t) ==
    LET file == remote[host[t]]
    IN /\ call[t].tool = "download_file" =>
             /\ pc[t] \in {"stage", "write"} => file = data[t]
             /\ pc[t] = "ok" => staged[call[t].path] = file
       /\ call[t].tool = "delete_file" /\ pc[t] = "ok" => file = None

\* A step of a download or of a deletion.
LEMMA OwnTransfer ==
  ASSUME IndInv, NEW t \in Threads, t \in alone, HStep(t), pc'[t] # "idle"
  PROVE  Transferred(t)'
  <1>0. /\ pc[t] # "idle" => Transferred(t)
        /\ Leads(t) /\ TypeOK
    BY StageParts DEF IndInv, DoneBy, FilesDone, Transferred
  <1> USE <1>0 DEF Transferred, Leads, Visiting, Commanding, TypeOK, Goto, work, pool, files
  <1>1. ASSUME pc'[t] \notin {"stage", "write", "ok"} PROVE Transferred(t)'
    BY <1>1
  <1>2. CASE \/ Submit(t) \/ FileSubmit(t) \/ Names(t) \/ Open(t) \/ Register(t) \/ GetSession(t)
             \/ SetTimeout(t) \/ Forget(t) \/ FileReturn(t) \/ FileRefused(t) \/ FileRaises(t)
    <2>1. CASE Submit(t) \/ FileSubmit(t)
      <3>1. pc'[t] \notin {"stage", "write", "ok"}
        BY <2>1, SubmitFact
      <3> QED
        BY <1>1, <3>1
    <2>2. CASE Names(t) \/ Open(t) \/ Register(t) \/ GetSession(t) \/ SetTimeout(t) \/ Forget(t)
               \/ FileReturn(t) \/ FileRefused(t) \/ FileRaises(t)
      <3>1. pc'[t] \notin {"stage", "write", "ok"}
        BY <2>2 DEF Names, Open, Register, GetSession, SetTimeout, Forget, Ended, FileReturn, Return,
           FileRefused, FileRaises, Answered, Raises
      <3> QED
        BY <1>1, <3>1
    <2> QED
      BY <1>2, <2>1, <2>2
  <1>3. CASE Visit(t) \/ Remove(t) \/ Run(t) \/ ChunkDropped(t)
    <2>1. call' = call /\ call[t].tool \notin {"download_file", "delete_file"}
      BY <1>3 DEF Visit, Remove, Run, ChunkDropped, Tools, Answered, Raises, Onward
    <2> QED
      BY <2>1
  <1>4. CASE FileRun(t)
    <2>1. /\ call' = call /\ host' = host /\ host[t] \in Hosts /\ pc[t] = "run"
          /\ call[t].tool \in FileTools
      BY <1>4, EndsFact DEF Ends, FileRun
    <2>2. remote' = [remote EXCEPT ![host[t]] = Worked(Script(t), remote[host[t]])]
      BY <1>4 DEF FileRun
    <2>3. CASE call[t].tool = "download_file"
      <3>1. Script(t) = [does |-> "read", chunk |-> None]
        BY <2>1, <2>3, ScriptFact
      <3>2. Worked(Script(t), remote[host[t]]) = remote[host[t]]
        <4>1. Script(t).does \notin {"delete", "write", "append"}
          BY <3>1
        <4> QED
          BY <4>1, WorkedFact
      <3>3. remote'[host[t]] = remote[host[t]] /\ data'[t] = remote[host[t]] /\ pc'[t] = "stage"
        BY <1>4, <2>1, <2>2, <2>3, <3>2 DEF FileRun, Onward, Answered
      <3> QED
        BY <2>1, <2>3, <3>3
    <2>4. CASE call[t].tool = "delete_file"
      <3>1. Script(t) = [does |-> "delete", chunk |-> None]
        BY <2>1, <2>4, ScriptFact
      <3>2. remote'[host[t]] = None
        BY <2>1, <2>2, <3>1, WorkedFact
      <3> QED
        BY <2>1, <2>4, <3>2
    <2>5. CASE call[t].tool \notin {"download_file", "delete_file"}
      BY <2>1, <2>5
    <2> QED
      BY <2>3, <2>4, <2>5
  <1>5. CASE Stage(t)
    BY <1>5 DEF Stage
  <1>6. CASE Write(t)
    <2>1. call[t].path \in Targets
      BY <1>6, CallFact DEF Write
    <2>2. UNCHANGED <<call, host, remote>> /\ call[t].tool = "download_file" /\ remote[host[t]] = data[t]
      BY <1>6 DEF Write
    <2>3. pc'[t] = "ok" => staged'[call[t].path] = data[t]
      BY <1>6, <2>1 DEF Write
    <2>4. pc'[t] \in {"ok", "raised"}
      BY <1>6 DEF Write
    <2> QED
      BY <2>2, <2>3, <2>4
  <1> QED
    BY <1>2, <1>3, <1>4, <1>5, <1>6 DEF HStep, FileStep, Step

-----------------------------------------------------------------------------
LEMMA InitHistory == HInit => IndInv
  <1> SUFFICES ASSUME HInit PROVE IndInv
    OBVIOUS
  <1> USE DEF HInit, Init, SInit
  <1>1. TypeOK
    <2>1. /\ remote \in [Hosts -> Seq(Chunks) \cup {None}]
          /\ staged \in [Sources \cup Targets -> Seq(Chunks) \cup {None}]
      OBVIOUS
    <2>2. NoCall \in Calls
      BY DEF Calls
    <2> QED
      BY <2>1, <2>2 DEF TypeOK, Labels
  <1>2. LimitsOK
    <2>1. \A h \in Hosts : remote[h] # None => Len(remote[h]) <= MaxLen
      OBVIOUS
    <2>2. IsFiniteSet(late) /\ Cardinality(late) = 0
      BY FS_EmptySet
    <2> QED
      BY <2>1, <2>2 DEF LimitsOK
  <1>3. SessionsOK
    BY DEF SessionsOK
  <1>4. \A t \in Threads : StageOK(t) /\ DoneBy(t)
    BY DEF StageOK, DoneBy, Commanding, NoCall
  <1> QED
    BY <1>1, <1>2, <1>3, <1>4 DEF IndInv

\* Where a worker is and what it holds.
LEMMA StageStep ==
  ASSUME IndInv, [HNext]_hvars, NEW u \in Threads
  PROVE  StageOK(u)'
  <1>1. CASE UNCHANGED hvars
    BY <1>1 DEF IndInv, StageOK, hvars, vars, svars, pool, work, files
  <1>2. CASE LateRun /\ Observed(None)
    <2>1. UNCHANGED <<svars, data, next>>
      BY <1>2 DEF LateRun
    <2>2. pc[u] \in {"timeout", "run"} => known[u] \subseteq known'[u]
      BY <1>2, <2>1 DEF Observed, svars
    <2> QED
      BY <2>1, <2>2 DEF IndInv, StageOK, svars, pool, work
  <1>3. ASSUME NEW t \in Threads, HStep(t), Observed(t) PROVE StageOK(u)'
    <2>1. Holds(u)' /\ Leads(u)' /\ Sends(u)'
      BY <1>3, HoldsStep, LeadsStep, SendsStep
    <2> QED
      BY <2>1 DEF StageOK, Holds, Leads, Sends
  <1> QED
    BY <1>1, <1>2, <1>3, HNextShape

\* What an undisturbed call has done stays done, whoever acts.
LEMMA DoneStep ==
  ASSUME IndInv, [HNext]_hvars, NEW u \in Threads, u \in alone'
  PROVE  DoneBy(u)'
  <1>1. CASE UNCHANGED hvars
    BY <1>1, DoneStays DEF hvars, vars, svars, pool, work, files
  <1>2. CASE LateRun /\ Observed(None) /\ dropped' = dropped
    <2>1. UNCHANGED <<svars, staged, data, next>>
      BY <1>2 DEF LateRun
    <2>2. pc'[u] = "idle" \/ (u \in alone /\ UNCHANGED <<configs, sessions, remote>>)
      BY <1>2 DEF Observed
    <2> QED
      BY <1>2, <2>1, <2>2, DoneStays DEF svars, pool, work, DoneBy
  <1>3. ASSUME NEW t \in Threads, HStep(t), Observed(t), Drops(t) PROVE DoneBy(u)'
    <2>1. CASE pc'[u] = "idle"
      BY <2>1 DEF DoneBy
    <2>2. CASE pc'[u] # "idle" /\ u = t
      <3>1. u \in alone
        BY <1>3, <2>2 DEF Observed
      <3>2. CommandDone(u)' /\ HostsDone(u)' /\ Transferred(u)'
        BY <1>3, <2>2, <3>1, OwnCommand, OwnHosts, OwnTransfer
      <3>3. call'[u].tool = "upload_file" /\ u \notin dropped' => Uploaded(u)'
        BY <1>3, <2>2, <3>1, OwnUpload
      <3> QED
        BY <3>2, <3>3 DEF DoneBy, FilesDone, Uploaded, Transferred
    <2>3. CASE pc'[u] # "idle" /\ u # t
      <3>1. u \in alone /\ pc[t] \notin {"timeout", "stage", "write"} /\ UNCHANGED <<configs, sessions, remote>>
        BY <1>3, <2>3 DEF Observed
      <3>2. staged' = staged
        BY <1>3, <3>1 DEF HStep, FileStep, files, FileSubmit, Open, FileRun, FileRefused, FileRaises,
           ChunkDropped, Stage, Write, FileReturn
      <3>3. /\ pc'[u] = pc[u] /\ call'[u] = call[u] /\ todo'[u] = todo[u] /\ host'[u] = host[u]
            /\ mine'[u] = mine[u] /\ data'[u] = data[u] /\ next'[u] = next[u]
        BY <1>3, <2>3, AsideFact DEF Aside
      <3>4. mine[u] # None => heap'[mine[u]] = heap[mine[u]]
        BY <1>3, <3>1, HeapStep
      <3>5. u \notin dropped' => u \notin dropped
        BY <1>3, <2>3 DEF Drops
      <3> QED
        BY <3>1, <3>2, <3>3, <3>4, <3>5, DoneStays
    <2> QED
      BY <2>1, <2>2, <2>3
  <1> QED
    BY <1>1, <1>2, <1>3, HNextShape

LEMMA InvStep == IndInv /\ [HNext]_hvars => IndInv'
  <1> SUFFICES ASSUME IndInv, [HNext]_hvars PROVE IndInv'
    OBVIOUS
  <1>1. [Next]_vars
    BY HNextShape
  <1>2. TypeOK' /\ LimitsOK' /\ SessionsOK'
    BY <1>1, TypeStep, FilesStep, SessionsStep DEF FilesOK
  <1>3. \A u \in Threads : StageOK(u)' /\ (u \in alone' => DoneBy(u)')
    BY StageStep, DoneStep
  <1>4. alone' \subseteq Threads
    BY HNextShape DEF Observed, hvars, IndInv
  <1> QED
    BY <1>2, <1>3, <1>4 DEF IndInv

\* The inductive invariant of WinRMHistory.
THEOREM Invariance == HSpec => []IndInv
  <1> QED
    BY InitHistory, InvStep, PTL DEF HSpec

\* No command runs with settings of a registration that ended before it began, nor, in a
\* call that nobody disturbs, with the timeout of another.
THEOREM CurrentCommands == HSpec => []CommandsCurrent
  <1>1. IndInv => CommandsCurrent
    BY DEF IndInv, StageOK, DoneBy, CommandDone, CommandsCurrent
  <1> QED
    BY <1>1, Invariance, PTL

\* An upload that nobody disturbs leaves the first chunks of its file, whatever fails.
THEOREM PrefixUploads == HSpec => []UploadsArePrefixes
  <1>1. ASSUME IndInv, NEW t \in alone \ dropped, call[t].tool = "upload_file", next[t] > 1
        PROVE  \E n \in {next[t] - 1, next[t]} : remote[host[t]] = SubSeq(data[t], 1, n)
    <2>1. StageOK(t) /\ DoneBy(t)
      BY <1>1 DEF IndInv
    <2>2. pc[t] # "idle"
      BY <1>1, <2>1 DEF StageOK
    <2> QED
      BY <1>1, <2>1, <2>2 DEF DoneBy, FilesDone
  <1>2. IndInv => UploadsArePrefixes
    BY <1>1 DEF UploadsArePrefixes
  <1> QED
    BY <1>2, Invariance, PTL

\* What the tools answer is so, unless another call or a late command has changed it.
THEOREM TrueAnswers == HSpec => []AnswersHold
  <1>1. ASSUME IndInv, NEW t \in alone, pc[t] = "ok"
        PROVE  CommandDone(t) /\ HostsDone(t) /\ FilesDone(t) /\ Leads(t)
    BY <1>1, StageParts DEF IndInv, DoneBy
  <1>2. IndInv => AnswersHold
    BY <1>1 DEF CommandDone, HostsDone, FilesDone, Leads, AnswersHold
  <1> QED
    BY <1>2, Invariance, PTL
=============================================================================
