----------------------------- MODULE WinRMFiles -----------------------------
(***************************************************************************)
(* The file tools of the WinRM server, over the sessions they run their    *)
(* commands in: uploads, one chunk for each command, downloads, lists and  *)
(* deletions of one path on each host, and the staged files here.          *)
(* The commands of concurrent tools interleave, and one whose answer is    *)
(* lost may have been run, or be run later.                                *)
(*                                                                         *)
(* A file is the sequence of its chunks.  PowerShell is external: a script *)
(* goes on after a method has thrown, and its exit status is that of its   *)
(* last statement.                                                         *)
(***************************************************************************)
EXTENDS WinRMSessions, Sequences

CONSTANTS
    Chunks,   \* contents of a chunk
    Files,    \* the files there may be at first, as sequences of chunks
    Sources,  \* paths in the staging directory that uploads read
    Targets,  \* and those that downloads write
    MaxLen,   \* chunks that a disk holds
    MaxLate   \* commands that are still to be run when their answer has been lost

ASSUME FilesAssumption ==
    /\ MaxLen \in Nat \ {0} /\ MaxLate \in Nat
    /\ None \notin Seq(Chunks)
    /\ Files \subseteq {f \in Seq(Chunks) : Len(f) <= MaxLen}

VARIABLES
    remote,  \* the file on each host, or None
    staged,  \* the files in the staging directory, or None
    data,    \* what an upload has read, or a download has been sent
    next,    \* the chunk an upload is at
    late     \* commands of which no answer will come, as <<host, script>>

files == <<remote, staged, data, next, late>>
vars == <<svars, files>>

FileTools == {"upload_file", "download_file", "list_directory", "delete_file"}
FileCall(tool, h, path) ==
    [tool |-> tool, hosts |-> {h}, settings |-> None, timeout |-> Default, path |-> path]
FileCalls ==
         {FileCall("upload_file", h, p) : h \in Hosts, p \in Sources}
    \cup {FileCall("download_file", h, p) : h \in Hosts, p \in Targets}
    \cup {FileCall(tool, h, None) : tool \in {"list_directory", "delete_file"}, h \in Hosts}

Init ==
    /\ SInit
    /\ remote \in [Hosts -> {None} \cup Files]
    /\ staged \in [Sources \cup Targets -> {None} \cup Files]
    /\ data = [t \in Threads |-> <<>>]
    /\ next = [t \in Threads |-> 1]
    /\ late = {}

FileSubmit(t) ==
    /\ \E c \in FileCalls : Begin(t, c, IF c.tool = "upload_file" THEN "open" ELSE "session")
    /\ UNCHANGED files

\* A path outside the staging directory and an absent file answer an error; an empty file
\* has no first chunk, and raises.
Open(t) ==
    /\ pc[t] = "open"
    /\ LET file == staged[call[t].path]
       IN \/ Goto(t, "error") /\ UNCHANGED data
          \/ file = <<>> /\ Goto(t, "raised") /\ UNCHANGED data
          \/ /\ file \notin {None, <<>>}
             /\ data' = [data EXCEPT ![t] = file]
             /\ Goto(t, "session")
    /\ UNCHANGED <<pool, work, remote, staged, next, late>>

-----------------------------------------------------------------------------
\* What the script of each command does: the first chunk of an upload replaces the file,
\* the others are appended to it.
Script(t) ==
    CASE call[t].tool = "upload_file" -> [does |-> IF next[t] = 1 THEN "write" ELSE "append",
                                          chunk |-> data[t][next[t]]]
      [] call[t].tool = "delete_file" -> [does |-> "delete", chunk |-> None]
      [] OTHER -> [does |-> "read", chunk |-> None]

\* Faulty variant: every chunk replaces the file.
WorkedReplacing(s, file) ==
    CASE s.does = "delete" -> None
      [] s.does \in {"write", "append"} -> <<s.chunk>>
      [] OTHER -> file

Worked(s, file) ==
    CASE s.does = "delete" -> None
      [] s.does = "write" -> <<s.chunk>>
      [] s.does = "append" -> Append(IF file = None THEN <<>> ELSE file, s.chunk)
      [] OTHER -> file

\* Remove-Item needs the file, a disk may be full.
Works(s, file) ==
    /\ s.does = "delete" => file # None
    /\ s.does = "append" /\ file # None => Len(file) < MaxLen

\* The next chunk, or the end.
Onward(t) ==
    IF call[t].tool = "upload_file" /\ next[t] < Len(data[t])
    THEN next' = [next EXCEPT ![t] = @ + 1] /\ Answered(t, "session")
    ELSE next' = next /\ Answered(t, IF call[t].tool = "download_file" THEN "stage" ELSE "ok")

FileRun(t) ==
    /\ pc[t] = "run" /\ call[t].tool \in FileTools
    /\ Works(Script(t), remote[host[t]])
    /\ call[t].tool = "download_file" => remote[host[t]] # None
    /\ remote' = [remote EXCEPT ![host[t]] = Worked(Script(t), @)]
    /\ data' = [data EXCEPT ![t] = IF call[t].tool = "download_file" THEN remote[host[t]] ELSE @]
    /\ Onward(t)
    /\ UNCHANGED <<staged, late>>

\* Faulty variant: an upload goes on after a chunk that was refused.
FileRefusedOnward(t) ==
    /\ pc[t] = "run" /\ call[t].tool \in FileTools
    /\ \/ call[t].tool = "upload_file" /\ next[t] > 1 /\ Onward(t)
       \/ next' = next /\ Answered(t, IF call[t].tool = "list_directory" THEN "raised" ELSE "error")
    /\ UNCHANGED <<remote, staged, data, late>>

\* list_directory raises, outside of run_ps.  WriteAllBytes may have emptied the file.
FileRefused(t) ==
    /\ pc[t] = "run" /\ call[t].tool \in FileTools
    /\ Answered(t, IF call[t].tool = "list_directory" THEN "raised" ELSE "error")
    /\ \/ remote' = remote
       \/ /\ call[t].tool = "upload_file" /\ next[t] = 1
          /\ remote' = [remote EXCEPT ![host[t]] = <<>>]
    /\ UNCHANGED <<staged, data, next, late>>

\* Write throws in the middle of the script that appends a chunk, and Close, its last
\* statement, succeeds: the command does, without the chunk.
ChunkDropped(t) ==
    /\ pc[t] = "run" /\ call[t].tool = "upload_file" /\ next[t] > 1
    /\ remote' = [remote EXCEPT ![host[t]] = IF @ = None THEN <<>> ELSE @]
    /\ Onward(t)
    /\ UNCHANGED <<staged, data, late>>

\* The answer is lost: the command has been run, or not, or will be.
FileRaises(t) ==
    /\ pc[t] = "run" /\ call[t].tool \in FileTools
    /\ \/ remote' = remote /\ late' = late
       \/ /\ Works(Script(t), remote[host[t]])
          /\ remote' = [remote EXCEPT ![host[t]] = Worked(Script(t), @)]
          /\ late' = late
       \/ /\ Cardinality(late) < MaxLate /\ Script(t).does # "read"
          /\ late' = late \cup {<<host[t], Script(t)>>}
          /\ remote' = remote
    /\ Raises(t)
    /\ UNCHANGED <<staged, data, next>>

LateRun == \E c \in late :
    /\ late' = late \ {c}
    /\ \/ remote' = remote
       \/ /\ Works(c[2], remote[c[1]])
          /\ remote' = [remote EXCEPT ![c[1]] = Worked(c[2], @)]
    /\ UNCHANGED <<svars, staged, data, next>>

\* A download opens the staged file, which empties it, and then writes; a path outside the
\* staging directory answers an error, a full disk raises.
Stage(t) ==
    /\ pc[t] = "stage"
    /\ \/ Goto(t, "error") /\ UNCHANGED staged
       \/ Goto(t, "raised") /\ UNCHANGED staged
       \/ Goto(t, "write") /\ staged' = [staged EXCEPT ![call[t].path] = <<>>]
    /\ UNCHANGED <<pool, work, remote, data, next, late>>

Write(t) ==
    /\ pc[t] = "write"
    /\ \/ Goto(t, "raised") /\ UNCHANGED staged
       \/ Goto(t, "ok") /\ staged' = [staged EXCEPT ![call[t].path] = data[t]]
    /\ UNCHANGED <<pool, work, remote, data, next, late>>

FileReturn(t) ==
    /\ Return(t)
    /\ data' = [data EXCEPT ![t] = <<>>]
    /\ next' = [next EXCEPT ![t] = 1]
    /\ UNCHANGED <<remote, staged, late>>

FileStep(t) ==
    \/ Step(t) /\ UNCHANGED files
    \/ FileSubmit(t) \/ Open(t) \/ FileRun(t) \/ FileRefused(t) \/ FileRaises(t)
    \/ Stage(t) \/ Write(t) \/ FileReturn(t)

Next == LateRun \/ \E t \in Threads : FileStep(t) \/ ChunkDropped(t)
Spec == Init /\ [][Next]_vars
=============================================================================
