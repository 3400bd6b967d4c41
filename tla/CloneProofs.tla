----------------------------- MODULE CloneProofs -----------------------------
(***************************************************************************)
(* Proofs about ClonePipeline and CloneHistory for any number of workers,  *)
(* hosts, directories and names, any batches, and any number of            *)
(* conversions that have lost their client: types and locks, that VMs have *)
(* complete disks, that only scp spoils a clone, that an undisturbed call  *)
(* finds its inputs, and that the answers are true.                        *)
(***************************************************************************)
EXTENDS CloneHistory, SequenceTheorems, TLAPS

USE CloneAssumption

-----------------------------------------------------------------------------
(* Where a call goes on *)

\* A worker has moved, and no other.
Moves(t) ==
    /\ pc' \in [Threads -> Labels]
    /\ job' \in [Threads -> Jobs]
    /\ \A u \in Threads \ {t} : pc'[u] = pc[u] /\ job'[u] = job[u]

\* It works on the same call.
SameCall(t) ==
    /\ job'[t].tool = job[t].tool
    /\ job'[t].dir = job[t].dir
    /\ job'[t].skip = job[t].skip
    /\ job'[t].keep = job[t].keep

\* What a job is made of.
LEMMA JobFields ==
    ASSUME TypeOK, NEW t \in Threads
    PROVE  /\ job[t] \in Jobs
           /\ job[t].tool \in Tools /\ job[t].host \in Hosts /\ job[t].dir \in Dirs
           /\ job[t].name \in Names
           /\ job[t].skip \in BOOLEAN /\ job[t].keep \in BOOLEAN
           /\ job[t].names \in Seq(Names) /\ job[t].hosts \in Seq(Hosts)
           /\ Here(t) \in Places /\ Destination(t) \in Places
           /\ MyDisk(t) \in Disks /\ MyVm(t) \in VMs
<1>1. job[t] \in Jobs
  BY DEF TypeOK
<1>2. /\ job[t].tool \in Tools /\ job[t].host \in Hosts /\ job[t].dir \in Dirs
      /\ job[t].name \in Names
      /\ job[t].skip \in BOOLEAN /\ job[t].keep \in BOOLEAN
      /\ job[t].names \in Seq(Names) /\ job[t].hosts \in Seq(Hosts)
  BY <1>1 DEF Jobs
<1>3. Here(t) \in Places /\ Destination(t) \in Places
  BY <1>2 DEF Here, Destination, Places
<1> QED BY <1>1, <1>2, <1>3 DEF MyDisk, MyVm, Disks, VMs

\* A worker that stays in its job and goes to a label.
LEMMA GotoMoves ==
    ASSUME TypeOK, NEW t \in Threads, NEW label \in Labels, Goto(t, label), Stays
    PROVE  Moves(t) /\ SameCall(t) /\ pc'[t] = label /\ job'[t] = job[t]
BY DEF TypeOK, Goto, Stays, Moves, SameCall

LEMMA NextVmMoves ==
    ASSUME TypeOK, NEW t \in Threads, NextVm(t)
    PROVE  /\ Moves(t) /\ SameCall(t) /\ job'[t].host = job[t].host
           /\ pc'[t] \in {"cleanup", "convert"}
<1>j. /\ job[t] \in Jobs /\ job[t].names \in Seq(Names)
  BY JobFields
<1>1. CASE job[t].names = <<>>
  BY <1>1, GotoMoves DEF NextVm, Labels
<1>2. CASE job[t].names # <<>>
  <2>1. Head(job[t].names) \in Names /\ Tail(job[t].names) \in Seq(Names)
    BY <1>j, <1>2, HeadTailProperties
  <2>2. /\ pc' = [pc EXCEPT ![t] = "convert"]
        /\ job' = [job EXCEPT ![t].name = Head(job[t].names), ![t].names = Tail(@)]
    BY <1>2 DEF NextVm, Goto
  <2>3. job'[t] = [job[t] EXCEPT !.name = Head(job[t].names), !.names = Tail(@)]
    BY <2>2 DEF TypeOK
  <2>4. job'[t] \in Jobs
    BY <1>j, <2>1, <2>3 DEF Jobs
  <2>5. \A u \in Threads \ {t} : pc'[u] = pc[u] /\ job'[u] = job[u]
    BY <2>2 DEF TypeOK
  <2>6. /\ SameCall(t) /\ job'[t].host = job[t].host
    BY <1>j, <2>3 DEF SameCall, Jobs
  <2>7. pc'[t] = "convert" /\ pc' \in [Threads -> Labels]
    BY <2>2 DEF TypeOK, Labels
  <2>8. job' \in [Threads -> Jobs]
    BY <2>2, <2>4, <2>5 DEF TypeOK
  <2> QED BY <2>5, <2>6, <2>7, <2>8 DEF Moves
<1> QED BY <1>1, <1>2

LEMMA NextHostMoves ==
    ASSUME TypeOK, NEW t \in Threads, NextHost(t)
    PROVE  Moves(t) /\ SameCall(t) /\ pc'[t] \in {"ok", "rsync"}
<1>j. /\ job[t] \in Jobs /\ job[t].hosts \in Seq(Hosts)
  BY JobFields
<1>1. CASE job[t].hosts = <<>>
  BY <1>1, GotoMoves DEF NextHost, Labels
<1>2. CASE job[t].hosts # <<>>
  <2>1. Head(job[t].hosts) \in Hosts /\ Tail(job[t].hosts) \in Seq(Hosts)
    BY <1>j, <1>2, HeadTailProperties
  <2>2. /\ pc' = [pc EXCEPT ![t] = "rsync"]
        /\ job' = [job EXCEPT ![t].host = Head(job[t].hosts), ![t].hosts = Tail(@),
                               ![t].names = BatchNames]
    BY <1>2 DEF NextHost, Goto
  <2>3. job'[t] = [job[t] EXCEPT !.host = Head(job[t].hosts), !.hosts = Tail(@),
                                 !.names = BatchNames]
    BY <2>2 DEF TypeOK
  <2>4. job'[t] \in Jobs
    BY <1>j, <2>1, <2>3 DEF Jobs
  <2>5. \A u \in Threads \ {t} : pc'[u] = pc[u] /\ job'[u] = job[u]
    BY <2>2 DEF TypeOK
  <2>6. SameCall(t)
    BY <1>j, <2>3 DEF SameCall, Jobs
  <2>7. pc'[t] = "rsync" /\ pc' \in [Threads -> Labels]
    BY <2>2 DEF TypeOK, Labels
  <2>8. job' \in [Threads -> Jobs]
    BY <2>2, <2>4, <2>5 DEF TypeOK
  <2> QED BY <2>5, <2>6, <2>7, <2>8 DEF Moves
<1> QED BY <1>1, <1>2

\* A call that a step has raised in: clone_to_all_hosts goes on with the next VM of
\* the host or with the next host.
LEMMA AbortMoves ==
    ASSUME TypeOK, NEW t \in Threads, Abort(t)
    PROVE  /\ Moves(t) /\ SameCall(t)
           /\ \/ pc'[t] = "raised" /\ job[t].tool # "all"
              \/ /\ pc'[t] \in {"ok", "rsync"} /\ job[t].tool = "all"
                 /\ pc[t] \in {"rsync", "scp"}
              \/ /\ pc'[t] \in {"cleanup", "convert"} /\ job[t].tool = "all"
                 /\ pc[t] \notin {"rsync", "scp"}
                 /\ job'[t].host = job[t].host
<1>1. CASE job[t].tool # "all"
  BY <1>1, GotoMoves DEF Abort, Labels
<1>2. CASE job[t].tool = "all" /\ pc[t] \in {"rsync", "scp"}
  BY <1>2, NextHostMoves DEF Abort
<1>3. CASE job[t].tool = "all" /\ pc[t] \notin {"rsync", "scp"}
  BY <1>3, NextVmMoves DEF Abort
<1> QED BY <1>1, <1>2, <1>3

LEMMA TransferredMoves ==
    ASSUME TypeOK, NEW t \in Threads, Transferred(t)
    PROVE  /\ Moves(t) /\ SameCall(t) /\ job'[t].host = job[t].host
           /\ \/ pc'[t] = "ok" /\ job[t].tool = "image" /\ job'[t] = job[t]
              \/ pc'[t] \in {"cleanup", "convert"} /\ job[t].tool = "all"
              \/ pc'[t] = "convert" /\ job[t].tool \notin {"image", "all"}
<1>1. CASE job[t].tool = "image"
  BY <1>1, GotoMoves DEF Transferred, Labels
<1>2. CASE job[t].tool = "all"
  BY <1>2, NextVmMoves DEF Transferred
<1>3. CASE job[t].tool \notin {"image", "all"}
  BY <1>3, GotoMoves DEF Transferred, Labels
<1> QED BY <1>1, <1>2, <1>3

LEMMA CreatedMoves ==
    ASSUME TypeOK, NEW t \in Threads, Created(t)
    PROVE  /\ Moves(t) /\ SameCall(t) /\ job'[t].host = job[t].host
           /\ \/ pc'[t] = "save" /\ job[t].tool = "template" /\ job'[t] = job[t]
              \/ pc'[t] \in {"cleanup", "convert"} /\ job[t].tool = "all"
              \/ pc'[t] = "ok" /\ job[t].tool \notin {"template", "all"} /\ job'[t] = job[t]
<1>1. CASE job[t].tool = "template"
  BY <1>1, GotoMoves DEF Created, Labels
<1>2. CASE job[t].tool = "all"
  BY <1>2, NextVmMoves DEF Created
<1>3. CASE job[t].tool \notin {"template", "all"}
  BY <1>3, GotoMoves DEF Created, Labels
<1> QED BY <1>1, <1>2, <1>3

-----------------------------------------------------------------------------
(* Calls that begin and end *)

LEMMA NoJobType == NoJob \in Jobs
<1>1. (CHOOSE h \in Hosts : TRUE) \in Hosts /\ (CHOOSE n \in Names : TRUE) \in Names
  OBVIOUS
<1>2. <<>> \in Seq(Names) /\ <<>> \in Seq(Hosts)
  BY EmptySeq
<1> QED BY <1>1, <1>2 DEF NoJob, Jobs, Tools

LEMMA BeginMoves ==
    ASSUME TypeOK, NEW t \in Threads, NEW label \in Labels, NEW j \in Jobs, Begin(t, label, j)
    PROVE  /\ Moves(t) /\ pc[t] = "idle" /\ pc'[t] = label /\ job'[t] = j
           /\ UNCHANGED <<files, creds>>
BY DEF TypeOK, Begin, Goto, Moves

\* Where each tool begins.
LEMMA SubmitMoves ==
    ASSUME TypeOK, NEW t \in Threads, Submit(t)
    PROVE  /\ Moves(t) /\ pc[t] = "idle" /\ UNCHANGED <<files, creds>>
           /\ \/ pc'[t] = "virtclone" /\ job'[t].tool = "local"
              \/ pc'[t] = "rsync" /\ job'[t].tool # "local"
              \/ pc'[t] = "convert" /\ job'[t].tool = "remote" /\ job'[t].skip
           /\ job'[t].tool = "all" => job'[t].keep
<1>n. /\ NoJob \in Jobs
      /\ \A d \in Dirs, h \in Hosts : [NoJob EXCEPT !.host = h, !.dir = d] \in Jobs
  BY NoJobType DEF Jobs
<1>l. {"virtclone", "rsync", "convert"} \subseteq Labels
  BY DEF Labels
<1>1. CASE CloneVmLocal(t)
  <2>1. PICK h \in Hosts, d \in Dirs, n \in CallNames :
           Begin(t, "virtclone", [NoJob EXCEPT !.tool = "local", !.host = h, !.dir = d, !.name = n])
    BY <1>1 DEF CloneVmLocal
  <2> DEFINE j == [NoJob EXCEPT !.tool = "local", !.host = h, !.dir = d, !.name = n]
  <2>2. j \in Jobs /\ j.tool = "local"
    BY <1>n DEF Jobs, Tools
  <2> QED BY <1>l, <2>1, <2>2, BeginMoves
<1>2. CASE CloneImageToHost(t)
  <2>1. PICK h \in Hosts, d \in Dirs : Begin(t, "rsync", [NoJob EXCEPT !.host = h, !.dir = d])
    BY <1>2 DEF CloneImageToHost
  <2> DEFINE j == [NoJob EXCEPT !.host = h, !.dir = d]
  <2>2. j \in Jobs /\ j.tool = "image"
    BY <1>n DEF Jobs, Tools, NoJob
  <2> QED BY <1>l, <2>1, <2>2, BeginMoves
<1>3. CASE CloneVmRemote(t)
  <2>1. PICK h \in Hosts, d \in Dirs, n \in CallNames, skip, keep \in BOOLEAN :
           Begin(t, IF skip THEN "convert" ELSE "rsync",
                 [NoJob EXCEPT !.tool = "remote", !.host = h, !.dir = d, !.name = n,
                               !.skip = skip, !.keep = keep])
    BY <1>3 DEF CloneVmRemote
  <2> DEFINE j == [NoJob EXCEPT !.tool = "remote", !.host = h, !.dir = d, !.name = n,
                               !.skip = skip, !.keep = keep]
  <2>2. j \in Jobs /\ j.tool = "remote" /\ j.skip = skip
    BY <1>n DEF Jobs, Tools
  <2>3. CASE skip
    <3>1. Begin(t, "convert", j)
      BY <2>1, <2>3
    <3>2. /\ Moves(t) /\ pc[t] = "idle" /\ pc'[t] = "convert" /\ job'[t] = j
          /\ UNCHANGED <<files, creds>>
      BY <1>l, <2>2, <3>1, BeginMoves
    <3> HIDE DEF j
    <3> QED BY <2>2, <2>3, <3>2
  <2>4. CASE ~skip
    <3>1. Begin(t, "rsync", j)
      BY <2>1, <2>4
    <3>2. /\ Moves(t) /\ pc[t] = "idle" /\ pc'[t] = "rsync" /\ job'[t] = j
          /\ UNCHANGED <<files, creds>>
      BY <1>l, <2>2, <3>1, BeginMoves
    <3> HIDE DEF j
    <3> QED BY <2>2, <2>4, <3>2
  <2> QED BY <2>3, <2>4
<1>4. CASE CloneVmRemoteByTemplate(t)
  <2>1. PICK h \in Hosts, d \in Dirs, n \in CallNames :
           Begin(t, "rsync", [NoJob EXCEPT !.tool = "template", !.host = h, !.dir = d, !.name = n])
    BY <1>4 DEF CloneVmRemoteByTemplate
  <2> DEFINE j == [NoJob EXCEPT !.tool = "template", !.host = h, !.dir = d, !.name = n]
  <2>2. j \in Jobs /\ j.tool = "template"
    BY <1>n DEF Jobs, Tools
  <2> QED BY <1>l, <2>1, <2>2, BeginMoves
<1>5. CASE CloneToAllHosts(t)
  <2>1. PICK hs \in Batches, d \in Dirs :
           Begin(t, "rsync", [NoJob EXCEPT !.tool = "all", !.host = Head(hs), !.dir = d,
                                           !.keep = TRUE, !.hosts = Tail(hs),
                                           !.names = BatchNames])
    BY <1>5 DEF CloneToAllHosts
  <2> DEFINE j == [NoJob EXCEPT !.tool = "all", !.host = Head(hs), !.dir = d,
                                !.keep = TRUE, !.hosts = Tail(hs), !.names = BatchNames]
  <2>2. Head(hs) \in Hosts /\ Tail(hs) \in Seq(Hosts)
    BY HeadTailProperties
  <2>3. j \in Jobs /\ j.tool = "all" /\ j.keep
    BY <1>n, <2>2 DEF Jobs, Tools
  <2> QED BY <1>l, <2>1, <2>3, BeginMoves
<1> QED BY <1>1, <1>2, <1>3, <1>4, <1>5 DEF Submit

LEMMA ReturnMoves ==
    ASSUME TypeOK, NEW t \in Threads, Return(t)
    PROVE  /\ Moves(t) /\ pc[t] \in {"ok", "raised"} /\ pc'[t] = "idle" /\ job'[t] = NoJob
           /\ UNCHANGED <<files, creds>>
BY NoJobType DEF TypeOK, Return, Goto, Moves, Labels

-----------------------------------------------------------------------------
(* Conversions *)

\* The conversions go on: each has its disk and its owner as before, and those whose
\* disk is at p may read something else.
GoOn(p, r) ==
    converts' = {IF c.disk.at = p /\ c.reads = "file" THEN [c EXCEPT !.reads = r] ELSE c :
                 c \in converts}

\* What they are then.
Follow(r) ==
    /\ \A e \in converts' : \E c \in converts :
          e.by = c.by /\ e.disk = c.disk /\ (e.reads = c.reads \/ e.reads = r)
    /\ \A c \in converts : \E e \in converts' : e.by = c.by /\ e.disk = c.disk

\* The fields of a conversion, and what a disk is made of.
LEMMA ConversionFields ==
    ASSUME TypeOK, NEW c \in converts
    PROVE  /\ c \in Conversions /\ c.by \in Threads \cup {None} /\ c.disk \in Disks
           /\ c.reads \in {"file", "copy", "torn"}
           /\ c.disk.at \in Places /\ c.disk.name \in Names
           /\ <<c.disk.at[1], c.disk.name>> \in VMs
           /\ c.disk.at[2] \in Dirs
<1>1. c \in Conversions
  BY DEF TypeOK
<1>2. c.by \in Threads \cup {None} /\ c.disk \in Disks /\ c.reads \in {"file", "copy", "torn"}
  BY <1>1 DEF Conversions
<1>3. c.disk.at \in Places /\ c.disk.name \in Names
  BY <1>2 DEF Disks
<1>4. c.disk.at[1] \in Hosts /\ c.disk.at[2] \in Dirs
  BY <1>3 DEF Places
<1> QED BY <1>1, <1>2, <1>3, <1>4 DEF VMs

\* A disk is known by its host, its directory and its name.
LEMMA SameDisk ==
    ASSUME NEW c \in Disks, NEW d \in Disks,
           c.at[1] = d.at[1], c.at[2] = d.at[2], c.name = d.name
    PROVE  c = d
<1>1. c.at \in Places /\ d.at \in Places
  BY DEF Disks
<1>2. c.at = d.at
  BY <1>1 DEF Places
<1> QED BY <1>2 DEF Disks

LEMMA GoOnFollows ==
    ASSUME TypeOK, OneConversion, NEW p, NEW r \in {"copy", "torn"}, GoOn(p, r)
    PROVE  /\ converts' \in SUBSET Conversions
           /\ OneConversion'
           /\ Follow(r)
<1> DEFINE F(c) == IF c.disk.at = p /\ c.reads = "file" THEN [c EXCEPT !.reads = r] ELSE c
<1>1. converts' = {F(c) : c \in converts}
  BY DEF GoOn
<1>2. ASSUME NEW c \in converts
      PROVE  /\ F(c) \in Conversions /\ F(c).by = c.by /\ F(c).disk = c.disk
             /\ F(c).reads = c.reads \/ F(c).reads = r
  <2>1. c \in Conversions
    BY DEF TypeOK
  <2> QED BY <2>1 DEF Conversions
<1>3. \A e \in converts' : \E c \in converts : e = F(c)
  BY <1>1
<1>4. \A c \in converts : F(c) \in converts'
  BY <1>1
<1> HIDE DEF F
<1>5. converts' \in SUBSET Conversions
  BY <1>2, <1>3
<1>6. OneConversion'
  <2> SUFFICES ASSUME NEW a \in converts', NEW b \in converts', a.disk = b.disk
               PROVE  a = b
    BY DEF OneConversion
  <2>1. PICK c \in converts : a = F(c)
    BY <1>3
  <2>2. PICK d \in converts : b = F(d)
    BY <1>3
  <2>3. c = d
    BY <1>2, <2>1, <2>2 DEF OneConversion
  <2> QED BY <2>1, <2>2, <2>3
<1>7. Follow(r)
  BY <1>2, <1>3, <1>4 DEF Follow
<1> QED BY <1>5, <1>6, <1>7

\* The conversion a worker waits for is the only one of its own.
LEMMA MineIs ==
    ASSUME PipelineInv, NEW t \in Threads, pc[t] = "converting"
    PROVE  /\ Mine(t) \in converts /\ Mine(t).by = t /\ Mine(t).disk = MyDisk(t)
           /\ \A c \in converts : c.by = t => c = Mine(t)
<1>1. PICK c \in converts : c.by = t
  BY DEF PipelineInv, WaitsAt
<1>2. Mine(t) \in converts /\ Mine(t).by = t
  BY <1>1 DEF Mine
<1>3. \A e \in converts : e.by = t => e.disk = MyDisk(t)
  BY DEF PipelineInv, ConversionOK
<1> QED BY <1>2, <1>3 DEF PipelineInv, OneConversion

-----------------------------------------------------------------------------
(* What a step keeps of the pipeline *)

\* A worker that does not move stays where it was.
LEMMA Aside ==
    ASSUME NEW t \in Threads, Moves(t), NEW u \in Threads, u # t
    PROVE  /\ pc'[u] = pc[u] /\ job'[u] = job[u]
           /\ Here(u)' = Here(u) /\ Destination(u)' = Destination(u)
           /\ MyDisk(u)' = MyDisk(u) /\ MyVm(u)' = MyVm(u)
<1>1. pc'[u] = pc[u] /\ job'[u] = job[u]
  BY DEF Moves
<1> QED BY <1>1 DEF Here, Destination, MyDisk, MyVm

\* Conversions that are there already, while the worker that moves waits for none.
LEMMA ConversionsKeep ==
    ASSUME PipelineInv, NEW t \in Threads, Moves(t), NEW r, Follow(r),
           pc[t] # "converting", pc'[t] # "converting",
           \A c \in converts :
              /\ disk'[c.disk] = "part"
              /\ vm'[<<c.disk.at[1], c.disk.name>>] = c.disk.at[2]
                    => <<c.disk.at[1], c.disk.name>> \notin running'
    PROVE  /\ \A e \in converts' : ConversionOK(e)'
           /\ \A u \in Threads : WaitsAt(u)'
<1>1. \A e \in converts' : ConversionOK(e)'
  <2> SUFFICES ASSUME NEW e \in converts' PROVE ConversionOK(e)'
    OBVIOUS
  <2>1. PICK c \in converts : e.by = c.by /\ e.disk = c.disk
    BY DEF Follow
  <2>2. c.by \in Threads \cup {None}
    BY ConversionFields DEF PipelineInv
  <2>3. ConversionOK(c)
    BY DEF PipelineInv
  <2>4. CASE c.by = None
    BY <2>1, <2>4 DEF ConversionOK
  <2>5. CASE c.by # None
    <3>1. c.by \in Threads /\ pc[c.by] = "converting" /\ c.disk = MyDisk(c.by)
      BY <2>2, <2>3, <2>5 DEF ConversionOK
    <3>2. c.by # t
      BY <3>1
    <3>3. pc'[c.by] = "converting" /\ c.disk = MyDisk(c.by)'
      BY <3>1, <3>2, Aside
    <3> QED BY <2>1, <3>3 DEF ConversionOK
  <2> QED BY <2>4, <2>5
<1>2. ASSUME NEW u \in Threads PROVE WaitsAt(u)'
  <2>1. CASE u = t
    BY <2>1 DEF WaitsAt
  <2>2. CASE u # t
    <3> SUFFICES ASSUME pc'[u] = "converting" PROVE \E e \in converts' : e.by = u
      BY DEF WaitsAt
    <3>1. pc[u] = "converting"
      BY <2>2, Aside
    <3>2. PICK c \in converts : c.by = u
      BY <3>1 DEF PipelineInv, WaitsAt
    <3> QED BY <3>2 DEF Follow
  <2> QED BY <2>1, <2>2
<1> QED BY <1>1, <1>2

\* Writers that are there already, when the worker that moves is none of them.
LEMMA WritersKeep ==
    ASSUME PipelineInv, NEW t \in Threads, Moves(t),
           \A p \in Places : \A u \in writers'[p] :
              u # t /\ u \in writers[p] /\ image'[p] = image[p]
    PROVE  \A p \in Places : \A u \in writers'[p] : WriterOK(u, p)'
<1> SUFFICES ASSUME NEW p \in Places, NEW u \in writers'[p] PROVE WriterOK(u, p)'
  OBVIOUS
<1>1. u # t /\ u \in writers[p] /\ image'[p] = image[p]
  OBVIOUS
<1>2. u \in Threads
  BY <1>1 DEF PipelineInv, TypeOK
<1>3. WriterOK(u, p)
  BY <1>1 DEF PipelineInv
<1>4. pc'[u] = pc[u] /\ Destination(u)' = Destination(u)
  BY <1>1, <1>2, Aside
<1> QED BY <1>1, <1>3, <1>4 DEF WriterOK

\* The writers of a worker that is at no scp are others.
LEMMA NoWriter ==
    ASSUME PipelineInv, NEW t \in Threads, pc[t] # "scp"
    PROVE  \A p \in Places : t \notin writers[p]
BY DEF PipelineInv, WriterOK

\* Conversions that stay follow themselves.
LEMMA SameFollow ==
    ASSUME UNCHANGED converts, NEW r
    PROVE  Follow(r)
BY DEF Follow

\* A step that leaves the hosts alone.
LEMMA FilesKeep ==
    ASSUME PipelineInv, NEW t \in Threads, Moves(t), UNCHANGED files,
           creds' \in Names \cup {None},
           pc[t] \notin {"scp", "converting"}, pc'[t] # "converting"
    PROVE  PipelineInv'
<1> USE DEF files
<1>1. TypeOK'
  BY DEF PipelineInv, TypeOK, Moves
<1>2. OneConversion'
  BY DEF PipelineInv, OneConversion
<1>3. \A c \in converts :
              /\ disk'[c.disk] = "part"
              /\ vm'[<<c.disk.at[1], c.disk.name>>] = c.disk.at[2]
                    => <<c.disk.at[1], c.disk.name>> \notin running'
  BY DEF PipelineInv, ConversionOK
<1>4. (\A e \in converts' : ConversionOK(e)') /\ \A u \in Threads : WaitsAt(u)'
  <2>1. Follow("copy")
    BY SameFollow
  <2> QED BY <1>3, <2>1, ConversionsKeep
<1>5. \A p \in Places : \A u \in writers'[p] : WriterOK(u, p)'
  BY NoWriter, WritersKeep
<1> QED BY <1>1, <1>2, <1>4, <1>5 DEF PipelineInv

\* A step that changes images, and no disk or VM.
LEMMA ImagesKeep ==
    ASSUME PipelineInv, NEW t \in Threads, Moves(t), UNCHANGED <<disk, vm, running, creds>>,
           image' \in [Places -> ImageStates], writers' \in [Places -> SUBSET Threads],
           UNCHANGED converts \/ \E p : GoOn(p, "copy") \/ GoOn(p, "torn"),
           pc[t] # "converting", pc'[t] # "converting"
    PROVE  /\ TypeOK' /\ OneConversion'
           /\ \A e \in converts' : ConversionOK(e)'
           /\ \A u \in Threads : WaitsAt(u)'
<1>1. /\ converts' \in SUBSET Conversions /\ OneConversion'
      /\ \E r : Follow(r)
  <2>1. CASE UNCHANGED converts
    <3>1. converts' \in SUBSET Conversions /\ OneConversion'
      BY <2>1 DEF PipelineInv, TypeOK, OneConversion
    <3> QED BY <2>1, <3>1, SameFollow
  <2>2. CASE \E p : GoOn(p, "copy") \/ GoOn(p, "torn")
    BY <2>2, GoOnFollows DEF PipelineInv
  <2> QED BY <2>1, <2>2
<1>2. TypeOK'
  BY <1>1 DEF PipelineInv, TypeOK, Moves
<1>3. \A c \in converts :
              /\ disk'[c.disk] = "part"
              /\ vm'[<<c.disk.at[1], c.disk.name>>] = c.disk.at[2]
                    => <<c.disk.at[1], c.disk.name>> \notin running'
  BY DEF PipelineInv, ConversionOK
<1>4. PICK r : Follow(r)
  BY <1>1
<1>5. (\A e \in converts' : ConversionOK(e)') /\ \A u \in Threads : WaitsAt(u)'
  BY <1>3, <1>4, ConversionsKeep
<1> QED BY <1>1, <1>2, <1>5

-----------------------------------------------------------------------------
(* The pipeline's invariant: steps that transfer or remove an image *)

LEMMA RenewedFiles ==
    ASSUME TypeOK, NEW p \in Places, NEW state \in ImageStates, Renewed(p, state)
    PROVE  /\ image' \in [Places -> ImageStates] /\ writers' \in [Places -> SUBSET Threads]
           /\ GoOn(p, "copy")
           /\ image'[p] = state /\ writers'[p] = {}
           /\ \A q \in Places \ {p} : image'[q] = image[q] /\ writers'[q] = writers[q]
BY DEF TypeOK, Renewed, GoOn

\* A step that puts a file in place of the image, or does not touch it, and goes on.
LEMMA RenewKeeps ==
    ASSUME PipelineInv, NEW t \in Threads, Moves(t), UNCHANGED <<disk, vm, running, creds>>,
           NEW p \in Places, NEW state \in ImageStates,
           Renewed(p, state) \/ UNCHANGED <<image, writers, converts>>,
           pc[t] \notin {"scp", "converting"}, pc'[t] # "converting"
    PROVE  PipelineInv'
<1>t. TypeOK
  BY DEF PipelineInv
<1>1. CASE UNCHANGED <<image, writers, converts>>
  <2>1. UNCHANGED files /\ creds' \in Names \cup {None}
    BY <1>1, <1>t DEF files, TypeOK
  <2> QED BY <2>1, FilesKeep
<1>2. CASE Renewed(p, state)
  <2>1. /\ image' \in [Places -> ImageStates] /\ writers' \in [Places -> SUBSET Threads]
        /\ GoOn(p, "copy")
        /\ writers'[p] = {}
        /\ \A q \in Places \ {p} : image'[q] = image[q] /\ writers'[q] = writers[q]
    BY <1>2, <1>t, RenewedFiles
  <2>2. /\ TypeOK' /\ OneConversion'
        /\ \A e \in converts' : ConversionOK(e)'
        /\ \A u \in Threads : WaitsAt(u)'
    BY <2>1, ImagesKeep
  <2>3. \A q \in Places : \A u \in writers'[q] :
           u # t /\ u \in writers[q] /\ image'[q] = image[q]
    BY <2>1, NoWriter
  <2>4. \A q \in Places : \A u \in writers'[q] : WriterOK(u, q)'
    BY <2>3, WritersKeep
  <2> QED BY <2>2, <2>4 DEF PipelineInv
<1> QED BY <1>1, <1>2

LEMMA RsyncPipeline ==
    ASSUME PipelineInv, NEW t \in Threads, Rsync(t)
    PROVE  PipelineInv'
<1>1. TypeOK
  BY DEF PipelineInv
<1>2. Moves(t) /\ pc'[t] # "converting"
  BY <1>1, TransferredMoves DEF Rsync
<1>3. Destination(t) \in Places /\ "whole" \in ImageStates
  BY <1>1, JobFields DEF ImageStates
<1> QED BY <1>2, <1>3, RenewKeeps DEF Rsync

LEMMA RemovePipeline ==
    ASSUME PipelineInv, NEW t \in Threads, Remove(t)
    PROVE  PipelineInv'
<1>1. TypeOK
  BY DEF PipelineInv
<1>2. Moves(t) /\ pc'[t] # "converting"
  <2>1. CASE Goto(t, "install") /\ Stays
    BY <2>1, <1>1, GotoMoves DEF Labels
  <2>2. CASE Abort(t)
    BY <2>2, <1>1, AbortMoves
  <2> QED BY <2>1, <2>2 DEF Remove
<1>3. Here(t) \in Places /\ "none" \in ImageStates
  BY <1>1, JobFields DEF ImageStates
<1> QED BY <1>2, <1>3, RenewKeeps DEF Remove

LEMMA CleanupPipeline ==
    ASSUME PipelineInv, NEW t \in Threads, Cleanup(t)
    PROVE  PipelineInv'
<1>1. TypeOK
  BY DEF PipelineInv
<1>2. Moves(t) /\ pc'[t] # "converting"
  BY <1>1, NextHostMoves DEF Cleanup
<1>3. Here(t) \in Places /\ "none" \in ImageStates
  BY <1>1, JobFields DEF ImageStates
<1> QED BY <1>2, <1>3, RenewKeeps DEF Cleanup

LEMMA ScpPipeline ==
    ASSUME PipelineInv, NEW t \in Threads, Scp(t)
    PROVE  PipelineInv'
<1>1. TypeOK
  BY DEF PipelineInv
<1>2. Moves(t) /\ pc'[t] = "scp" /\ job'[t] = job[t]
  BY <1>1, GotoMoves DEF Scp, Stays, Labels
<1> DEFINE p == Destination(t)
<1>3. p \in Places
  BY <1>1, JobFields
<1>4. Destination(t)' = p
  <2>1. Destination(t)' = Destination(t)
    BY <1>2 DEF Destination, Here
  <2> QED BY <2>1
<1>5. /\ image' \in [Places -> ImageStates] /\ writers' \in [Places -> SUBSET Threads]
      /\ image'[p] = "part" /\ writers'[p] = writers[p] \cup {t}
      /\ \A q \in Places \ {p} : image'[q] = image[q] /\ writers'[q] = writers[q]
  BY <1>1, <1>3 DEF Scp, TypeOK, ImageStates
<1>6. GoOn(p, "torn")
  BY DEF Scp, GoOn
<1>7. /\ TypeOK' /\ OneConversion'
      /\ \A e \in converts' : ConversionOK(e)'
      /\ \A u \in Threads : WaitsAt(u)'
  BY <1>2, <1>5, <1>6, ImagesKeep DEF Scp
<1>8. ASSUME NEW q \in Places, NEW u \in writers'[q] PROVE WriterOK(u, q)'
  <2>1. CASE u = t
    <3>1. q = p
      BY <2>1, <1>5, NoWriter DEF Scp
    <3> QED BY <2>1, <3>1, <1>2, <1>4, <1>5 DEF WriterOK
  <2>2. CASE u # t
    <3>1. u \in writers[q] /\ u \in Threads
      BY <2>2, <1>1, <1>5 DEF TypeOK
    <3>2. WriterOK(u, q)
      BY <3>1 DEF PipelineInv
    <3>3. pc'[u] = pc[u] /\ Destination(u)' = Destination(u)
      BY <2>2, <3>1, <1>2, Aside
    <3>4. image'[q] = "part"
      BY <3>2, <1>5 DEF WriterOK
    <3> QED BY <3>2, <3>3, <3>4 DEF WriterOK
  <2> QED BY <2>1, <2>2
<1> QED BY <1>7, <1>8 DEF PipelineInv

\* What is left when a worker writes no more.
LEMMA WriterGone ==
    ASSUME PipelineInv, NEW t \in Threads,
           writers' = [writers EXCEPT ![Destination(t)] = @ \ {t}]
    PROVE  /\ writers' \in [Places -> SUBSET Threads]
           /\ \A q \in Places : \A u \in writers'[q] : u # t /\ u \in writers[q]
<1>1. TypeOK /\ Destination(t) \in Places
  BY JobFields DEF PipelineInv
<1>2. \A q \in Places : t \in writers[q] => q = Destination(t)
  BY DEF PipelineInv, WriterOK
<1> QED BY <1>1, <1>2 DEF TypeOK

LEMMA ScpEndsPipeline ==
    ASSUME PipelineInv, NEW t \in Threads, ScpEnds(t)
    PROVE  PipelineInv'
<1>1. TypeOK
  BY DEF PipelineInv
<1>2. Moves(t) /\ pc'[t] # "converting"
  BY <1>1, TransferredMoves DEF ScpEnds
<1> DEFINE p == Destination(t)
<1>3. p \in Places
  BY <1>1, JobFields
<1>4. /\ writers' \in [Places -> SUBSET Threads]
      /\ \A q \in Places : \A u \in writers'[q] : u # t /\ u \in writers[q]
  BY WriterGone DEF ScpEnds
<1>5. /\ image' = [image EXCEPT ![p] = IF writers[p] = {t} THEN "whole" ELSE @]
      /\ writers' = [writers EXCEPT ![p] = @ \ {t}]
  BY DEF ScpEnds
<1>6. image' \in [Places -> ImageStates]
  BY <1>1, <1>3, <1>5 DEF TypeOK, ImageStates
<1>7. \A q \in Places : \A u \in writers'[q] : image'[q] = image[q]
  BY <1>1, <1>3, <1>4, <1>5 DEF TypeOK
<1>8. /\ TypeOK' /\ OneConversion'
      /\ \A e \in converts' : ConversionOK(e)'
      /\ \A u \in Threads : WaitsAt(u)'
  BY <1>2, <1>4, <1>6, ImagesKeep DEF ScpEnds
<1>9. \A q \in Places : \A u \in writers'[q] : WriterOK(u, q)'
  BY <1>2, <1>4, <1>7, WritersKeep
<1> QED BY <1>8, <1>9 DEF PipelineInv

LEMMA TransferFailsPipeline ==
    ASSUME PipelineInv, NEW t \in Threads, TransferFails(t)
    PROVE  PipelineInv'
<1>1. TypeOK
  BY DEF PipelineInv
<1>2. Moves(t) /\ pc'[t] # "converting"
  BY <1>1, AbortMoves DEF TransferFails
<1>3. /\ writers' \in [Places -> SUBSET Threads]
      /\ \A q \in Places : \A u \in writers'[q] : u # t /\ u \in writers[q]
  BY WriterGone DEF TransferFails
<1>4. UNCHANGED <<image, converts, disk, vm, running, creds>>
  BY DEF TransferFails
<1>5. pc[t] # "converting" /\ image' \in [Places -> ImageStates]
  BY <1>1, <1>4 DEF TransferFails, TypeOK
<1>6. /\ TypeOK' /\ OneConversion'
      /\ \A e \in converts' : ConversionOK(e)'
      /\ \A u \in Threads : WaitsAt(u)'
  BY <1>2, <1>3, <1>4, <1>5, ImagesKeep
<1>7. \A q \in Places : \A u \in writers'[q] : WriterOK(u, q)'
  BY <1>2, <1>3, <1>4, WritersKeep
<1> QED BY <1>6, <1>7 DEF PipelineInv

-----------------------------------------------------------------------------
(* The pipeline's invariant: steps that convert *)

\* Steps that change neither an image nor its writers.
LEMMA WritersStay ==
    ASSUME PipelineInv, NEW t \in Threads, Moves(t), UNCHANGED <<image, writers>>, pc[t] # "scp"
    PROVE  \A p \in Places : \A u \in writers'[p] : WriterOK(u, p)'
BY NoWriter, WritersKeep

LEMMA ConvertPipeline ==
    ASSUME PipelineInv, NEW t \in Threads, Convert(t)
    PROVE  PipelineInv'
<1>1. TypeOK
  BY DEF PipelineInv
<1>2. Moves(t) /\ pc'[t] = "converting" /\ job'[t] = job[t]
  BY <1>1, GotoMoves DEF Convert, Stays, Labels
<1>3. /\ MyDisk(t) \in Disks
      /\ MyDisk(t)' = MyDisk(t)
  BY <1>1, <1>2, JobFields DEF MyDisk, Here
<1> DEFINE n == [by |-> t, disk |-> MyDisk(t),
                 reads |-> IF image[Here(t)] = "whole" THEN "file" ELSE "torn"]
<1>4. n \in Conversions /\ n.by = t /\ n.disk = MyDisk(t)
  BY <1>3 DEF Conversions
<1>5. converts' = converts \cup {n}
  BY DEF Convert
<1>6. /\ disk' = [disk EXCEPT ![MyDisk(t)] = "part"]
      /\ UNCHANGED <<image, writers, vm, running, creds, job>>
      /\ pc[t] = "convert"
      /\ ~Locked(MyDisk(t))
  BY DEF Convert
<1> HIDE DEF n
<1>7. /\ disk' \in [Disks -> DiskStates] /\ disk'[MyDisk(t)] = "part"
      /\ \A d \in Disks : d # MyDisk(t) => disk'[d] = disk[d]
  BY <1>1, <1>3, <1>6 DEF TypeOK, DiskStates
<1>8. converts' \in SUBSET Conversions
  BY <1>1, <1>4, <1>5 DEF TypeOK
<1>9. TypeOK'
  BY <1>1, <1>2, <1>6, <1>7, <1>8 DEF TypeOK, Moves
<1>10. \A c \in converts : c.disk # MyDisk(t)
  BY <1>6 DEF Locked
<1>11. OneConversion'
  BY <1>4, <1>5, <1>10 DEF PipelineInv, OneConversion
<1>12. ASSUME NEW e \in converts' PROVE ConversionOK(e)'
  <2>1. CASE e = n
    <3> DEFINE v == <<e.disk.at[1], e.disk.name>>
    <3>1. disk'[e.disk] = "part" /\ (e.by # None => pc'[e.by] = "converting" /\ e.disk = MyDisk(e.by)')
      BY <2>1, <1>2, <1>3, <1>4, <1>7
    <3>2. vm[v] = e.disk.at[2] => v \notin running
      BY <2>1, <1>4, <1>6 DEF Locked
    <3> QED BY <3>1, <3>2, <1>6 DEF ConversionOK
  <2>2. CASE e # n
    <3>1. e \in converts
      BY <2>2, <1>5
    <3>2. ConversionOK(e)
      BY <3>1 DEF PipelineInv
    <3>3. e.disk \in Disks /\ e.by \in Threads \cup {None}
      BY <3>1, <1>1, ConversionFields
    <3>4. disk'[e.disk] = "part"
      BY <3>1, <3>2, <3>3, <1>7, <1>10 DEF ConversionOK
    <3>5. ASSUME e.by # None PROVE pc'[e.by] = "converting" /\ e.disk = MyDisk(e.by)'
      <4>1. e.by \in Threads /\ pc[e.by] = "converting" /\ e.disk = MyDisk(e.by)
        BY <3>2, <3>3, <3>5 DEF ConversionOK
      <4>2. e.by # t
        BY <4>1, <1>6
      <4> QED BY <4>1, <4>2, <1>2, Aside
    <3> QED BY <3>2, <3>4, <3>5, <1>6 DEF ConversionOK
  <2> QED BY <2>1, <2>2
<1>13. ASSUME NEW u \in Threads PROVE WaitsAt(u)'
  <2>1. CASE u = t
    BY <2>1, <1>4, <1>5 DEF WaitsAt
  <2>2. CASE u # t
    <3>1. pc'[u] = pc[u]
      BY <2>2, <1>2, Aside
    <3> QED BY <3>1, <1>5 DEF PipelineInv, WaitsAt
  <2> QED BY <2>1, <2>2
<1>14. \A p \in Places : \A u \in writers'[p] : WriterOK(u, p)'
  BY <1>2, <1>6, WritersStay
<1> QED BY <1>9, <1>11, <1>12, <1>13, <1>14 DEF PipelineInv

\* The worker's conversion is over, or has lost its client.
LEMMA EndPipeline ==
    ASSUME PipelineInv, NEW t \in Threads, pc[t] = "converting", Moves(t),
           pc'[t] # "converting", UNCHANGED <<image, writers, vm, running, creds>>,
           disk' \in {disk, Done(Mine(t))},
           \/ converts' = converts \ {Mine(t)}
           \/ disk' = disk /\ converts' = (converts \ {Mine(t)}) \cup {[Mine(t) EXCEPT !.by = None]}
    PROVE  PipelineInv'
<1>1. TypeOK
  BY DEF PipelineInv
<1> DEFINE m == Mine(t)
           o == [m EXCEPT !.by = None]
<1>2. /\ m \in converts /\ m.by = t
      /\ \A c \in converts : c.by = t => c = m
  BY MineIs
<1>3. m \in Conversions /\ m.disk \in Disks
  BY <1>1, <1>2, ConversionFields
<1>4. o \in Conversions /\ o.by = None /\ o.disk = m.disk
  BY <1>3 DEF Conversions
<1>5. \/ converts' = converts \ {m}
      \/ disk' = disk /\ converts' = (converts \ {m}) \cup {o}
  OBVIOUS
<1>6. disk' \in {disk, [disk EXCEPT ![m.disk] = IF m.reads = "torn" THEN "bad" ELSE "whole"]}
  BY DEF Done
<1> HIDE DEF m, o
<1>7. /\ disk' \in [Disks -> DiskStates]
      /\ \A d \in Disks : d # m.disk => disk'[d] = disk[d]
  BY <1>1, <1>3, <1>6 DEF TypeOK, DiskStates
<1>8. converts' \in SUBSET Conversions
  BY <1>1, <1>4, <1>5 DEF TypeOK
<1>9. TypeOK'
  BY <1>1, <1>7, <1>8 DEF TypeOK, Moves
<1>10. \A c \in converts : c # m => c.disk # m.disk
  BY <1>2 DEF PipelineInv, OneConversion
<1>11. OneConversion'
  BY <1>4, <1>5, <1>10 DEF PipelineInv, OneConversion
<1>12. ASSUME NEW e \in converts' PROVE ConversionOK(e)'
  <2>1. CASE e \in converts \ {m}
    <3>1. e \in converts /\ e # m
      BY <2>1
    <3>2. ConversionOK(e)
      BY <3>1 DEF PipelineInv
    <3>3. e.disk \in Disks /\ e.by \in Threads \cup {None}
      BY <3>1, <1>1, ConversionFields
    <3>4. disk'[e.disk] = "part"
      BY <3>1, <3>2, <3>3, <1>7, <1>10 DEF ConversionOK
    <3>5. ASSUME e.by # None PROVE pc'[e.by] = "converting" /\ e.disk = MyDisk(e.by)'
      <4>1. e.by \in Threads /\ pc[e.by] = "converting" /\ e.disk = MyDisk(e.by)
        BY <3>2, <3>3, <3>5 DEF ConversionOK
      <4>2. e.by # t
        BY <3>1, <1>2
      <4> QED BY <4>1, <4>2, Aside
    <3> QED BY <3>2, <3>4, <3>5 DEF ConversionOK
  <2>2. CASE e = o /\ disk' = disk
    <3>1. ConversionOK(m)
      BY <1>2 DEF PipelineInv
    <3> QED BY <2>2, <3>1, <1>4 DEF ConversionOK
  <2> QED BY <2>1, <2>2, <1>5
<1>13. ASSUME NEW u \in Threads PROVE WaitsAt(u)'
  <2>1. CASE u = t
    BY <2>1 DEF WaitsAt
  <2>2. CASE u # t
    <3> SUFFICES ASSUME pc'[u] = "converting" PROVE \E e \in converts' : e.by = u
      BY DEF WaitsAt
    <3>1. pc[u] = "converting"
      BY <2>2, Aside
    <3>2. PICK c \in converts : c.by = u
      BY <3>1 DEF PipelineInv, WaitsAt
    <3> QED BY <2>2, <3>2, <1>2, <1>5
  <2> QED BY <2>1, <2>2
<1>14. \A p \in Places : \A u \in writers'[p] : WriterOK(u, p)'
  BY WritersStay
<1> QED BY <1>9, <1>11, <1>12, <1>13, <1>14 DEF PipelineInv

LEMMA ConvertEndsPipeline ==
    ASSUME PipelineInv, NEW t \in Threads, ConvertEnds(t)
    PROVE  PipelineInv'
<1>1. Moves(t) /\ pc'[t] = "remove"
  BY GotoMoves DEF PipelineInv, ConvertEnds, Stays, Labels
<1> QED BY <1>1, EndPipeline DEF ConvertEnds

LEMMA ConvertFailsPipeline ==
    ASSUME PipelineInv, NEW t \in Threads, ConvertFails(t)
    PROVE  PipelineInv'
<1>1. Moves(t) /\ pc'[t] # "converting"
  BY AbortMoves DEF PipelineInv, ConvertFails
<1> QED BY <1>1, EndPipeline DEF ConvertFails

LEMMA ConvertLostPipeline ==
    ASSUME PipelineInv, NEW t \in Threads, ConvertLost(t)
    PROVE  PipelineInv'
<1>1. Moves(t) /\ pc'[t] # "converting"
  BY AbortMoves DEF PipelineInv, ConvertLost
<1> QED BY <1>1, EndPipeline DEF ConvertLost

LEMMA OrphanPipeline ==
    ASSUME PipelineInv, OrphanEnds
    PROVE  PipelineInv'
<1>1. TypeOK
  BY DEF PipelineInv
<1>2. PICK m \in converts :
         /\ m.by = None
         /\ converts' = converts \ {m}
         /\ disk' \in {disk, Done(m)}
         /\ UNCHANGED <<image, writers, vm, running, creds, pc, job>>
  BY DEF OrphanEnds
<1>3. m.disk \in Disks
  BY <1>1, ConversionFields
<1>4. /\ disk' \in [Disks -> DiskStates]
      /\ \A d \in Disks : d # m.disk => disk'[d] = disk[d]
  BY <1>1, <1>2, <1>3 DEF TypeOK, Done, DiskStates
<1>5. TypeOK'
  BY <1>1, <1>2, <1>4 DEF TypeOK
<1>6. OneConversion'
  BY <1>2 DEF PipelineInv, OneConversion
<1>7. ASSUME NEW e \in converts' PROVE ConversionOK(e)'
  <2>1. e \in converts /\ e # m
    BY <1>2
  <2>2. ConversionOK(e) /\ e.disk # m.disk
    BY <2>1 DEF PipelineInv, OneConversion
  <2>3. e.disk \in Disks
    BY <2>1, <1>1, ConversionFields
  <2>4. disk'[e.disk] = disk[e.disk]
    BY <2>2, <2>3, <1>4
  <2> QED BY <2>2, <2>4, <1>2 DEF ConversionOK, MyDisk, Here
<1>8. ASSUME NEW u \in Threads PROVE WaitsAt(u)'
  <2> SUFFICES ASSUME pc'[u] = "converting" PROVE \E e \in converts' : e.by = u
    BY DEF WaitsAt
  <2>1. PICK c \in converts : c.by = u
    BY <1>2 DEF PipelineInv, WaitsAt
  <2>2. c # m
    BY <2>1, <1>2
  <2> QED BY <2>1, <2>2, <1>2
<1>9. ASSUME NEW p \in Places, NEW u \in writers'[p] PROVE WriterOK(u, p)'
  BY <1>2 DEF PipelineInv, WriterOK, Destination, Here
<1> QED BY <1>5, <1>6, <1>7, <1>8, <1>9 DEF PipelineInv

-----------------------------------------------------------------------------
(* The pipeline's invariant: steps that define VMs or run them *)

LEMMA PowerPipeline ==
    ASSUME PipelineInv, Power
    PROVE  PipelineInv'
<1>1. TypeOK
  BY DEF PipelineInv
<1>2. PICK v \in VMs :
         /\ vm[v] # None
         /\ \/ running' = running \ {v}
            \/ /\ ~Locked([at |-> <<v[1], vm[v]>>, name |-> v[2]])
               /\ running' = running \cup {v}
         /\ UNCHANGED <<image, writers, converts, disk, vm, creds, pc, job>>
  BY DEF Power
<1>3. TypeOK'
  BY <1>1, <1>2 DEF TypeOK
<1>4. OneConversion'
  BY <1>2 DEF PipelineInv, OneConversion
<1>5. ASSUME NEW c \in converts' PROVE ConversionOK(c)'
  <2>1. c \in converts
    BY <1>2
  <2>2. ConversionOK(c)
    BY <2>1 DEF PipelineInv
  <2> DEFINE w == <<c.disk.at[1], c.disk.name>>
  <2>3. ASSUME vm[w] = c.disk.at[2], w \in running' PROVE FALSE
    <3>1. w \notin running
      BY <2>2, <2>3 DEF ConversionOK
    <3>2. w = v /\ ~Locked([at |-> <<v[1], vm[v]>>, name |-> v[2]])
      BY <3>1, <2>3, <1>2
    <3>3. v[1] = c.disk.at[1] /\ v[2] = c.disk.name /\ vm[v] = c.disk.at[2]
      BY <3>2, <2>3
    <3>4. c.disk \in Disks /\ v[1] \in Hosts /\ v[2] \in Names /\ vm[v] \in Dirs
      BY <2>1, <3>3, <1>1, ConversionFields DEF VMs
    <3> DEFINE d == [at |-> <<v[1], vm[v]>>, name |-> v[2]]
    <3>5. d \in Disks /\ d.at[1] = v[1] /\ d.at[2] = vm[v] /\ d.name = v[2]
      BY <3>4 DEF Disks, Places
    <3>6. c.disk = d
      BY <3>3, <3>4, <3>5, SameDisk
    <3> QED BY <3>2, <3>6, <2>1 DEF Locked
  <2> QED BY <2>2, <2>3, <1>2 DEF ConversionOK, MyDisk, Here
<1>6. ASSUME NEW u \in Threads PROVE WaitsAt(u)'
  BY <1>2 DEF PipelineInv, WaitsAt
<1>7. ASSUME NEW p \in Places, NEW u \in writers'[p] PROVE WriterOK(u, p)'
  BY <1>2 DEF PipelineInv, WriterOK, Destination, Here
<1> QED BY <1>3, <1>4, <1>5, <1>6, <1>7 DEF PipelineInv

\* A conversion has nothing to do with a VM that is defined on another disk.
LEMMA DefineKeeps ==
    ASSUME PipelineInv, NEW t \in Threads, ~Locked(MyDisk(t)),
           \/ UNCHANGED vm
           \/ vm' = [vm EXCEPT ![MyVm(t)] = job[t].dir],
           NEW c \in converts, vm'[<<c.disk.at[1], c.disk.name>>] = c.disk.at[2]
    PROVE  <<c.disk.at[1], c.disk.name>> \notin running
           /\ (vm' # vm => <<c.disk.at[1], c.disk.name>> # MyVm(t))
<1>1. TypeOK
  BY DEF PipelineInv
<1> DEFINE w == <<c.disk.at[1], c.disk.name>>
<1>2. c.disk \in Disks /\ w \in VMs
  BY <1>1, ConversionFields
<1>3. /\ MyDisk(t) \in Disks /\ MyVm(t) \in VMs /\ vm \in [VMs -> Dirs \cup {None}]
      /\ job[t].host \in Hosts /\ job[t].dir \in Dirs /\ job[t].name \in Names
  BY <1>1, JobFields DEF TypeOK
<1>4. c.disk # MyDisk(t)
  BY DEF Locked
<1>5. vm[w] = c.disk.at[2] => w \notin running
  BY DEF PipelineInv, ConversionOK
<1>6. CASE UNCHANGED vm
  BY <1>5, <1>6
<1>7. CASE vm' = [vm EXCEPT ![MyVm(t)] = job[t].dir]
  <2>1. w # MyVm(t)
    <3> SUFFICES ASSUME w = MyVm(t) PROVE FALSE
      OBVIOUS
    <3>1. c.disk.at[1] = job[t].host /\ c.disk.name = job[t].name /\ c.disk.at[2] = job[t].dir
      BY <1>2, <1>3, <1>7 DEF MyVm
    <3>2. /\ MyDisk(t).at[1] = job[t].host /\ MyDisk(t).at[2] = job[t].dir
          /\ MyDisk(t).name = job[t].name
      BY DEF MyDisk, Here
    <3> QED BY <3>1, <3>2, <1>2, <1>3, <1>4, SameDisk
  <2>2. vm[w] = c.disk.at[2]
    BY <2>1, <1>2, <1>3, <1>7
  <2> QED BY <2>1, <2>2, <1>5
<1> QED BY <1>6, <1>7

LEMMA InstallPipeline ==
    ASSUME PipelineInv, NEW t \in Threads, Install(t)
    PROVE  PipelineInv'
<1>1. TypeOK
  BY DEF PipelineInv
<1>2. Moves(t) /\ pc'[t] # "converting"
  <2>1. CASE Created(t)
    BY <2>1, <1>1, CreatedMoves
  <2>2. CASE Abort(t)
    BY <2>2, <1>1, AbortMoves
  <2> QED BY <2>1, <2>2 DEF Install
<1>3. /\ pc[t] = "install" /\ vm[MyVm(t)] = None /\ ~Locked(MyDisk(t))
      /\ vm' = [vm EXCEPT ![MyVm(t)] = job[t].dir]
      /\ running' = running \cup {MyVm(t)}
      /\ UNCHANGED <<image, writers, converts, disk, creds>>
  BY DEF Install
<1>4. /\ MyVm(t) \in VMs /\ job[t].dir \in Dirs /\ None \notin Dirs
      /\ vm \in [VMs -> Dirs \cup {None}]
  BY <1>1, JobFields DEF TypeOK
<1>5. vm' \in [VMs -> Dirs \cup {None}] /\ running' \subseteq VMs /\ vm' # vm
  BY <1>1, <1>3, <1>4 DEF TypeOK
<1>6. TypeOK'
  BY <1>1, <1>2, <1>3, <1>5 DEF TypeOK, Moves
<1>7. OneConversion'
  BY <1>3 DEF PipelineInv, OneConversion
<1>8. ASSUME NEW c \in converts
      PROVE  /\ disk'[c.disk] = "part"
             /\ vm'[<<c.disk.at[1], c.disk.name>>] = c.disk.at[2]
                    => <<c.disk.at[1], c.disk.name>> \notin running'
  <2>1. disk'[c.disk] = "part"
    BY <1>3 DEF PipelineInv, ConversionOK
  <2>2. ASSUME vm'[<<c.disk.at[1], c.disk.name>>] = c.disk.at[2]
        PROVE  <<c.disk.at[1], c.disk.name>> \notin running'
    <3>1. /\ <<c.disk.at[1], c.disk.name>> \notin running
          /\ <<c.disk.at[1], c.disk.name>> # MyVm(t)
      BY <1>3, <1>5, <2>2, DefineKeeps
    <3> QED BY <3>1, <1>3
  <2> QED BY <2>1, <2>2
<1>9. (\A e \in converts' : ConversionOK(e)') /\ \A u \in Threads : WaitsAt(u)'
  <2>1. Follow("copy")
    BY <1>3, SameFollow
  <2> QED BY <1>2, <1>3, <1>8, <2>1, ConversionsKeep
<1>10. \A p \in Places : \A u \in writers'[p] : WriterOK(u, p)'
  BY <1>2, <1>3, WritersStay
<1> QED BY <1>6, <1>7, <1>9, <1>10 DEF PipelineInv

\* A virt-clone that leaves a disk that is not complete, or one that is and its VM.
LEMMA VirtClonePipeline ==
    ASSUME PipelineInv, NEW t \in Threads, VirtClone(t)
    PROVE  PipelineInv'
<1>1. TypeOK
  BY DEF PipelineInv
<1>2. Moves(t) /\ pc'[t] # "converting" /\ pc[t] = "virtclone"
  BY <1>1, GotoMoves DEF VirtClone, Stays, Labels
<1>3. /\ MyVm(t) \in VMs /\ MyDisk(t) \in Disks /\ job[t].dir \in Dirs
      /\ UNCHANGED <<image, writers, converts, running, creds, job>>
  BY <1>1, JobFields DEF VirtClone
<1>4. CASE UNCHANGED <<disk, vm>>
  <2>1. UNCHANGED files /\ creds' \in Names \cup {None}
    BY <1>1, <1>3, <1>4 DEF files, TypeOK
  <2> QED BY <2>1, <1>2, FilesKeep
<1>5. CASE ~UNCHANGED <<disk, vm>>
  <2>1. /\ ~Locked(MyDisk(t))
        /\ \/ disk' = [disk EXCEPT ![MyDisk(t)] = "whole"]
           \/ disk' = [disk EXCEPT ![MyDisk(t)] = "part"]
        /\ \/ vm' = [vm EXCEPT ![MyVm(t)] = job[t].dir]
           \/ UNCHANGED vm
    BY <1>5 DEF VirtClone
  <2>2. /\ disk' \in [Disks -> DiskStates] /\ vm' \in [VMs -> Dirs \cup {None}]
        /\ \A d \in Disks : d # MyDisk(t) => disk'[d] = disk[d]
    BY <2>1, <1>1, <1>3 DEF TypeOK, DiskStates
  <2>3. TypeOK'
    BY <1>1, <1>2, <1>3, <2>2 DEF TypeOK, Moves
  <2>4. OneConversion'
    BY <1>3 DEF PipelineInv, OneConversion
  <2>5. ASSUME NEW c \in converts
        PROVE  /\ disk'[c.disk] = "part"
               /\ vm'[<<c.disk.at[1], c.disk.name>>] = c.disk.at[2]
                      => <<c.disk.at[1], c.disk.name>> \notin running'
    <3>1. disk[c.disk] = "part" /\ c.disk \in Disks /\ c.disk # MyDisk(t)
      BY <2>1, <1>1, ConversionFields DEF PipelineInv, ConversionOK, Locked
    <3>2. ASSUME vm'[<<c.disk.at[1], c.disk.name>>] = c.disk.at[2]
          PROVE  <<c.disk.at[1], c.disk.name>> \notin running
      BY <2>1, <3>2, DefineKeeps
    <3> QED BY <3>1, <3>2, <2>2, <1>3
  <2>6. (\A e \in converts' : ConversionOK(e)') /\ \A u \in Threads : WaitsAt(u)'
    <3>1. Follow("copy")
      BY <1>3, SameFollow
    <3> QED BY <1>2, <2>5, <3>1, ConversionsKeep
  <2>7. \A p \in Places : \A u \in writers'[p] : WriterOK(u, p)'
    BY <1>2, <1>3, WritersStay
  <2> QED BY <2>3, <2>4, <2>6, <2>7 DEF PipelineInv
<1> QED BY <1>4, <1>5

-----------------------------------------------------------------------------
(* The pipeline's invariant *)

LEMMA PipelineStep ==
    ASSUME PipelineInv, [Next]_vars
    PROVE  PipelineInv'
<1>t. TypeOK
  BY DEF PipelineInv
<1>1. CASE OrphanEnds
  BY <1>1, OrphanPipeline
<1>2. CASE Power
  BY <1>2, PowerPipeline
<1>3. ASSUME NEW t \in Threads, Step(t) PROVE PipelineInv'
  <2>1. CASE Submit(t)
    <3>1. /\ Moves(t) /\ pc[t] = "idle" /\ UNCHANGED <<files, creds>> /\ pc'[t] # "converting"
      BY <2>1, <1>t, SubmitMoves
    <3> QED BY <3>1, <1>t, FilesKeep DEF TypeOK
  <2>2. CASE ConvertRefused(t)
    <3>1. Moves(t) /\ pc'[t] # "converting"
      BY <2>2, <1>t, AbortMoves DEF ConvertRefused
    <3> QED BY <2>2, <3>1, <1>t, FilesKeep DEF TypeOK, ConvertRefused
  <2>3. CASE InstallFails(t)
    <3>1. Moves(t) /\ pc'[t] # "converting"
      BY <2>3, <1>t, AbortMoves DEF InstallFails
    <3> QED BY <2>3, <3>1, <1>t, FilesKeep DEF TypeOK, InstallFails
  <2>4. CASE Save(t)
    <3>1. Moves(t) /\ pc'[t] # "converting" /\ creds' \in Names \cup {None}
      BY <2>4, <1>t, GotoMoves, JobFields DEF Save, Stays, Labels, TypeOK
    <3> QED BY <2>4, <3>1, FilesKeep DEF Save
  <2>5. CASE Return(t)
    <3>1. /\ Moves(t) /\ pc[t] \in {"ok", "raised"} /\ UNCHANGED <<files, creds>>
          /\ pc'[t] # "converting"
      BY <2>5, <1>t, ReturnMoves
    <3> QED BY <3>1, <1>t, FilesKeep DEF TypeOK
  <2> QED BY <1>3, <2>1, <2>2, <2>3, <2>4, <2>5, RsyncPipeline, ScpPipeline, ScpEndsPipeline,
              TransferFailsPipeline, ConvertPipeline, ConvertEndsPipeline, ConvertFailsPipeline,
              ConvertLostPipeline, RemovePipeline, InstallPipeline, CleanupPipeline,
              VirtClonePipeline DEF Step
<1>4. CASE UNCHANGED vars
  <2>1. /\ UNCHANGED <<image, writers, converts, disk, vm, running, creds, pc, job>>
    BY <1>4 DEF vars, files
  <2> QED BY <2>1 DEF PipelineInv, TypeOK, OneConversion, ConversionOK, WaitsAt, WriterOK,
                      MyDisk, Here, Destination
<1> QED BY <1>1, <1>2, <1>3, <1>4 DEF Next

LEMMA PipelineInit ==
    ASSUME Init
    PROVE  PipelineInv
<1>1. TypeOK
  BY NoJobType DEF Init, TypeOK, ImageStates, DiskStates, Labels
<1>2. \A t \in Threads : WaitsAt(t)
  BY DEF Init, WaitsAt
<1>3. \A p \in Places : writers[p] = {}
  BY DEF Init
<1>4. converts = {}
  BY DEF Init
<1> QED BY <1>1, <1>2, <1>3, <1>4 DEF PipelineInv, OneConversion

\* A disk has one conversion at a time, which is that of the worker that waits for it or of
\* nobody, and never that of a VM that runs; only an scp that runs writes into an image.
THEOREM PipelineSafe == Spec => []PipelineInv
<1>1. Init => PipelineInv
  BY PipelineInit
<1>2. PipelineInv /\ [Next]_vars => PipelineInv'
  BY PipelineStep
<1> QED BY <1>1, <1>2, PTL DEF Spec

-----------------------------------------------------------------------------
(* What a step does, for the claims *)

\* A step moves one worker.
LEMMA StepMoves ==
    ASSUME TypeOK, NEW t \in Threads, Step(t)
    PROVE  Moves(t)
<1>1. CASE Submit(t)
  BY <1>1, SubmitMoves
<1>2. CASE Rsync(t) \/ ScpEnds(t)
  BY <1>2, TransferredMoves DEF Rsync, ScpEnds
<1>3. CASE Scp(t)
  BY <1>3, GotoMoves DEF Scp, Stays, Labels
<1>4. CASE TransferFails(t) \/ ConvertRefused(t) \/ ConvertFails(t) \/ ConvertLost(t)
           \/ InstallFails(t)
  BY <1>4, AbortMoves
     DEF TransferFails, ConvertRefused, ConvertFails, ConvertLost, InstallFails
<1>5. CASE Convert(t)
  BY <1>5, GotoMoves DEF Convert, Stays, Labels
<1>6. CASE ConvertEnds(t)
  BY <1>6, GotoMoves DEF ConvertEnds, Stays, Labels
<1>7. CASE Remove(t)
  <2>1. (Goto(t, "install") /\ Stays) \/ Abort(t)
    BY <1>7 DEF Remove
  <2> QED BY <2>1, AbortMoves, GotoMoves DEF Labels
<1>8. CASE Install(t)
  <2>1. Created(t) \/ Abort(t)
    BY <1>8 DEF Install
  <2> QED BY <2>1, AbortMoves, CreatedMoves
<1>9. CASE Save(t)
  BY <1>9, GotoMoves DEF Save, Stays, Labels
<1>10. CASE Cleanup(t)
  BY <1>10, NextHostMoves DEF Cleanup
<1>11. CASE VirtClone(t)
  BY <1>11, GotoMoves DEF VirtClone, Stays, Labels
<1>12. CASE Return(t)
  BY <1>12, ReturnMoves
<1> QED BY <1>1, <1>2, <1>3, <1>4, <1>5, <1>6, <1>7, <1>8, <1>9, <1>10, <1>11, <1>12 DEF Step

\* What has happened to the VMs: none has gone, and one that is new is that of the worker
\* that defined it.
LEMMA VmsStay ==
    ASSUME TypeOK, NEW t \in Threads, Step(t), NEW v \in VMs
    PROVE  /\ vm[v] # None => vm'[v] = vm[v]
           /\ vm[v] = None /\ vm'[v] # None =>
                 /\ v = MyVm(t) /\ vm'[v] = job[t].dir
                 /\ \/ pc[t] = "install" /\ disk' = disk
                    \/ pc[t] = "virtclone" /\ disk'[MyDisk(t)] = "whole"
<1>1. /\ MyVm(t) \in VMs /\ MyDisk(t) \in Disks /\ vm \in [VMs -> Dirs \cup {None}]
      /\ disk \in [Disks -> DiskStates] /\ job[t].dir \in Dirs
  BY JobFields DEF TypeOK
<1>2. CASE Install(t)
  BY <1>1, <1>2 DEF Install
<1>3. CASE VirtClone(t)
  <2>1. CASE UNCHANGED vm
    BY <2>1
  <2>2. CASE /\ vm[MyVm(t)] = None
             /\ disk' = [disk EXCEPT ![MyDisk(t)] = "whole"]
             /\ vm' = [vm EXCEPT ![MyVm(t)] = job[t].dir]
    BY <1>1, <1>3, <2>2 DEF VirtClone
  <2> QED BY <1>3, <2>1, <2>2 DEF VirtClone
<1>4. CASE ~Install(t) /\ ~VirtClone(t)
  <2>1. CASE Submit(t) \/ Return(t)
    BY <2>1, SubmitMoves, ReturnMoves DEF files
  <2> QED BY <1>4, <2>1 DEF Step, Rsync, Scp, ScpEnds, TransferFails, Convert, ConvertRefused,
              ConvertEnds, ConvertFails, ConvertLost, Remove, InstallFails, Save, Cleanup, files
<1> QED BY <1>2, <1>3, <1>4

\* Where a worker comes to.
LEMMA RouteStep ==
    ASSUME TypeOK, NEW t \in Threads, Step(t), RouteAt(t)
    PROVE  RouteAt(t)'
<1>m. Moves(t)
  BY StepMoves
<1>v. /\ MyVm(t) \in VMs
      /\ vm[MyVm(t)] # None => vm'[MyVm(t)] # None
  BY JobFields, VmsStay
<1>s. job'[t] = job[t] => MyVm(t)' = MyVm(t)
  BY DEF MyVm
<1>a. ASSUME Abort(t) PROVE RouteAt(t)'
  <2>1. /\ SameCall(t)
        /\ \/ pc'[t] = "raised"
           \/ pc'[t] \in {"ok", "rsync", "cleanup", "convert"} /\ job[t].tool = "all"
    BY <1>a, AbortMoves
  <2>2. job'[t].tool = job[t].tool /\ job'[t].keep = job[t].keep
    BY <2>1 DEF SameCall
  <2>3. job[t].tool = "all" => job[t].keep
    BY DEF RouteAt
  <2>4. CASE pc'[t] = "raised"
    BY <2>2, <2>3, <2>4 DEF RouteAt
  <2>5. CASE pc'[t] \in {"ok", "rsync", "cleanup", "convert"} /\ job[t].tool = "all"
    BY <2>2, <2>3, <2>5 DEF RouteAt
  <2> QED BY <2>1, <2>4, <2>5
<1>g. ASSUME NEW label \in Labels, Goto(t, label), Stays,
             label \in {"scp", "converting", "remove", "install", "raised"},
             label = "scp" => pc[t] = "rsync",
             label \in {"converting", "remove", "install"}
                => pc[t] \in {"convert", "converting", "remove"}
      PROVE  RouteAt(t)'
  <2>1. pc'[t] = label /\ job'[t] = job[t]
    BY <1>g, GotoMoves
  <2> QED BY <2>1, <1>g DEF RouteAt
<1>f. ASSUME Transferred(t), pc[t] \in {"rsync", "scp"} PROVE RouteAt(t)'
  <2>1. /\ SameCall(t)
        /\ \/ pc'[t] = "ok" /\ job[t].tool = "image"
           \/ pc'[t] \in {"cleanup", "convert"} /\ job[t].tool = "all"
           \/ pc'[t] = "convert" /\ job[t].tool \notin {"image", "all"}
    BY <1>f, TransferredMoves
  <2>2. /\ job'[t].tool = job[t].tool /\ job'[t].keep = job[t].keep
        /\ job[t].tool \in Tools
    BY <2>1, JobFields DEF SameCall
  <2>3. (job[t].tool = "all" => job[t].keep) /\ job[t].tool # "local"
    BY <1>f DEF RouteAt
  <2> QED BY <2>1, <2>2, <2>3 DEF RouteAt, Tools
<1>1. CASE Submit(t)
  BY <1>1, SubmitMoves DEF RouteAt
<1>2. CASE Rsync(t) \/ ScpEnds(t)
  BY <1>2, <1>f DEF Rsync, ScpEnds
<1>3. CASE Scp(t)
  BY <1>3, <1>g DEF Scp, Stays, Labels
<1>4. CASE TransferFails(t) \/ ConvertRefused(t) \/ ConvertFails(t) \/ ConvertLost(t)
           \/ InstallFails(t)
  BY <1>4, <1>a
     DEF TransferFails, ConvertRefused, ConvertFails, ConvertLost, InstallFails
<1>5. CASE Convert(t)
  BY <1>5, <1>g DEF Convert, Stays, Labels
<1>6. CASE ConvertEnds(t)
  BY <1>6, <1>g DEF ConvertEnds, Stays, Labels
<1>7. CASE Remove(t)
  <2>1. pc[t] = "remove" /\ ((Goto(t, "install") /\ Stays) \/ Abort(t))
    BY <1>7 DEF Remove
  <2> QED BY <2>1, <1>a, <1>g DEF Labels
<1>8. CASE Install(t)
  <2>1. Created(t) \/ Abort(t)
    BY <1>8 DEF Install
  <2>2. CASE Created(t)
    <3>1. /\ SameCall(t)
          /\ \/ pc'[t] = "save" /\ job[t].tool = "template" /\ job'[t] = job[t]
             \/ pc'[t] \in {"cleanup", "convert"} /\ job[t].tool = "all"
             \/ pc'[t] = "ok" /\ job[t].tool \notin {"template", "all"} /\ job'[t] = job[t]
      BY <2>2, CreatedMoves
    <3>2. job'[t].tool = job[t].tool /\ job'[t].keep = job[t].keep
      BY <3>1 DEF SameCall
    <3>3. vm'[MyVm(t)] # None
      BY <1>8, <1>v, JobFields DEF Install, TypeOK
    <3>4. job[t].tool = "all" => job[t].keep
      BY DEF RouteAt
    <3> QED BY <3>1, <3>2, <3>3, <3>4, <1>s DEF RouteAt
  <2> QED BY <2>1, <2>2, <1>a
<1>9. CASE Save(t)
  <2>1. pc[t] = "save" /\ pc'[t] = "ok" /\ job'[t] = job[t]
    BY <1>9, GotoMoves DEF Save, Stays, Labels
  <2> QED BY <2>1, <1>s, <1>v DEF RouteAt
<1>10. CASE Cleanup(t)
  <2>1. SameCall(t) /\ pc'[t] \in {"ok", "rsync"} /\ pc[t] = "cleanup"
    BY <1>10, NextHostMoves DEF Cleanup
  <2> QED BY <2>1 DEF RouteAt, SameCall
<1>11. CASE VirtClone(t)
  <2>1. job'[t] = job[t] /\ pc[t] = "virtclone"
    BY <1>11 DEF VirtClone
  <2>2. CASE Goto(t, "raised")
    <3>1. pc'[t] = "raised"
      BY <2>2 DEF Goto, TypeOK
    <3> QED BY <2>1, <3>1 DEF RouteAt
  <2>3. CASE Goto(t, "ok") /\ vm' = [vm EXCEPT ![MyVm(t)] = job[t].dir]
    <3>1. pc'[t] = "ok" /\ vm'[MyVm(t)] # None
      BY <2>3, JobFields DEF Goto, TypeOK
    <3> QED BY <2>1, <3>1, <1>s DEF RouteAt
  <2> QED BY <1>11, <2>2, <2>3 DEF VirtClone
<1>12. CASE Return(t)
  <2>1. pc'[t] = "idle" /\ job'[t].tool = "image"
    <3>1. NoJob.tool = "image"
      BY DEF NoJob
    <3> QED BY <1>12, <3>1, ReturnMoves
  <2> QED BY <2>1 DEF RouteAt
<1> QED BY <1>1, <1>2, <1>3, <1>4, <1>5, <1>6, <1>7, <1>8, <1>9, <1>10, <1>11, <1>12 DEF Step

LEMMA RouteAside ==
    ASSUME TypeOK, NEW t \in Threads, Step(t), NEW u \in Threads, u # t, RouteAt(u)
    PROVE  RouteAt(u)'
<1>1. pc'[u] = pc[u] /\ job'[u] = job[u] /\ MyVm(u)' = MyVm(u)
  BY StepMoves, Aside
<1>2. vm[MyVm(u)] # None => vm'[MyVm(u)] # None
  BY JobFields, VmsStay
<1> QED BY <1>1, <1>2 DEF RouteAt

\* What leads to a worker that has its disk.
LEMMA ReadyFrom ==
    ASSUME TypeOK, NEW t \in Threads, Step(t), pc'[t] \in {"remove", "install"}
    PROVE  /\ job'[t] = job[t]
           /\ \/ ConvertEnds(t) /\ pc'[t] = "remove"
              \/ Remove(t) /\ pc'[t] = "install" /\ pc[t] = "remove"
<1>a. ASSUME Abort(t) PROVE FALSE
  BY <1>a, AbortMoves
<1>f. ASSUME Transferred(t) PROVE FALSE
  BY <1>f, TransferredMoves
<1>g. ASSUME NEW label \in Labels \ {"remove", "install"}, Goto(t, label) PROVE FALSE
  BY <1>g DEF Goto, TypeOK
<1>1. ~Submit(t) /\ ~Return(t)
  BY SubmitMoves, ReturnMoves
<1>2. ~Rsync(t) /\ ~ScpEnds(t)
  BY <1>f DEF Rsync, ScpEnds
<1>3. ~Scp(t)
  BY <1>g DEF Scp, Labels
<1>4. /\ ~TransferFails(t) /\ ~ConvertRefused(t) /\ ~ConvertFails(t) /\ ~ConvertLost(t)
      /\ ~InstallFails(t)
  BY <1>a DEF TransferFails, ConvertRefused, ConvertFails, ConvertLost, InstallFails
<1>5. ~Convert(t)
  BY <1>g DEF Convert, Labels
<1>6. ~Install(t)
  BY <1>a, CreatedMoves DEF Install
<1>7. ~Save(t)
  BY <1>g DEF Save, Labels
<1>8. ~Cleanup(t)
  BY NextHostMoves DEF Cleanup
<1>9. ~VirtClone(t)
  BY <1>g DEF VirtClone, Labels
<1>10. CASE ConvertEnds(t)
  <2>1. pc'[t] = "remove" /\ job'[t] = job[t]
    BY <1>10, GotoMoves DEF ConvertEnds, Stays, Labels
  <2> QED BY <1>10, <2>1
<1>11. CASE Remove(t)
  <2>1. Goto(t, "install") /\ Stays /\ pc[t] = "remove"
    BY <1>11, <1>a DEF Remove
  <2>2. pc'[t] = "install" /\ job'[t] = job[t]
    BY <2>1, GotoMoves DEF Labels
  <2> QED BY <1>11, <2>1, <2>2
<1> QED BY <1>1, <1>2, <1>3, <1>4, <1>5, <1>6, <1>7, <1>8, <1>9, <1>10, <1>11 DEF Step

\* A disk that has been written to its end is so, or has been taken.
LEMMA DiskReadyAside ==
    ASSUME TypeOK, NEW a, taken' = taken \cup Taken(a), NEW u \in Threads \ {a},
           pc'[u] = pc[u], MyDisk(u)' = MyDisk(u), DiskReadyAt(u)
    PROVE  DiskReadyAt(u)'
<1> SUFFICES ASSUME pc[u] \in {"remove", "install"}
             PROVE  disk'[MyDisk(u)] \in {"whole", "bad"} \/ MyDisk(u) \in taken'
  BY DEF DiskReadyAt
<1>1. MyDisk(u) \in Disks
  BY JobFields
<1>2. CASE MyDisk(u) \in taken
  BY <1>2
<1>3. CASE disk[MyDisk(u)] \in {"whole", "bad"} /\ disk'[MyDisk(u)] = disk[MyDisk(u)]
  BY <1>3
<1>4. CASE disk[MyDisk(u)] \in {"whole", "bad"} /\ disk'[MyDisk(u)] # disk[MyDisk(u)]
  <2>1. MyDisk(u) \in Taken(a)
    BY <1>1, <1>4 DEF Taken
  <2> QED BY <2>1
<1> QED BY <1>2, <1>3, <1>4 DEF DiskReadyAt

LEMMA DiskReadyStep ==
    ASSUME PipelineInv, NEW t \in Threads, Step(t), taken' = taken \cup Taken(t), DiskReadyAt(t)
    PROVE  DiskReadyAt(t)'
<1> SUFFICES ASSUME pc'[t] \in {"remove", "install"}
             PROVE  disk'[MyDisk(t)'] \in {"whole", "bad"} \/ MyDisk(t)' \in taken'
  BY DEF DiskReadyAt
<1>1. TypeOK
  BY DEF PipelineInv
<1>2. /\ job'[t] = job[t]
      /\ \/ ConvertEnds(t) /\ pc'[t] = "remove"
         \/ Remove(t) /\ pc'[t] = "install" /\ pc[t] = "remove"
  BY <1>1, ReadyFrom
<1>3. MyDisk(t)' = MyDisk(t) /\ MyDisk(t) \in Disks
  BY <1>1, <1>2, JobFields DEF MyDisk, Here
<1>4. CASE ConvertEnds(t)
  <2>1. Mine(t).disk = MyDisk(t) /\ disk' = Done(Mine(t))
    BY <1>4, MineIs DEF ConvertEnds
  <2>2. disk'[MyDisk(t)] \in {"whole", "bad"}
    BY <1>1, <1>3, <2>1 DEF Done, TypeOK
  <2> QED BY <1>3, <2>2
<1>5. CASE Remove(t) /\ pc[t] = "remove"
  <2>1. disk' = disk
    BY <1>5 DEF Remove
  <2> QED BY <1>3, <1>5, <2>1 DEF DiskReadyAt
<1> QED BY <1>2, <1>4, <1>5

\* A VM that is there keeps its disk, unless that is taken.
LEMMA DiskStays ==
    ASSUME TypeOK, VmHasDisk, NEW a, taken' = taken \cup Taken(a), NEW v \in VMs,
           vm[v] # None, vm'[v] = vm[v], DiskOf(v)' \notin taken'
    PROVE  disk'[DiskOf(v)'] \in {"whole", "bad"}
<1>1. DiskOf(v)' = DiskOf(v)
  BY DEF DiskOf
<1>2. DiskOf(v) \in Disks
  BY DEF TypeOK, DiskOf, Disks, Places, VMs
<1>3. disk[DiskOf(v)] \in {"whole", "bad"}
  BY <1>1 DEF VmHasDisk
<1>4. disk'[DiskOf(v)] = disk[DiskOf(v)]
  <2> SUFFICES ASSUME disk'[DiskOf(v)] # disk[DiskOf(v)] PROVE FALSE
    OBVIOUS
  <2>1. DiskOf(v) \in Taken(a)
    BY <1>2, <1>3 DEF Taken
  <2> QED BY <1>1, <2>1
<1> QED BY <1>1, <1>3, <1>4

LEMMA VmHasDiskStep ==
    ASSUME PipelineInv, VmHasDisk, NEW t \in Threads, Step(t), taken' = taken \cup Taken(t),
           DiskReadyAt(t)
    PROVE  VmHasDisk'
<1>1. TypeOK
  BY DEF PipelineInv
<1> SUFFICES ASSUME NEW v \in VMs, vm'[v] # None, DiskOf(v)' \notin taken'
             PROVE  disk'[DiskOf(v)'] \in {"whole", "bad"}
  BY DEF VmHasDisk
<1>2. CASE vm[v] # None
  <2>1. vm'[v] = vm[v]
    BY <1>1, <1>2, VmsStay
  <2> QED BY <1>1, <1>2, <2>1, DiskStays
<1>3. CASE vm[v] = None
  <2>1. /\ v = MyVm(t) /\ vm'[v] = job[t].dir
        /\ \/ pc[t] = "install" /\ disk' = disk
           \/ pc[t] = "virtclone" /\ disk'[MyDisk(t)] = "whole"
    BY <1>1, <1>3, VmsStay
  <2>2. DiskOf(v)' = MyDisk(t)
    BY <2>1 DEF DiskOf, MyDisk, MyVm, Here
  <2> QED BY <2>1, <2>2 DEF DiskReadyAt
<1> QED BY <1>2, <1>3

-----------------------------------------------------------------------------
(* Where scp has written *)

\* What a step does to images, to what conversions read, and to the disks they leave.
TornStep ==
    /\ \A p \in Places : image'[p] = "part" => image[p] = "part" \/ writers'[p] # {}
    /\ \A e \in converts' : e.reads = "torn" => e.disk.at \in scped \/ writers'[e.disk.at] # {}
    /\ \A d \in Disks : disk'[d] = "bad" => disk[d] = "bad" \/ d.at \in scped

LEMMA TornStepped ==
    ASSUME TypeOK', TornFromScp, BadFromScp, TornStep,
           scped' = scped \cup {p \in Places : writers'[p] # {}}
    PROVE  TornFromScp' /\ BadFromScp'
<1>1. \A p \in Places : image'[p] = "part" => p \in scped'
  BY DEF TornStep, TornFromScp
<1>2. \A e \in converts' : e.reads = "torn" => e.disk.at \in scped'
  <2> SUFFICES ASSUME NEW e \in converts', e.reads = "torn" PROVE e.disk.at \in scped'
    OBVIOUS
  <2>1. e \in Conversions
    BY DEF TypeOK
  <2>2. e.disk.at \in Places
    BY <2>1 DEF Conversions, Disks
  <2> QED BY <2>2 DEF TornStep
<1>3. \A d \in Disks : disk'[d] = "bad" => d.at \in scped'
  BY DEF TornStep, BadFromScp
<1> QED BY <1>1, <1>2, <1>3 DEF TornFromScp, BadFromScp

\* Nothing of the kind happens where images, conversions and disks stay.
LEMMA TornSame ==
    ASSUME TornFromScp, BadFromScp, UNCHANGED <<image, converts, disk>>
    PROVE  TornStep
BY DEF TornStep, TornFromScp, BadFromScp

LEMMA TornRenewed ==
    ASSUME TypeOK, OneConversion, TornFromScp, BadFromScp, UNCHANGED disk,
           NEW p \in Places, NEW state \in {"none", "whole"},
           Renewed(p, state) \/ UNCHANGED <<image, writers, converts>>
    PROVE  TornStep
<1>1. CASE UNCHANGED <<image, writers, converts>>
  BY <1>1, TornSame
<1>2. CASE Renewed(p, state)
  <2>1. /\ image'[p] = state
        /\ \A q \in Places \ {p} : image'[q] = image[q]
        /\ GoOn(p, "copy")
    BY <1>2, RenewedFiles DEF ImageStates
  <2>2. \A e \in converts' : e.reads = "torn" => \E c \in converts : c.reads = "torn" /\ e.disk = c.disk
    BY <2>1, GoOnFollows DEF Follow
  <2> QED BY <2>1, <2>2 DEF TornStep, TornFromScp
<1> QED BY <1>1, <1>2

\* A conversion that ends.
LEMMA TornEnds ==
    ASSUME TypeOK, TornFromScp, NEW m \in converts, UNCHANGED image,
           disk' \in {disk, Done(m)}, \A e \in converts' : \E c \in converts :
                                          e.disk = c.disk /\ e.reads = c.reads
    PROVE  TornStep
<1>1. m.disk \in Disks /\ (m.reads = "torn" => m.disk.at \in scped)
  BY ConversionFields DEF TornFromScp
<1>2. \A d \in Disks : disk'[d] = "bad" => disk[d] = "bad" \/ d.at \in scped
  BY <1>1 DEF Done, TypeOK
<1> QED BY <1>2 DEF TornStep, TornFromScp

LEMMA TornFromStep ==
    ASSUME PipelineInv, TornFromScp, BadFromScp, NEW t \in Threads, Step(t)
    PROVE  TornStep
<1>t. TypeOK /\ OneConversion
  BY DEF PipelineInv
<1>p. Here(t) \in Places /\ Destination(t) \in Places /\ MyDisk(t) \in Disks
  BY <1>t, JobFields
<1>1. CASE Submit(t) \/ Return(t)
  <2>1. UNCHANGED files
    BY <1>1, <1>t, SubmitMoves, ReturnMoves
  <2> QED BY <2>1, TornSame DEF files
<1>2. CASE Rsync(t)
  BY <1>2, <1>t, <1>p, TornRenewed DEF Rsync
<1>3. CASE Scp(t)
  <2>1. /\ image' = [image EXCEPT ![Destination(t)] = "part"]
        /\ writers' = [writers EXCEPT ![Destination(t)] = @ \cup {t}]
        /\ converts' = {IF c.disk.at = Destination(t) /\ c.reads = "file"
                        THEN [c EXCEPT !.reads = "torn"] ELSE c : c \in converts}
        /\ disk' = disk
    BY <1>3 DEF Scp
  <2>2. writers'[Destination(t)] # {}
    BY <2>1, <1>t, <1>p DEF TypeOK
  <2>3. \A q \in Places : image'[q] = "part" => image[q] = "part" \/ q = Destination(t)
    BY <2>1, <1>t, <1>p DEF TypeOK
  <2>4. ASSUME NEW e \in converts', e.reads = "torn"
        PROVE  e.disk.at \in scped \/ writers'[e.disk.at] # {}
    <3>1. PICK c \in converts :
             e = IF c.disk.at = Destination(t) /\ c.reads = "file"
                 THEN [c EXCEPT !.reads = "torn"] ELSE c
      BY <2>1
    <3>2. c \in Conversions
      BY <1>t DEF TypeOK
    <3>3. e.disk = c.disk
      BY <3>1, <3>2 DEF Conversions
    <3>4. CASE c.disk.at = Destination(t)
      BY <3>3, <3>4, <2>2
    <3>5. CASE c.disk.at # Destination(t)
      BY <3>1, <3>5, <2>4 DEF TornFromScp
    <3> QED BY <3>4, <3>5
  <2> QED BY <2>1, <2>2, <2>3, <2>4 DEF TornStep
<1>4. CASE ScpEnds(t)
  <2>1. /\ image' = [image EXCEPT ![Destination(t)] =
                         IF writers[Destination(t)] = {t} THEN "whole" ELSE @]
        /\ UNCHANGED <<converts, disk>>
    BY <1>4 DEF ScpEnds
  <2>2. \A q \in Places : image'[q] = "part" => image[q] = "part"
    BY <2>1, <1>t, <1>p DEF TypeOK
  <2> QED BY <2>1, <2>2 DEF TornStep, TornFromScp
<1>5. CASE \/ TransferFails(t) \/ ConvertRefused(t) \/ InstallFails(t) \/ Install(t) \/ Save(t)
  BY <1>5, TornSame DEF TransferFails, ConvertRefused, InstallFails, Install, Save, files
<1>6. CASE Convert(t)
  <2> DEFINE n == [by |-> t, disk |-> MyDisk(t),
                   reads |-> IF image[Here(t)] = "whole" THEN "file" ELSE "torn"]
  <2>1. /\ image[Here(t)] # "none"
        /\ converts' = converts \cup {n}
        /\ disk' = [disk EXCEPT ![MyDisk(t)] = "part"]
        /\ image' = image
    BY <1>6 DEF Convert
  <2>2. n.reads = "torn" => n.disk.at \in scped
    <3>1. n.disk.at = Here(t)
      BY DEF MyDisk
    <3>2. n.reads = "torn" => image[Here(t)] = "part"
      BY <2>1, <1>t, <1>p DEF TypeOK, ImageStates
    <3> QED BY <3>1, <3>2, <1>p DEF TornFromScp
  <2>3. \A d \in Disks : disk'[d] = "bad" => disk[d] = "bad"
    BY <2>1, <1>t, <1>p DEF TypeOK
  <2> HIDE DEF n
  <2> QED BY <2>1, <2>2, <2>3 DEF TornStep, TornFromScp
<1>7. CASE ConvertEnds(t) \/ ConvertFails(t)
  <2>1. Mine(t) \in converts
    BY <1>7, MineIs DEF ConvertEnds, ConvertFails
  <2>2. /\ image' = image /\ converts' = converts \ {Mine(t)}
        /\ disk' \in {disk, Done(Mine(t))}
    BY <1>7 DEF ConvertEnds, ConvertFails
  <2> QED BY <2>1, <2>2, <1>t, TornEnds
<1>8. CASE ConvertLost(t)
  <2>1. Mine(t) \in converts
    BY <1>8, MineIs DEF ConvertLost
  <2> DEFINE o == [Mine(t) EXCEPT !.by = None]
  <2>2. Mine(t) \in Conversions
    BY <2>1, <1>t DEF TypeOK
  <2>3. o.disk = Mine(t).disk /\ o.reads = Mine(t).reads
    BY <2>2 DEF Conversions
  <2>4. /\ image' = image /\ converts' = (converts \ {Mine(t)}) \cup {o}
        /\ disk' = disk
    BY <1>8 DEF ConvertLost
  <2> HIDE DEF o
  <2>5. \A e \in converts' : \E c \in converts : e.disk = c.disk /\ e.reads = c.reads
    BY <2>1, <2>3, <2>4
  <2> QED BY <2>1, <2>4, <2>5, <1>t, TornEnds
<1>9. CASE Remove(t)
  BY <1>9, <1>t, <1>p, TornRenewed DEF Remove
<1>10. CASE Cleanup(t)
  BY <1>10, <1>t, <1>p, TornRenewed DEF Cleanup
<1>11. CASE VirtClone(t)
  <2>1. /\ UNCHANGED <<image, converts>>
        /\ \/ disk' = disk
           \/ \E s \in {"whole", "part"} : disk' = [disk EXCEPT ![MyDisk(t)] = s]
    BY <1>11 DEF VirtClone
  <2>2. \A d \in Disks : disk'[d] = "bad" => disk[d] = "bad"
    BY <2>1, <1>t, <1>p DEF TypeOK
  <2> QED BY <2>1, <2>2 DEF TornStep, TornFromScp
<1> QED BY <1>1, <1>2, <1>3, <1>4, <1>5, <1>6, <1>7, <1>8, <1>9, <1>10, <1>11 DEF Step

LEMMA TornFromOrphan ==
    ASSUME PipelineInv, TornFromScp, OrphanEnds
    PROVE  TornStep
<1>1. PICK m \in converts :
         /\ converts' = converts \ {m}
         /\ disk' \in {disk, Done(m)}
         /\ image' = image
  BY DEF OrphanEnds
<1> QED BY <1>1, TornEnds DEF PipelineInv

-----------------------------------------------------------------------------
(* What an undisturbed call finds *)

LEMMA FindsAside ==
    ASSUME NEW u \in Threads, FindsAt(u), UNCHANGED target, pc'[u] = pc[u], job'[u] = job[u]
    PROVE  FindsAt(u)'
BY DEF FindsAt, Transfers, Here, Destination, MyDisk, target

\* Where the same call works, as long as it stays on its host.
LEMMA SamePlace ==
    ASSUME NEW t, SameCall(t)
    PROVE  /\ Transfers(t)' = Transfers(t)
           /\ job'[t].host = job[t].host => Here(t)' = Here(t)
BY DEF SameCall, Transfers, Here

\* Only it writes into images.
LEMMA WritersMine ==
    ASSUME TypeOK, NEW t \in Threads, Step(t), \A p \in Places : writers[p] \subseteq {t}
    PROVE  \A p \in Places : writers'[p] \subseteq {t}
<1>p. Here(t) \in Places /\ Destination(t) \in Places
  BY JobFields
<1>1. CASE Submit(t) \/ Return(t)
  BY <1>1, SubmitMoves, ReturnMoves DEF files
<1>2. CASE Rsync(t) \/ Remove(t) \/ Cleanup(t)
  <2>1. \/ UNCHANGED writers
        \/ \E p \in Places : writers' = [writers EXCEPT ![p] = {}]
    BY <1>2, <1>p DEF Rsync, Remove, Cleanup, Renewed
  <2> QED BY <2>1 DEF TypeOK
<1>3. CASE Scp(t) \/ ScpEnds(t) \/ TransferFails(t)
  <2>1. \/ writers' = [writers EXCEPT ![Destination(t)] = @ \cup {t}]
        \/ writers' = [writers EXCEPT ![Destination(t)] = @ \ {t}]
    BY <1>3 DEF Scp, ScpEnds, TransferFails
  <2> QED BY <2>1, <1>p DEF TypeOK
<1>4. CASE \/ Convert(t) \/ ConvertRefused(t) \/ ConvertEnds(t) \/ ConvertFails(t)
           \/ ConvertLost(t) \/ Install(t) \/ InstallFails(t) \/ Save(t) \/ VirtClone(t)
  BY <1>4 DEF Convert, ConvertRefused, ConvertEnds, ConvertFails, ConvertLost, Install,
              InstallFails, Save, VirtClone, files
<1> QED BY <1>1, <1>2, <1>3, <1>4 DEF Step

\* A step has raised: what goes on is a batch, on a host where the image still is.
LEMMA FindsAbort ==
    ASSUME TypeOK, NEW t \in Threads, Abort(t), \A p \in Places : writers'[p] \subseteq {t},
           /\ job[t].tool = "all" /\ Transfers(t) /\ pc[t] \notin {"rsync", "scp"}
              => image'[Here(t)] = "whole"
    PROVE  FindsAt(t)'
<1>1. /\ SameCall(t)
      /\ \/ pc'[t] = "raised" /\ job[t].tool # "all"
         \/ /\ pc'[t] \in {"ok", "rsync"} /\ job[t].tool = "all"
         \/ /\ pc'[t] \in {"cleanup", "convert"} /\ job[t].tool = "all"
            /\ pc[t] \notin {"rsync", "scp"}
            /\ job'[t].host = job[t].host
  BY AbortMoves
<1>2. job'[t].tool = job[t].tool /\ Transfers(t)' = Transfers(t)
  BY <1>1, SamePlace DEF SameCall
<1>3. CASE pc'[t] \in {"raised", "ok", "rsync", "cleanup"}
  BY <1>1, <1>2, <1>3 DEF FindsAt
<1>4. CASE pc'[t] = "convert"
  <2>1. job[t].tool = "all" /\ pc[t] \notin {"rsync", "scp"} /\ Here(t)' = Here(t)
    BY <1>1, <1>4, SamePlace
  <2> QED BY <1>2, <1>4, <2>1 DEF FindsAt
<1> QED BY <1>1, <1>3, <1>4

\* The image is there.
LEMMA FindsTransferred ==
    ASSUME TypeOK, NEW t \in Threads, Transferred(t), \A p \in Places : writers'[p] \subseteq {t},
           image'[Destination(t)] = "whole"
    PROVE  FindsAt(t)'
<1>1. /\ SameCall(t) /\ job'[t].host = job[t].host
      /\ \/ pc'[t] = "ok" /\ job[t].tool = "image"
         \/ pc'[t] \in {"cleanup", "convert"}
  BY TransferredMoves
<1>2. job'[t].tool = job[t].tool /\ Transfers(t)' = Transfers(t) /\ Here(t)' = Here(t)
  BY <1>1, SamePlace DEF SameCall
<1>3. job[t].tool = "image" \/ Transfers(t) => Destination(t) = Here(t)
  BY DEF Destination, Here, Transfers
<1>4. CASE pc'[t] = "ok" /\ job[t].tool = "image"
  BY <1>2, <1>3, <1>4 DEF FindsAt
<1>5. CASE pc'[t] = "cleanup"
  BY <1>5 DEF FindsAt
<1>6. CASE pc'[t] = "convert"
  BY <1>2, <1>3, <1>6 DEF FindsAt
<1> QED BY <1>1, <1>4, <1>5, <1>6

LEMMA FindsCreated ==
    ASSUME TypeOK, NEW t \in Threads, RouteAt(t), FindsAt(t), pc[t] = "install", Created(t),
           \A p \in Places : writers'[p] \subseteq {t}, UNCHANGED image
    PROVE  FindsAt(t)'
<1>1. /\ SameCall(t) /\ job'[t].host = job[t].host
      /\ \/ pc'[t] = "save"
         \/ pc'[t] \in {"cleanup", "convert"} /\ job[t].tool = "all"
         \/ pc'[t] = "ok" /\ job[t].tool \notin {"template", "all"}
  BY CreatedMoves
<1>2. job'[t].tool = job[t].tool /\ Transfers(t)' = Transfers(t) /\ Here(t)' = Here(t)
  BY <1>1, SamePlace DEF SameCall
<1>3. CASE pc'[t] \in {"save", "cleanup"}
  BY <1>3 DEF FindsAt
<1>4. CASE pc'[t] = "ok"
  <2>1. job[t].tool # "image"
    BY DEF RouteAt
  <2> QED BY <1>2, <1>4, <2>1 DEF FindsAt
<1>5. CASE pc'[t] = "convert"
  <2>1. job[t].tool = "all"
    BY <1>1, <1>5
  <2>2. Transfers(t) => image[Here(t)] = "whole"
    BY <2>1 DEF FindsAt
  <2> QED BY <1>2, <1>5, <2>2 DEF FindsAt
<1> QED BY <1>1, <1>3, <1>4, <1>5

\* A worker that goes on in the same job.
LEMMA SameJob ==
    ASSUME TypeOK, NEW t \in Threads, NEW label \in Labels, Goto(t, label), UNCHANGED job
    PROVE  /\ pc'[t] = label /\ job'[t] = job[t]
           /\ Transfers(t)' = Transfers(t) /\ Here(t)' = Here(t) /\ MyDisk(t)' = MyDisk(t)
           /\ Destination(t)' = Destination(t)
<1>1. pc'[t] = label /\ job'[t] = job[t]
  BY DEF Goto, TypeOK
<1> QED BY <1>1 DEF Transfers, Here, MyDisk, Destination

LEMMA FindsStep ==
    ASSUME PipelineInv, NEW t \in Threads, Step(t), RouteAt(t), FindsAt(t),
           pc[t] = "idle" => Quiet
    PROVE  FindsAt(t)'
<1>t. TypeOK
  BY DEF PipelineInv
<1>p. Here(t) \in Places /\ Destination(t) \in Places /\ MyDisk(t) \in Disks
  BY <1>t, JobFields
<1>w. \A p \in Places : writers'[p] \subseteq {t}
  <2>1. \A p \in Places : writers[p] \subseteq {t}
    BY DEF FindsAt, Quiet
  <2> QED BY <1>t, <2>1, WritersMine
<1>k. job[t].tool = "all" => job[t].keep
  BY DEF RouteAt
<1>1. CASE Submit(t)
  <2>1. \/ pc'[t] \in {"virtclone", "rsync"}
        \/ pc'[t] = "convert" /\ job'[t].tool = "remote" /\ job'[t].skip
    BY <1>1, <1>t, SubmitMoves
  <2>2. CASE pc'[t] \in {"virtclone", "rsync"}
    BY <2>2, <1>w DEF FindsAt
  <2>3. CASE pc'[t] = "convert" /\ job'[t].tool = "remote" /\ job'[t].skip
    BY <2>3, <1>w DEF FindsAt, Transfers
  <2> QED BY <2>1, <2>2, <2>3
<1>2. CASE Rsync(t)
  <2>1. image'[Destination(t)] = "whole"
    BY <1>2, <1>t, <1>p DEF Rsync, Renewed, TypeOK
  <2> QED BY <1>2, <1>t, <1>w, <2>1, FindsTransferred DEF Rsync
<1>3. CASE Scp(t)
  <2>1. pc'[t] = "scp" /\ Destination(t)' = Destination(t)
    BY <1>3, <1>t, SameJob DEF Scp, Labels
  <2>2. t \in writers'[Destination(t)]
    BY <1>3, <1>t, <1>p DEF Scp, TypeOK
  <2> QED BY <2>1, <2>2, <1>w DEF FindsAt
<1>4. CASE ScpEnds(t)
  <2>1. writers[Destination(t)] = {t}
    BY <1>4, <1>p DEF FindsAt, ScpEnds
  <2>2. image'[Destination(t)] = "whole"
    BY <1>4, <1>t, <1>p, <2>1 DEF ScpEnds, TypeOK
  <2> QED BY <1>4, <1>t, <1>w, <2>2, FindsTransferred DEF ScpEnds
<1>5. CASE TransferFails(t)
  BY <1>5, <1>t, <1>w, FindsAbort DEF TransferFails
<1>6. CASE Convert(t)
  <2>1. /\ pc'[t] = "converting" /\ Transfers(t)' = Transfers(t) /\ Here(t)' = Here(t)
    BY <1>6, <1>t, SameJob DEF Convert, Labels
  <2>2. Transfers(t) => image[Here(t)] = "whole"
    BY <1>6 DEF FindsAt, Convert
  <2>3. \A c \in converts : c.by # t
    <3>1. pc[t] # "converting" /\ t # None
      BY <1>6 DEF Convert
    <3> QED BY <3>1 DEF PipelineInv, ConversionOK
  <2> DEFINE n == [by |-> t, disk |-> MyDisk(t),
                   reads |-> IF image[Here(t)] = "whole" THEN "file" ELSE "torn"]
  <2>4. converts' = converts \cup {n} /\ image' = image
    BY <1>6 DEF Convert
  <2>5. Transfers(t) => n.reads # "torn"
    BY <2>2
  <2> HIDE DEF n
  <2>6. Transfers(t) => \A c \in converts' : c.by = t => c.reads # "torn"
    BY <2>3, <2>4, <2>5
  <2> QED BY <1>w, <2>1, <2>2, <2>4, <2>6 DEF FindsAt
<1>7. CASE ConvertRefused(t)
  <2>1. pc[t] = "convert" /\ image' = image /\ Abort(t)
    BY <1>7 DEF ConvertRefused, files
  <2>2. Transfers(t) => image[Here(t)] = "whole"
    BY <2>1 DEF FindsAt
  <2> QED BY <2>1, <2>2, <1>t, <1>w, FindsAbort
<1>8. CASE ConvertEnds(t)
  <2>1. /\ pc'[t] = "remove" /\ Transfers(t)' = Transfers(t) /\ Here(t)' = Here(t)
        /\ MyDisk(t)' = MyDisk(t) /\ job'[t] = job[t]
    BY <1>8, <1>t, SameJob DEF ConvertEnds, Labels
  <2>2. pc[t] = "converting" /\ image' = image /\ disk' = Done(Mine(t))
    BY <1>8 DEF ConvertEnds
  <2>3. Mine(t) \in converts /\ Mine(t).by = t /\ Mine(t).disk = MyDisk(t)
    BY <2>2, MineIs
  <2>4. Transfers(t) => Mine(t).reads # "torn"
    BY <2>2, <2>3 DEF FindsAt
  <2>5. Transfers(t) => disk'[MyDisk(t)] = "whole"
    BY <2>2, <2>3, <2>4, <1>t, <1>p DEF Done, TypeOK
  <2>6. Transfers(t) /\ job[t].tool = "all" => image[Here(t)] = "whole"
    BY <2>2 DEF FindsAt
  <2> QED BY <1>w, <2>1, <2>2, <2>5, <2>6 DEF FindsAt
<1>9. CASE ConvertFails(t) \/ ConvertLost(t)
  <2>1. pc[t] = "converting" /\ image' = image /\ Abort(t)
    BY <1>9 DEF ConvertFails, ConvertLost
  <2>2. Transfers(t) /\ job[t].tool = "all" => image[Here(t)] = "whole"
    BY <2>1 DEF FindsAt
  <2> QED BY <2>1, <2>2, <1>t, <1>w, FindsAbort
<1>10. CASE Remove(t)
  <2>1. /\ pc[t] = "remove" /\ disk' = disk
        /\ (Goto(t, "install") /\ Stays) \/ Abort(t)
        /\ job[t].tool = "all" => image' = image
    BY <1>10, <1>k DEF Remove
  <2>2. Transfers(t) => /\ job[t].tool = "all" => image'[Here(t)] = "whole"
                        /\ disk'[MyDisk(t)] = "whole"
    BY <2>1 DEF FindsAt
  <2>3. CASE Abort(t)
    BY <2>1, <2>2, <2>3, <1>t, <1>w, FindsAbort
  <2>4. CASE Goto(t, "install") /\ Stays
    <3>1. /\ pc'[t] = "install" /\ Transfers(t)' = Transfers(t) /\ Here(t)' = Here(t)
          /\ MyDisk(t)' = MyDisk(t) /\ job'[t] = job[t]
      BY <2>4, <1>t, SameJob DEF Stays, Labels
    <3> QED BY <1>w, <2>2, <3>1 DEF FindsAt
  <2> QED BY <2>1, <2>3, <2>4
<1>11. CASE Install(t) \/ InstallFails(t)
  <2>1. pc[t] = "install" /\ image' = image /\ (Created(t) \/ Abort(t))
    BY <1>11 DEF Install, InstallFails, files
  <2>2. Transfers(t) /\ job[t].tool = "all" => image[Here(t)] = "whole"
    BY <2>1 DEF FindsAt
  <2>3. CASE Abort(t)
    BY <2>1, <2>2, <2>3, <1>t, <1>w, FindsAbort
  <2>4. CASE Created(t)
    BY <2>1, <2>4, <1>t, <1>w, FindsCreated
  <2> QED BY <2>1, <2>3, <2>4
<1>12. CASE Save(t)
  <2>1. pc[t] = "save" /\ pc'[t] = "ok" /\ job'[t] = job[t]
    BY <1>12, <1>t, SameJob DEF Save, Labels
  <2>2. job[t].tool = "template"
    BY <2>1 DEF RouteAt
  <2> QED BY <1>w, <2>1, <2>2 DEF FindsAt
<1>13. CASE Cleanup(t)
  <2>1. pc[t] = "cleanup" /\ SameCall(t) /\ pc'[t] \in {"ok", "rsync"}
    BY <1>13, <1>t, NextHostMoves DEF Cleanup
  <2>2. job'[t].tool = "all"
    BY <2>1 DEF RouteAt, SameCall
  <2> QED BY <1>w, <2>1, <2>2 DEF FindsAt
<1>14. CASE VirtClone(t)
  <2>1. pc[t] = "virtclone" /\ pc'[t] \in {"ok", "raised"} /\ job'[t] = job[t]
    BY <1>14, <1>t DEF VirtClone, Goto, TypeOK
  <2>2. job[t].tool = "local"
    BY <2>1 DEF RouteAt
  <2> QED BY <1>w, <2>1, <2>2 DEF FindsAt
<1>15. CASE Return(t)
  <2>1. pc'[t] = "idle"
    BY <1>15, <1>t, ReturnMoves
  <2> QED BY <2>1 DEF FindsAt
<1> QED BY <1>1, <1>2, <1>3, <1>4, <1>5, <1>6, <1>7, <1>8, <1>9, <1>10, <1>11, <1>12, <1>13,
           <1>14, <1>15 DEF Step

-----------------------------------------------------------------------------
(* The claims *)

\* Saved credentials are those of a VM that was made.
CredsOK == creds # None => \E h \in Hosts : vm[<<h, creds>>] # None

LEMMA CredsStep ==
    ASSUME TypeOK, NEW t \in Threads, Step(t), RouteAt(t), CredsOK
    PROVE  CredsOK'
<1>1. \A v \in VMs : vm[v] # None => vm'[v] # None
  BY VmsStay
<1>2. CASE creds' = creds
  <2>1. creds # None => \A h \in Hosts : <<h, creds>> \in VMs
    BY DEF TypeOK, VMs
  <2> QED BY <1>1, <1>2, <2>1 DEF CredsOK
<1>3. CASE Save(t) /\ creds' = job[t].name
  <2>1. vm[MyVm(t)] # None
    BY <1>3 DEF Save, RouteAt
  <2>2. MyVm(t) \in VMs /\ MyVm(t) = <<job[t].host, creds'>> /\ job[t].host \in Hosts
    BY <1>3, JobFields DEF MyVm
  <2> QED BY <1>1, <2>1, <2>2 DEF CredsOK
<1>4. creds' = creds \/ (Save(t) /\ creds' = job[t].name)
  <2>1. CASE Submit(t) \/ Return(t)
    BY <2>1, SubmitMoves, ReturnMoves
  <2>2. CASE Save(t)
    BY <2>2 DEF Save
  <2> QED BY <2>1, <2>2 DEF Step, Rsync, Scp, ScpEnds, TransferFails, Convert, ConvertRefused,
              ConvertEnds, ConvertFails, ConvertLost, Remove, Install, InstallFails, Cleanup,
              VirtClone
<1> QED BY <1>2, <1>3, <1>4

\* A step of a worker.
LEMMA WorkerStep ==
    ASSUME HInv, NEW t \in Threads, Step(t), Remember(t)
    PROVE  HInv'
<1>i. /\ PipelineInv /\ TypeOK
      /\ \A u \in Threads : RouteAt(u) /\ DiskReadyAt(u)
      /\ VmHasDisk /\ TornFromScp /\ BadFromScp
      /\ \A u \in alone : FindsAt(u)
      /\ CredsOK
  BY DEF HInv, PipelineInv, CredsOK
<1>1. PipelineInv' /\ TypeOK'
  <2>1. PipelineInv'
    BY <1>i, PipelineStep DEF Next
  <2> QED BY <2>1 DEF PipelineInv
<1>r. /\ alone' = {u \in Threads : \/ pc'[u] = "idle"
                                   \/ /\ u \in alone
                                      /\ u = t \/ target' = target
                                      /\ pc[u] = "idle" => Quiet}
      /\ taken' = taken \cup Taken(t)
      /\ scped' = scped \cup {p \in Places : writers'[p] # {}}
  BY DEF Remember
<1>2. ASSUME NEW u \in Threads, u # t
      PROVE  pc'[u] = pc[u] /\ job'[u] = job[u] /\ MyDisk(u)' = MyDisk(u)
  BY <1>2, <1>i, StepMoves, Aside
<1>3. ASSUME NEW u \in Threads PROVE RouteAt(u)' /\ DiskReadyAt(u)'
  <2>1. CASE u = t
    BY <2>1, <1>i, <1>r, RouteStep, DiskReadyStep
  <2>2. CASE u # t
    BY <2>2, <1>2, <1>i, <1>r, RouteAside, DiskReadyAside
  <2> QED BY <2>1, <2>2
<1>4. VmHasDisk'
  BY <1>i, <1>r, VmHasDiskStep
<1>5. TornFromScp' /\ BadFromScp'
  <2>1. TornStep
    BY <1>i, TornFromStep
  <2> QED BY <2>1, <1>i, <1>r, <1>1, TornStepped
<1>6. ASSUME NEW u \in alone' PROVE FindsAt(u)'
  <2>1. CASE pc'[u] = "idle"
    BY <2>1 DEF FindsAt
  <2>2. CASE pc'[u] # "idle" /\ u = t
    <3>1. t \in alone /\ (pc[t] = "idle" => Quiet)
      BY <2>2, <1>6, <1>r
    <3> QED BY <2>2, <3>1, <1>i, FindsStep
  <2>3. CASE pc'[u] # "idle" /\ u # t
    <3>1. u \in Threads /\ u \in alone /\ UNCHANGED target
      BY <2>3, <1>6, <1>r
    <3> QED BY <2>3, <3>1, <1>2, <1>i, FindsAside
  <2> QED BY <2>1, <2>2, <2>3
<1>7. CredsOK'
  BY <1>i, CredsStep
<1> QED BY <1>1, <1>3, <1>4, <1>5, <1>6, <1>7 DEF HInv, CredsOK

\* A step of nobody: the calls that are under way do not notice, but for those a
\* conversion without a client disturbs.
LEMMA NobodyStep ==
    ASSUME HInv, OrphanEnds \/ Power, Remember(None)
    PROVE  HInv'
<1>i. /\ PipelineInv /\ TypeOK
      /\ \A u \in Threads : RouteAt(u) /\ DiskReadyAt(u)
      /\ VmHasDisk /\ TornFromScp /\ BadFromScp
      /\ \A u \in alone : FindsAt(u)
      /\ CredsOK
  BY DEF HInv, PipelineInv, CredsOK
<1>1. PipelineInv' /\ TypeOK'
  <2>1. PipelineInv'
    BY <1>i, OrphanPipeline, PowerPipeline
  <2> QED BY <2>1 DEF PipelineInv
<1>r. /\ alone' = {u \in Threads : \/ pc'[u] = "idle"
                                   \/ /\ u \in alone
                                      /\ u = None \/ target' = target
                                      /\ pc[u] = "idle" => Quiet}
      /\ taken' = taken \cup Taken(None)
      /\ scped' = scped \cup {p \in Places : writers'[p] # {}}
  BY DEF Remember
<1>2. UNCHANGED <<image, writers, vm, creds, pc, job>>
  BY DEF OrphanEnds, Power
<1>n. None \notin Threads
  OBVIOUS
<1>3. ASSUME NEW u \in Threads PROVE RouteAt(u)' /\ DiskReadyAt(u)'
  <2>1. RouteAt(u)'
    BY <1>i, <1>2 DEF RouteAt, MyVm
  <2>2. MyDisk(u)' = MyDisk(u) /\ pc'[u] = pc[u]
    BY <1>2 DEF MyDisk, Here
  <2> QED BY <2>1, <2>2, <1>i, <1>r, <1>n, DiskReadyAside
<1>4. VmHasDisk'
  <2> SUFFICES ASSUME NEW v \in VMs, vm'[v] # None, DiskOf(v)' \notin taken'
               PROVE  disk'[DiskOf(v)'] \in {"whole", "bad"}
    BY DEF VmHasDisk
  <2> QED BY <1>i, <1>r, <1>2, DiskStays
<1>5. TornFromScp' /\ BadFromScp'
  <2>1. TornStep
    <3>1. CASE OrphanEnds
      BY <3>1, <1>i, TornFromOrphan
    <3>2. CASE Power
      BY <3>2, <1>i, TornSame DEF Power
    <3> QED BY <3>1, <3>2
  <2> QED BY <2>1, <1>i, <1>r, <1>1, TornStepped
<1>6. ASSUME NEW u \in alone' PROVE FindsAt(u)'
  <2>1. CASE pc'[u] = "idle"
    BY <2>1 DEF FindsAt
  <2>2. CASE pc'[u] # "idle"
    <3>1. u \in Threads /\ u \in alone /\ UNCHANGED target
      BY <2>2, <1>6, <1>r, <1>n
    <3> QED BY <3>1, <1>2, <1>i, FindsAside
  <2> QED BY <2>1, <2>2
<1>7. CredsOK'
  BY <1>i, <1>2 DEF CredsOK
<1> QED BY <1>1, <1>3, <1>4, <1>5, <1>6, <1>7 DEF HInv, CredsOK

LEMMA HInvInit ==
    ASSUME HInit
    PROVE  HInv
<1>1. PipelineInv
  BY PipelineInit DEF HInit
<1>2. /\ image = [p \in Places |-> "none"] /\ writers = [p \in Places |-> {}] /\ converts = {}
      /\ disk = [d \in Disks |-> "none"] /\ vm = [v \in VMs |-> None] /\ creds = None
      /\ \A t \in Threads : pc[t] = "idle" /\ job[t].tool = "image"
      /\ alone = Threads
  BY DEF HInit, Init, NoJob
<1>3. \A t \in Threads : RouteAt(t) /\ DiskReadyAt(t) /\ FindsAt(t)
  BY <1>2 DEF RouteAt, DiskReadyAt, FindsAt
<1>4. VmHasDisk /\ TornFromScp /\ BadFromScp
  BY <1>2 DEF VmHasDisk, TornFromScp, BadFromScp
<1> QED BY <1>1, <1>2, <1>3, <1>4 DEF HInv

LEMMA HInvSame ==
    ASSUME HInv, UNCHANGED hvars
    PROVE  HInv'
<1>1. /\ UNCHANGED vars /\ UNCHANGED <<alone, taken, scped>>
      /\ UNCHANGED <<image, writers, converts, disk, vm, running, creds, pc, job>>
  BY DEF hvars, vars, files
<1>2. PipelineInv'
  BY <1>1, PipelineStep DEF HInv
<1>3. ASSUME NEW u \in Threads PROVE RouteAt(u)' /\ DiskReadyAt(u)'
  BY <1>1 DEF HInv, RouteAt, DiskReadyAt, Here, MyDisk, MyVm
<1>4. ASSUME NEW u \in alone' PROVE FindsAt(u)'
  BY <1>1, <1>4 DEF HInv, FindsAt, Transfers, Here, MyDisk, Destination
<1>5. VmHasDisk' /\ TornFromScp' /\ BadFromScp'
  BY <1>1 DEF HInv, VmHasDisk, TornFromScp, BadFromScp, DiskOf
<1> QED BY <1>1, <1>2, <1>3, <1>4, <1>5 DEF HInv

\* The inductive invariant of the claims: what a worker has found, made and written is
\* known at every step of its call.
THEOREM Invariance == HSpec => []HInv
<1>1. HInit => HInv
  BY HInvInit
<1>2. HInv /\ [HNext]_hvars => HInv'
  BY WorkerStep, NobodyStep, HInvSame DEF HNext
<1> QED BY <1>1, <1>2, PTL DEF HSpec

\* A VM that is defined has a disk that was written to its end, unless another call for
\* the same name has overwritten it (clone_vm_remote, clone_vm_local).
THEOREM DisksComplete == HSpec => []VmHasDisk
<1>1. HInv => VmHasDisk
  BY DEF HInv
<1> QED BY <1>1, Invariance, PTL

\* Only where clone_image_to_host has fallen back to scp can a clone read an image that
\* changes under it or was cut short.
THEOREM OnlyScpSpoils == HSpec => []BadFromScp
<1>1. HInv => BadFromScp
  BY DEF HInv
<1> QED BY <1>1, Invariance, PTL

\* A call nobody disturbs finds the image when it converts it, for every VM of a batch of
\* clone_to_all_hosts, and its disk when it defines the VM.
THEOREM InputsFound == HSpec => []InputsReady
<1>1. HInv => InputsReady
  BY DEF HInv, InputsReady, FindsAt
<1> QED BY <1>1, Invariance, PTL

\* A clone that answers well has made its VM, an undisturbed transfer has left the image
\* whole, and saved credentials are those of a VM that was made.
THEOREM Answers == HSpec => []AnswersHold
<1>1. HInv => AnswersHold
  BY DEF HInv, AnswersHold, RouteAt, FindsAt
<1> QED BY <1>1, Invariance, PTL
=============================================================================
