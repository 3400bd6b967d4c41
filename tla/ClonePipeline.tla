---------------------------- MODULE ClonePipeline ----------------------------
(***************************************************************************)
(* The clone tools of the libvirt server: a golden image is transferred to *)
(* a host, converted there into the disk of a new VM, removed, and the VM  *)
(* defined; for one VM, for several on several hosts, or from a template   *)
(* whose credentials are saved for it.                                     *)
(*                                                                         *)
(* All calls use one golden image, intact on the server.  rsync, scp,      *)
(* qemu-img, virt-install and virt-clone are external: rsync puts a whole  *)
(* file in place of another; scp writes into the file that is there;       *)
(* qemu-img refuses a disk that a VM or another conversion has open, and   *)
(* goes on when its ssh client is gone.                                    *)
(***************************************************************************)
EXTENDS Workers, Naturals, Sequences, FiniteSets

CONSTANTS
    Hosts,       \* target hosts
    Dirs,        \* directories of a host
    SourceDir,   \* the directory of the golden image on the server
    Names,       \* names of VMs
    CallNames,   \* those that calls for one VM give
    Batches,     \* the lists of hosts clone_to_all_hosts is called with
    BatchNames,  \* the names it makes for the VMs of a host
    MaxOrphans   \* bound on the conversions that have lost their client

ASSUME CloneAssumption == /\ SourceDir \in Dirs /\ Hosts # {} /\ Names # {}
                          /\ Batches \subseteq Seq(Hosts) \ {<<>>}
                          /\ BatchNames \in Seq(Names) /\ CallNames \subseteq Names
                          /\ MaxOrphans \in Nat
                          /\ None \notin Dirs \cup Threads \cup Names

VARIABLES
    image,     \* the golden image at each place: "none", "part" or "whole"
    writers,   \* the workers whose scp writes into that file
    converts,  \* conversions that run: by a worker, or by None when its client is gone
    disk,      \* the disk of each VM: "none", "part", "whole", or "bad" (from a torn image)
    vm,        \* the directory of its disk, for each VM that is defined, or None
    running,   \* the VMs that run
    creds,     \* the VM that the template's credentials are saved for, or None
    job        \* its call

files == <<image, writers, converts, disk, vm, running>>
vars == <<files, creds, pc, job>>

Places == Hosts \X Dirs
VMs == Hosts \X Names
Disks == [at : Places, name : Names]
Tools == {"local", "image", "remote", "template", "all"}
\* `names` and `hosts` are what clone_to_all_hosts has yet to do.
Jobs == [tool : Tools, host : Hosts, dir : Dirs, name : Names, skip : BOOLEAN, keep : BOOLEAN,
         names : Seq(Names), hosts : Seq(Hosts)]
Labels == {"idle", "virtclone", "rsync", "scp", "convert", "converting", "remove", "install",
           "save", "cleanup", "ok", "raised"}

Here(t) == <<job[t].host, job[t].dir>>
MyDisk(t) == [at |-> Here(t), name |-> job[t].name]
MyVm(t) == <<job[t].host, job[t].name>>
Mine(t) == CHOOSE c \in converts : c.by = t

\* clone_to_all_hosts names no remote path: the image goes to the path it has on the server.
Destination(t) == IF job[t].tool = "all" THEN <<job[t].host, SourceDir>> ELSE Here(t)

\* Another process has the disk open.
Locked(d) ==
    \/ \E c \in converts : c.disk = d
    \/ LET v == <<d.at[1], d.name>> IN v \in running /\ vm[v] = d.at[2]

-----------------------------------------------------------------------------
(* Where a call goes on *)

Stays == UNCHANGED job

\* The next VM of the host, then its cleanup.
NextVm(t) ==
    IF job[t].names = <<>> THEN Goto(t, "cleanup") /\ Stays
    ELSE /\ Goto(t, "convert")
         /\ job' = [job EXCEPT ![t].name = Head(job[t].names), ![t].names = Tail(@)]

NextHost(t) ==
    IF job[t].hosts = <<>> THEN Goto(t, "ok") /\ Stays
    ELSE /\ Goto(t, "rsync")
         /\ job' = [job EXCEPT ![t].host = Head(job[t].hosts), ![t].hosts = Tail(@),
                               ![t].names = BatchNames]

\* A step raises: clone_to_all_hosts goes on, any other tool ends.
Abort(t) ==
    IF job[t].tool # "all" THEN Goto(t, "raised") /\ Stays
    ELSE IF pc[t] \in {"rsync", "scp"} THEN NextHost(t)
    ELSE NextVm(t)

Transferred(t) ==
    CASE job[t].tool = "image" -> Goto(t, "ok") /\ Stays
      [] job[t].tool = "all" -> NextVm(t)
      [] OTHER -> Goto(t, "convert") /\ Stays

Created(t) ==
    CASE job[t].tool = "template" -> Goto(t, "save") /\ Stays
      [] job[t].tool = "all" -> NextVm(t)
      [] OTHER -> Goto(t, "ok") /\ Stays

-----------------------------------------------------------------------------
NoJob == [tool |-> "image", host |-> CHOOSE h \in Hosts : TRUE, dir |-> SourceDir,
          name |-> CHOOSE n \in Names : TRUE, skip |-> FALSE, keep |-> FALSE,
          names |-> <<>>, hosts |-> <<>>]

Init ==
    /\ image = [p \in Places |-> "none"]
    /\ writers = [p \in Places |-> {}]
    /\ converts = {}
    /\ disk = [d \in Disks |-> "none"]
    /\ vm = [v \in VMs |-> None]
    /\ running = {}
    /\ creds = None
    /\ pc = [t \in Threads |-> "idle"]
    /\ job = [t \in Threads |-> NoJob]

Begin(t, label, j) ==
    /\ pc[t] = "idle"
    /\ job' = [job EXCEPT ![t] = j]
    /\ Goto(t, label)
    /\ UNCHANGED <<files, creds>>

CloneVmLocal(t) ==
    \E h \in Hosts, d \in Dirs, n \in CallNames :
       Begin(t, "virtclone", [NoJob EXCEPT !.tool = "local", !.host = h, !.dir = d, !.name = n])

CloneImageToHost(t) ==
    \E h \in Hosts, d \in Dirs : Begin(t, "rsync", [NoJob EXCEPT !.host = h, !.dir = d])

CloneVmRemote(t) ==
    \E h \in Hosts, d \in Dirs, n \in CallNames, skip, keep \in BOOLEAN :
       Begin(t, IF skip THEN "convert" ELSE "rsync",
             [NoJob EXCEPT !.tool = "remote", !.host = h, !.dir = d, !.name = n,
                           !.skip = skip, !.keep = keep])

\* The template is ready.
CloneVmRemoteByTemplate(t) ==
    \E h \in Hosts, d \in Dirs, n \in CallNames :
       Begin(t, "rsync", [NoJob EXCEPT !.tool = "template", !.host = h, !.dir = d, !.name = n])

\* Faulty variant: every VM of a batch removes the image.
CloneToAllHostsRemoves(t) ==
    \E hs \in Batches, d \in Dirs :
       Begin(t, "rsync", [NoJob EXCEPT !.tool = "all", !.host = Head(hs), !.dir = d,
                                       !.hosts = Tail(hs), !.names = BatchNames])

CloneToAllHosts(t) ==
    \E hs \in Batches, d \in Dirs :
       Begin(t, "rsync", [NoJob EXCEPT !.tool = "all", !.host = Head(hs), !.dir = d,
                                       !.keep = TRUE, !.hosts = Tail(hs), !.names = BatchNames])

Submit(t) ==
    \/ CloneVmLocal(t) \/ CloneImageToHost(t) \/ CloneVmRemote(t)
    \/ CloneVmRemoteByTemplate(t) \/ CloneToAllHosts(t)

-----------------------------------------------------------------------------
(* clone_image_to_host *)

\* The file at the place is another one: who has the old one open keeps that.
Renewed(p, state) ==
    /\ image' = [image EXCEPT ![p] = state]
    /\ writers' = [writers EXCEPT ![p] = {}]
    /\ converts' = {IF c.disk.at = p /\ c.reads = "file" THEN [c EXCEPT !.reads = "copy"] ELSE c :
                    c \in converts}

\* Faulty variant: with --inplace it writes into the file that is there.
RsyncInPlace(t) ==
    /\ pc[t] = "rsync"
    /\ LET p == Destination(t)
       IN /\ image' = [image EXCEPT ![p] = "whole"]
          /\ converts' = {IF c.disk.at = p /\ c.reads = "file"
                          THEN [c EXCEPT !.reads = "torn"] ELSE c : c \in converts}
    /\ Transferred(t)
    /\ UNCHANGED <<writers, disk, vm, running, creds>>

Rsync(t) ==
    /\ pc[t] = "rsync"
    /\ Renewed(Destination(t), "whole")
    /\ Transferred(t)
    /\ UNCHANGED <<disk, vm, running, creds>>

\* rsync has failed: scp truncates the file and writes it again.
Scp(t) ==
    /\ pc[t] = "rsync"
    /\ LET p == Destination(t)
       IN /\ image' = [image EXCEPT ![p] = "part"]
          /\ writers' = [writers EXCEPT ![p] = @ \cup {t}]
          /\ converts' = {IF c.disk.at = p /\ c.reads = "file"
                          THEN [c EXCEPT !.reads = "torn"] ELSE c : c \in converts}
    /\ Goto(t, "scp")
    /\ UNCHANGED <<disk, vm, running, creds, job>>

ScpEnds(t) ==
    /\ pc[t] = "scp"
    /\ LET p == Destination(t)
       IN /\ writers' = [writers EXCEPT ![p] = @ \ {t}]
          /\ image' = [image EXCEPT ![p] = IF writers[p] = {t} THEN "whole" ELSE @]
    /\ Transferred(t)
    /\ UNCHANGED <<converts, disk, vm, running, creds>>

\* Both have failed, or the time was up.
TransferFails(t) ==
    /\ pc[t] \in {"rsync", "scp"}
    /\ writers' = [writers EXCEPT ![Destination(t)] = @ \ {t}]
    /\ Abort(t)
    /\ UNCHANGED <<image, converts, disk, vm, running, creds>>

-----------------------------------------------------------------------------
(* clone_vm_remote, after the transfer *)

\* Faulty variant: qemu-img does not look at the locks (-U).
ConvertUnlocked(t) ==
    /\ pc[t] = "convert"
    /\ image[Here(t)] # "none"
    /\ converts' = converts \cup
          {[by |-> t, disk |-> MyDisk(t),
            reads |-> IF image[Here(t)] = "whole" THEN "file" ELSE "torn"]}
    /\ disk' = [disk EXCEPT ![MyDisk(t)] = "part"]
    /\ Goto(t, "converting")
    /\ UNCHANGED <<image, writers, vm, running, creds, job>>

Convert(t) ==
    /\ pc[t] = "convert"
    /\ image[Here(t)] # "none"
    /\ ~Locked(MyDisk(t))
    /\ converts' = converts \cup
          {[by |-> t, disk |-> MyDisk(t),
            reads |-> IF image[Here(t)] = "whole" THEN "file" ELSE "torn"]}
    /\ disk' = [disk EXCEPT ![MyDisk(t)] = "part"]
    /\ Goto(t, "converting")
    /\ UNCHANGED <<image, writers, vm, running, creds, job>>

\* qemu-img refuses, or the host cannot be reached.
ConvertRefused(t) ==
    /\ pc[t] = "convert"
    /\ Abort(t)
    /\ UNCHANGED <<files, creds>>

Done(c) == [disk EXCEPT ![c.disk] = IF c.reads = "torn" THEN "bad" ELSE "whole"]

ConvertEnds(t) ==
    /\ pc[t] = "converting"
    /\ disk' = Done(Mine(t))
    /\ converts' = converts \ {Mine(t)}
    /\ Goto(t, "remove")
    /\ UNCHANGED <<image, writers, vm, running, creds, job>>

\* Faulty variant: the return code of the conversion is not looked at.
ConvertFailsUnseen(t) ==
    /\ pc[t] = "converting"
    /\ converts' = converts \ {Mine(t)}
    /\ Goto(t, "remove")
    /\ UNCHANGED <<image, writers, disk, vm, running, creds, job>>

ConvertFails(t) ==
    /\ pc[t] = "converting"
    /\ converts' = converts \ {Mine(t)}
    /\ Abort(t)
    /\ UNCHANGED <<image, writers, disk, vm, running, creds>>

\* The time is up: qemu-img goes on without a client.
ConvertLost(t) ==
    /\ pc[t] = "converting"
    /\ Cardinality({c \in converts : c.by = None}) < MaxOrphans
    /\ converts' = (converts \ {Mine(t)}) \cup {[Mine(t) EXCEPT !.by = None]}
    /\ Abort(t)
    /\ UNCHANGED <<image, writers, disk, vm, running, creds>>

OrphanEnds ==
    \E c \in converts :
       /\ c.by = None
       /\ converts' = converts \ {c}
       /\ disk' \in {disk, Done(c)}
       /\ UNCHANGED <<image, writers, vm, running, creds, pc, job>>

\* The return codes of the resize and of the removal are not looked at, but a
\* time-out of either ends the call.
Remove(t) ==
    /\ pc[t] = "remove"
    /\ \/ ~job[t].keep /\ Renewed(Here(t), "none")
       \/ UNCHANGED <<image, writers, converts>>
    /\ \/ Goto(t, "install") /\ Stays
       \/ Abort(t)
    /\ UNCHANGED <<disk, vm, running, creds>>

\* register_host is LibvirtPool's.
Install(t) ==
    /\ pc[t] = "install"
    /\ vm[MyVm(t)] = None
    /\ ~Locked(MyDisk(t))
    /\ vm' = [vm EXCEPT ![MyVm(t)] = job[t].dir]
    /\ running' = running \cup {MyVm(t)}
    /\ Created(t) \/ Abort(t)
    /\ UNCHANGED <<image, writers, converts, disk, creds>>

\* Faulty variant: the return code of virt-install is not looked at.
InstallFailsUnseen(t) ==
    /\ pc[t] = "install"
    /\ Created(t)
    /\ UNCHANGED <<files, creds>>

InstallFails(t) ==
    /\ pc[t] = "install"
    /\ Abort(t)
    /\ UNCHANGED <<files, creds>>

-----------------------------------------------------------------------------
(* clone_vm_remote_by_template, clone_to_all_hosts and clone_vm_local *)

\* One row per user name, which all VMs of a template share.  Without a key, or when
\* the database refuses, nothing is saved.
Save(t) ==
    /\ pc[t] = "save"
    /\ creds' \in {creds, job[t].name}
    /\ Goto(t, "ok")
    /\ UNCHANGED <<files, job>>

Cleanup(t) ==
    /\ pc[t] = "cleanup"
    /\ Renewed(Here(t), "none") \/ UNCHANGED <<image, writers, converts>>
    /\ NextHost(t)
    /\ UNCHANGED <<disk, vm, running, creds>>

VirtClone(t) ==
    /\ pc[t] = "virtclone"
    /\ \/ /\ vm[MyVm(t)] = None /\ ~Locked(MyDisk(t))
          /\ \/ /\ disk' = [disk EXCEPT ![MyDisk(t)] = "whole"]
                /\ vm' = [vm EXCEPT ![MyVm(t)] = job[t].dir]
                /\ Goto(t, "ok")
             \/ disk' = [disk EXCEPT ![MyDisk(t)] = "part"] /\ Goto(t, "raised") /\ UNCHANGED vm
       \/ Goto(t, "raised") /\ UNCHANGED <<disk, vm>>
    /\ UNCHANGED <<image, writers, converts, running, creds, job>>

Return(t) ==
    /\ pc[t] \in {"ok", "raised"}
    /\ Goto(t, "idle")
    /\ job' = [job EXCEPT ![t] = NoJob]
    /\ UNCHANGED <<files, creds>>

\* The lifecycle tools, or the guest, start and stop VMs; QEMU does not start on a disk
\* that a conversion has open.
Power ==
    \E v \in VMs :
       /\ vm[v] # None
       /\ \/ v \in running /\ running' = running \ {v}
          \/ /\ v \notin running
             /\ ~Locked([at |-> <<v[1], vm[v]>>, name |-> v[2]])
             /\ running' = running \cup {v}
       /\ UNCHANGED <<image, writers, converts, disk, vm, creds, pc, job>>

Step(t) ==
    \/ Submit(t) \/ Rsync(t) \/ Scp(t) \/ ScpEnds(t) \/ TransferFails(t)
    \/ Convert(t) \/ ConvertRefused(t) \/ ConvertEnds(t) \/ ConvertFails(t) \/ ConvertLost(t)
    \/ Remove(t) \/ Install(t) \/ InstallFails(t) \/ Save(t) \/ Cleanup(t) \/ VirtClone(t)
    \/ Return(t)

Next == OrphanEnds \/ Power \/ \E t \in Threads : Step(t)
Spec == Init /\ [][Next]_vars

-----------------------------------------------------------------------------
ImageStates == {"none", "part", "whole"}
DiskStates == {"none", "part", "whole", "bad"}
Conversions == [by : Threads \cup {None}, disk : Disks, reads : {"file", "copy", "torn"}]

TypeOK ==
    /\ image \in [Places -> ImageStates]
    /\ writers \in [Places -> SUBSET Threads]
    /\ converts \in SUBSET Conversions
    /\ disk \in [Disks -> DiskStates]
    /\ vm \in [VMs -> Dirs \cup {None}]
    /\ running \subseteq VMs
    /\ creds \in Names \cup {None}
    /\ pc \in [Threads -> Labels]
    /\ job \in [Threads -> Jobs]

OneConversion == \A c, e \in converts : c.disk = e.disk => c = e

\* Its disk is not complete, a worker waits for it or nobody does, and no VM runs on it.
ConversionOK(c) ==
    /\ disk[c.disk] = "part"
    /\ c.by # None => pc[c.by] = "converting" /\ c.disk = MyDisk(c.by)
    /\ vm[<<c.disk.at[1], c.disk.name>>] = c.disk.at[2]
          => <<c.disk.at[1], c.disk.name>> \notin running

WaitsAt(t) == pc[t] = "converting" => \E c \in converts : c.by = t

WriterOK(t, p) == pc[t] = "scp" /\ Destination(t) = p /\ image[p] = "part"

\* A disk has one conversion at a time, which is that of the worker that waits for it or
\* of nobody, and is never that of a VM that runs; only an scp that runs writes into an
\* image, which is then incomplete.
PipelineInv ==
    /\ TypeOK
    /\ OneConversion
    /\ \A c \in converts : ConversionOK(c)
    /\ \A t \in Threads : WaitsAt(t)
    /\ \A p \in Places : \A t \in writers[p] : WriterOK(t, p)
=============================================================================
