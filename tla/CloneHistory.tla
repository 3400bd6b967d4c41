---------------------------- MODULE CloneHistory ----------------------------
(***************************************************************************)
(* ClonePipeline with what its answers are judged by: the calls nobody     *)
(* else has disturbed, the disks that one call has taken from another, and *)
(* the places scp has written to.                                          *)
(***************************************************************************)
EXTENDS ClonePipeline

VARIABLES alone, taken, scped

hvars == <<vars, alone, taken, scped>>
target == <<image, writers, converts, disk, vm>>

\* Nothing is under way on the hosts.
Quiet == converts = {} /\ \A p \in Places : writers[p] = {}

HInit == Init /\ alone = Threads /\ taken = {} /\ scped = {}

DiskOf(v) == [at |-> <<v[1], vm[v]>>, name |-> v[2]]

\* A complete disk that is overwritten while a VM has it, or another call is about to
\* define one.
Taken(actor) ==
    {d \in Disks :
        /\ disk[d] \in {"whole", "bad"} /\ disk'[d] # disk[d]
        /\ \/ \E v \in VMs : vm[v] # None /\ DiskOf(v) = d
           \/ \E u \in Threads \ {actor} : pc[u] \in {"remove", "install"} /\ MyDisk(u) = d}

\* `actor` is the worker that acts, or None.
Remember(actor) ==
    /\ alone' = {t \in Threads : \/ pc'[t] = "idle"
                                 \/ /\ t \in alone
                                    /\ t = actor \/ target' = target
                                    /\ pc[t] = "idle" => Quiet}
    /\ taken' = taken \cup Taken(actor)
    /\ scped' = scped \cup {p \in Places : writers'[p] # {}}

HNext == \/ (OrphanEnds \/ Power) /\ Remember(None)
         \/ \E t \in Threads : Step(t) /\ Remember(t)
HSpec == HInit /\ [][HNext]_hvars

-----------------------------------------------------------------------------
\* A VM that is defined has a disk that was written to its end, through failed and lost
\* conversions, unless another call for the same name has overwritten it.
VmHasDisk ==
    \A v \in VMs : vm[v] # None /\ DiskOf(v) \notin taken => disk[DiskOf(v)] \in {"whole", "bad"}

\* No clone reads an image that changes under it or was cut short, unless scp has written
\* to that place: rsync never does that to a clone in progress.
BadFromScp == \A d \in Disks : disk[d] = "bad" => d.at \in scped

\* The call transfers the image to where it converts it.
Transfers(t) == \/ job[t].tool \in {"remote", "template"} /\ ~job[t].skip
                \/ job[t].tool = "all" /\ job[t].dir = SourceDir

\* A call nobody disturbs finds the image when it converts it, for every VM of a batch and
\* whatever became of those before, and its disk when it defines the VM.
InputsReady ==
    \A t \in alone :
       Transfers(t) => /\ pc[t] = "convert" => image[Here(t)] = "whole"
                       /\ pc[t] \in {"remove", "install"} => disk[MyDisk(t)] = "whole"

\* What the answers say: the VM is there, an image that nobody disturbed is whole, and
\* saved credentials are those of a VM that was made.
AnswersHold ==
    /\ \A t \in Threads : pc[t] = "ok" =>
          /\ job[t].tool \in {"local", "remote", "template"} => vm[MyVm(t)] # None
          /\ job[t].tool = "image" /\ t \in alone => image[Here(t)] = "whole"
    /\ creds # None => \E h \in Hosts : vm[<<h, creds>>] # None

-----------------------------------------------------------------------------
(* What makes them inductive *)

\* A worker is only where its tool leads, and has defined its VM when it says so.
RouteAt(t) ==
    /\ pc[t] = "virtclone" => job[t].tool = "local"
    /\ pc[t] \in {"rsync", "scp"} => job[t].tool # "local"
    /\ pc[t] \in {"convert", "converting", "remove", "install"}
          => job[t].tool \in {"remote", "template", "all"}
    /\ pc[t] = "save" => job[t].tool = "template" /\ vm[MyVm(t)] # None
    /\ pc[t] = "cleanup" => job[t].tool = "all"
    /\ job[t].tool = "all" => job[t].keep
    /\ pc[t] = "ok" /\ job[t].tool \in {"local", "remote", "template"} => vm[MyVm(t)] # None

\* A worker that is about to define a VM has its disk, unless another call took it.
DiskReadyAt(t) ==
    pc[t] \in {"remove", "install"} =>
        disk[MyDisk(t)] \in {"whole", "bad"} \/ MyDisk(t) \in taken

\* Only where scp has written is an image cut short or a conversion misled.
TornFromScp == /\ \A p \in Places : image[p] = "part" => p \in scped
               /\ \A c \in converts : c.reads = "torn" => c.disk.at \in scped

\* What a call that nobody disturbs finds on its hosts.
FindsAt(t) ==
    /\ pc[t] # "idle" => \A p \in Places : writers[p] \subseteq {t}
    /\ pc[t] = "scp" => t \in writers[Destination(t)]
    /\ pc[t] = "ok" /\ job[t].tool = "image" => image[Here(t)] = "whole"
    /\ Transfers(t) =>
          /\ pc[t] = "convert" => image[Here(t)] = "whole"
          /\ pc[t] \in {"converting", "remove", "install"} /\ job[t].tool = "all"
                => image[Here(t)] = "whole"
          /\ pc[t] = "converting" => \A c \in converts : c.by = t => c.reads # "torn"
          /\ pc[t] \in {"remove", "install"} => disk[MyDisk(t)] = "whole"

HInv ==
    /\ PipelineInv
    /\ \A t \in Threads : RouteAt(t) /\ DiskReadyAt(t)
    /\ VmHasDisk
    /\ TornFromScp /\ BadFromScp
    /\ \A t \in alone : FindsAt(t)
    /\ creds # None => \E h \in Hosts : vm[<<h, creds>>] # None

-----------------------------------------------------------------------------
\* The tool table says of clone_to_all_hosts: "Clone golden image to multiple remote hosts
\* creating N VMs per host."  Once the image is on a host, the VMs find it.
BatchFindsImage ==
    \A t \in alone : job[t].tool = "all" /\ pc[t] = "convert" => image[Here(t)] = "whole"
=============================================================================
