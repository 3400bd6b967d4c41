----------------------------- MODULE VmLifecycle -----------------------------
(***************************************************************************)
(* The tools of the libvirt server that change one virtual machine         *)
(* (tools/lifecycle.py, tools/snapshots.py) and that make an image of it   *)
(* (tools/storage.py, create_golden_image), called concurrently.           *)
(*                                                                         *)
(* A tool is a series of library calls on a domain object; the hypervisor  *)
(* executes each at once, and anything may happen between two of them.     *)
(* libvirt, QEMU and virt-install are external: `dom` is the VM of one     *)
(* name, as libvirt has it, with one disk.  QEMU locks a disk image, so a  *)
(* VM that has its disk open and a qemu-img that reads it exclude one      *)
(* another.  A domain object names the VM by its UUID: after a delete_vm   *)
(* and a create_vm of the same name, older objects are refused.  Managed   *)
(* save images, and snapshots that move the disk to an overlay, are among  *)
(* the reasons for which a library call may fail (`Faults`).               *)
(***************************************************************************)
EXTENDS Workers, Naturals, FiniteSets

CONSTANTS
    Uuids,    \* identities of VMs of the name, reused when nobody refers to them
    Tries,    \* how often create_golden_image looks for the shutdown (60)
    Uefi,     \* callers make VMs with UEFI firmware, too
    Faults    \* library calls may fail for reasons of the host's own

ASSUME ParameterAssumption ==
    Tries \in Nat \ {0} /\ Uefi \in BOOLEAN /\ Faults \in BOOLEAN

States == {"off", "running", "paused"}

\* A transient VM (not `kept`) was undefined while active: it ends when it stops.
Domains == [uuid : Uuids, state : States, kept : BOOLEAN,
            nvram : BOOLEAN]    \* it has UEFI variables

ASSUME NoneAssumption == None \notin Uuids \cup Domains \cup States

VARIABLES
    dom,      \* the VM of the name, or None
    disk,     \* its disk image file exists
    snap,     \* the state its snapshot was taken in, or None
    image,    \* the golden image is complete
    imaging,  \* the worker whose qemu-img reads the disk, or None
    call,     \* the tool call a worker runs
    obj,      \* the UUID in the worker's domain object, or None
    was,      \* the worker saw the VM active (was_running)
    tries     \* times the worker has looked for the shutdown

host == <<dom, disk, snap, image, imaging>>
local == <<call, was, tries>>
vars == <<dom, disk, snap, image, imaging, pc, call, obj, was, tries>>

\* A tool's boolean arguments are the options a call may set.
Options == [create_vm |-> IF Uefi THEN {"uefi"} ELSE {}, start_vm |-> {}, stop_vm |-> {},
            force_stop_vm |-> {}, reboot_vm |-> {}, delete_vm |-> {"delete_disk"},
            create_snapshot |-> {"disk_only"}, delete_snapshot |-> {},
            revert_snapshot |-> {"start_after_revert"},
            create_golden_image |-> {"stop_vm_first", "restart_after"}]
Tools == DOMAIN Options
Calls == [tool : Tools, opts : SUBSET UNION {Options[tool] : tool \in Tools}]

Labels == {"idle", "install", "lookup", "state", "start", "shutdown", "destroy",
           "reboot", "undefine", "vol", "snapshot", "dropSnapshot", "revert",
           "active", "wait", "convert", "converting", "replyOk", "replyError"}

Tool(t) == call[t].tool
Option(t, o) == o \in call[t].opts

-----------------------------------------------------------------------------
(* libvirt and QEMU *)

Active == dom # None /\ dom.state # "off"

\* The worker's domain object still names a VM.
Valid(t) == dom # None /\ obj[t] = dom.uuid

WithState(s) == [uuid |-> dom.uuid, state |-> s, kept |-> dom.kept, nvram |-> dom.nvram]
Defined(u, efi) == [uuid |-> u, state |-> "running", kept |-> TRUE, nvram |-> efi]

\* The VM stops; a transient one is gone, and its snapshots with it.
Stops ==
    IF dom.kept THEN dom' = WithState("off") /\ UNCHANGED snap
    ELSE dom' = None /\ snap' = None

\* A library call that should succeed if `ok` raises: the tool ends here, whatever
\* it has done so far.
Raises(t, ok) ==
    /\ ok => Faults
    /\ Goto(t, "replyError")
    /\ UNCHANGED <<host, obj, local>>

Fresh(u) == (dom # None => dom.uuid # u) /\ \A t \in Threads : obj[t] # u

-----------------------------------------------------------------------------
Init ==
    /\ \E u \in Uuids, efi \in {FALSE, Uefi} :
          dom \in {None, Defined(u, efi)}
    /\ disk = (dom # None)
    /\ snap = None
    /\ image = FALSE
    /\ imaging = None
    /\ pc = [t \in Threads |-> "idle"]
    /\ call = [t \in Threads |-> [tool |-> "start_vm", opts |-> {}]]
    /\ obj = [t \in Threads |-> None]
    /\ was = [t \in Threads |-> FALSE]
    /\ tries = [t \in Threads |-> 0]

Submit(t) ==
    /\ pc[t] = "idle"
    /\ \E tool \in Tools : \E opts \in SUBSET Options[tool] :
          /\ call' = [call EXCEPT ![t] = [tool |-> tool, opts |-> opts]]
          /\ Goto(t, IF tool = "create_vm" THEN "install" ELSE "lookup")
    /\ UNCHANGED <<host, obj, was, tries>>

-----------------------------------------------------------------------------
(* create_vm: one virt-install, killed after 120 s *)

Install(t) ==
    /\ pc[t] = "install"
    /\ \/ Raises(t, dom = None /\ imaging = None)
       \/ /\ dom = None                 \* it fails after it has made the disk
          /\ disk' = TRUE
          /\ Goto(t, "replyError")
          /\ UNCHANGED <<dom, snap, image, imaging, obj, local>>
       \/ /\ dom = None                 \* an existing disk is used as it is
          /\ imaging = None
          /\ \E u \in Uuids : Fresh(u) /\ dom' = Defined(u, Option(t, "uefi"))
          /\ disk' = TRUE
          /\ \/ Goto(t, "replyOk")
             \/ Faults /\ Goto(t, "replyError")
          /\ UNCHANGED <<snap, image, imaging, obj, local>>

-----------------------------------------------------------------------------
(* Looking the domain up, and its state *)

Begin(tool) ==
    CASE tool \in {"start_vm", "stop_vm", "delete_vm", "revert_snapshot"} -> "state"
      [] tool = "force_stop_vm" -> "destroy"
      [] tool = "reboot_vm" -> "reboot"
      [] tool = "create_snapshot" -> "snapshot"
      [] tool = "delete_snapshot" -> "dropSnapshot"
      [] OTHER -> "active"

\* get_connection, lookupByName and, where the tool needs it, the snapshot's or
\* the disk's lookup (and mkdir for the image).
Found(t) == /\ dom # None
            /\ Tool(t) \in {"revert_snapshot", "delete_snapshot"} => snap # None

Lookup(t) ==
    /\ pc[t] = "lookup"
    /\ \/ Raises(t, Found(t))
       \/ /\ Found(t)
          /\ obj' = [obj EXCEPT ![t] = dom.uuid]
          /\ Goto(t, Begin(Tool(t)))
          /\ UNCHANGED <<host, local>>

\* Faulty variant: every state but "off" passes for running.
DecideActive(tool, s) ==
    CASE tool = "start_vm" -> IF s # "off" THEN "replyOk" ELSE "start"
      [] tool = "stop_vm" -> IF s = "off" THEN "replyOk" ELSE "shutdown"
      [] tool = "delete_vm" -> IF s # "off" THEN "destroy" ELSE "undefine"
      [] OTHER -> IF s # "off" THEN "destroy" ELSE "revert"

\* What each tool does after domain.state().
Decide(tool, s) ==
    CASE tool = "start_vm" -> IF s = "running" THEN "replyOk" ELSE "start"
      [] tool = "stop_vm" -> IF s = "off" THEN "replyOk" ELSE "shutdown"
      [] tool = "delete_vm" -> IF s = "running" THEN "destroy" ELSE "undefine"
      [] OTHER -> IF s = "running" THEN "destroy" ELSE "revert"

ReadState(t) ==
    /\ pc[t] = "state"
    /\ \/ Raises(t, Valid(t))
       \/ /\ Valid(t)
          /\ was' = [was EXCEPT ![t] = dom.state = "running"]
          /\ Goto(t, Decide(Tool(t), dom.state))
          /\ UNCHANGED <<host, call, obj, tries>>

-----------------------------------------------------------------------------
(* One library call each *)

\* create(): start_vm, and the last step of revert and golden image.
Startable(t) == Valid(t) /\ dom.state = "off" /\ disk /\ imaging = None

Start(t) ==
    /\ pc[t] = "start"
    /\ \/ Raises(t, Startable(t))
       \/ /\ Startable(t)
          /\ dom' = WithState("running")
          /\ Goto(t, "replyOk")
          /\ UNCHANGED <<disk, snap, image, imaging, obj, local>>

\* shutdown() asks the guest and returns.
Shutdown(t) ==
    /\ pc[t] = "shutdown"
    /\ \/ Raises(t, Valid(t) /\ Active)
       \/ /\ Valid(t) /\ Active
          /\ Goto(t, IF Tool(t) = "stop_vm" THEN "replyOk" ELSE "wait")
          /\ UNCHANGED <<host, obj, local>>

Reboot(t) ==
    /\ pc[t] = "reboot"
    /\ \/ Raises(t, Valid(t) /\ Active)
       \/ /\ Valid(t) /\ Active
          /\ Goto(t, "replyOk")
          /\ UNCHANGED <<host, obj, local>>

\* destroy(): force_stop_vm, and the second step of delete, revert and image.
Destroy(t) ==
    /\ pc[t] = "destroy"
    /\ \/ Raises(t, Valid(t) /\ Active)
       \/ /\ Valid(t) /\ Active
          /\ Stops
          /\ Goto(t, CASE Tool(t) = "force_stop_vm" -> "replyOk"
                       [] Tool(t) = "delete_vm" -> "undefine"
                       [] Tool(t) = "revert_snapshot" -> "revert"
                       [] OTHER -> "convert")
          /\ UNCHANGED <<disk, image, imaging, obj, local>>

-----------------------------------------------------------------------------
(* delete_vm *)

\* libvirt refuses a VM with UEFI variables unless a flag says what to do with them.
Undefinable(t) == Valid(t) /\ dom.kept /\ ~dom.nvram

\* A stopped VM is gone, and its snapshots with it; an active one goes when it stops.
Undefines ==
    IF Active
    THEN /\ dom' = [uuid |-> dom.uuid, state |-> dom.state,
                    kept |-> FALSE, nvram |-> FALSE]
         /\ UNCHANGED snap
    ELSE dom' = None /\ snap' = None

\* Faulty variant: the disk is deleted before the VM is undefined.
UndefineAfterDisk(t) ==
    /\ pc[t] = "undefine"
    /\ disk' = (disk /\ ~Option(t, "delete_disk"))
    /\ \/ ~Undefinable(t) /\ Goto(t, "replyError") /\ UNCHANGED <<dom, snap>>
       \/ Undefinable(t) /\ Undefines /\ Goto(t, "replyOk")
    /\ UNCHANGED <<image, imaging, obj, local>>

Undefine(t) ==
    /\ pc[t] = "undefine"
    /\ \/ Raises(t, Undefinable(t))
       \/ /\ Undefinable(t)
          /\ Undefines
          /\ Goto(t, IF Option(t, "delete_disk") THEN "vol" ELSE "replyOk")
          /\ UNCHANGED <<disk, image, imaging, obj, local>>

\* The path may be no volume of a pool: then the file stays, and the answer says so.
DeleteVolume(t) ==
    /\ pc[t] = "vol"
    /\ disk' \in {FALSE, disk}
    /\ Goto(t, "replyOk")
    /\ UNCHANGED <<dom, snap, image, imaging, obj, local>>

-----------------------------------------------------------------------------
(* Snapshots.  A stopped VM's are made and removed by qemu-img, in its disk. *)

DiskFree == dom.state = "off" => disk /\ imaging = None

\* One snapshot name: a second snapshot of the name is refused.
SnapshotCreate(t) ==
    LET ok == Valid(t) /\ snap = None /\ DiskFree IN
    /\ pc[t] = "snapshot"
    /\ \/ Raises(t, ok)
       \/ /\ ok
          /\ snap' = IF Option(t, "disk_only") THEN "off" ELSE dom.state
          /\ Goto(t, "replyOk")
          /\ UNCHANGED <<dom, disk, image, imaging, obj, local>>

SnapshotDrop(t) ==
    LET ok == Valid(t) /\ snap # None /\ DiskFree IN
    /\ pc[t] = "dropSnapshot"
    /\ \/ Raises(t, ok)
       \/ /\ ok
          /\ snap' = None
          /\ Goto(t, "replyOk")
          /\ UNCHANGED <<dom, disk, image, imaging, obj, local>>

\* The VM returns to the state the snapshot was taken in.  A transient VM cannot
\* return to a stopped one.
Revertible(t) == /\ Valid(t) /\ snap # None /\ disk /\ imaging = None
                 /\ snap = "off" => dom.kept

Revert(t) ==
    /\ pc[t] = "revert"
    /\ \/ Raises(t, Revertible(t))
       \/ /\ Revertible(t)
          /\ dom' = WithState(snap)
          /\ Goto(t, IF Option(t, "start_after_revert") THEN "start" ELSE "replyOk")
          /\ UNCHANGED <<disk, snap, image, imaging, obj, local>>

-----------------------------------------------------------------------------
(* create_golden_image *)

LooksActive(t) ==
    /\ pc[t] = "active"
    /\ \/ Raises(t, Valid(t))
       \/ /\ Valid(t)
          /\ was' = [was EXCEPT ![t] = Active]
          /\ Goto(t, IF Option(t, "stop_vm_first") /\ Active THEN "shutdown"
                     ELSE "convert")
          /\ UNCHANGED <<host, call, obj, tries>>

\* Faulty variant: one look too many.
WaitOnceMore(t) ==
    /\ pc[t] = "wait"
    /\ \/ Raises(t, Valid(t))
       \/ /\ Valid(t)
          /\ tries' = [tries EXCEPT ![t] = IF Active THEN @ + 1 ELSE @]
          /\ Goto(t, IF ~Active THEN "convert"
                     ELSE IF tries[t] = Tries THEN "destroy" ELSE "wait")
          /\ UNCHANGED <<host, call, obj, was>>

\* One look every two seconds; after the last the VM is destroyed.
Wait(t) ==
    /\ pc[t] = "wait"
    /\ \/ Raises(t, Valid(t))
       \/ /\ Valid(t) /\ ~Active
          /\ Goto(t, "convert")
          /\ UNCHANGED <<host, obj, local>>
       \/ /\ Valid(t) /\ Active
          /\ tries' = [tries EXCEPT ![t] = @ + 1]
          /\ Goto(t, IF tries[t] + 1 = Tries THEN "destroy" ELSE "wait")
          /\ UNCHANGED <<host, call, obj, was>>

\* qemu-img convert opens the disk, which a VM may have locked, and truncates the
\* image, which another qemu-img may be writing.  It works on paths, not on the VM.
ConvertBegin(t) ==
    LET ok == disk /\ ~Active /\ imaging = None IN
    /\ pc[t] = "convert"
    /\ \/ Raises(t, ok)
       \/ /\ ok
          /\ image' = FALSE
          /\ imaging' = t
          /\ Goto(t, "converting")
          /\ UNCHANGED <<dom, disk, snap, obj, local>>

\* It may run out of space or of its 600 s; the file it was writing stays.  The
\* stat after it may run out of its 30 s.
ConvertEnd(t) ==
    /\ pc[t] = "converting"
    /\ imaging' = None
    /\ \/ image' = TRUE /\ Goto(t, IF Option(t, "restart_after") /\ was[t] THEN "start"
                                      ELSE "replyOk")
       \/ image' \in BOOLEAN /\ Goto(t, "replyError")
    /\ UNCHANGED <<dom, disk, snap, obj, local>>

Return(t) ==
    /\ pc[t] \in {"replyOk", "replyError"}
    /\ Goto(t, "idle")
    /\ call' = [call EXCEPT ![t] = [tool |-> "start_vm", opts |-> {}]]
    /\ obj' = [obj EXCEPT ![t] = None]
    /\ was' = [was EXCEPT ![t] = FALSE]
    /\ tries' = [tries EXCEPT ![t] = 0]
    /\ UNCHANGED host

-----------------------------------------------------------------------------
(* What the VM does by itself *)

\* The guest shuts down, as asked or on its own, or QEMU crashes.
GuestOff ==
    /\ Active
    /\ Stops
    /\ UNCHANGED <<disk, image, imaging, pc, obj, local>>

\* QEMU pauses the VM on an I/O error.
Pause ==
    /\ Active /\ dom.state = "running"
    /\ dom' = WithState("paused")
    /\ UNCHANGED <<disk, snap, image, imaging, pc, obj, local>>

Step(t) ==
    \/ Install(t) \/ Lookup(t) \/ ReadState(t)
    \/ Start(t) \/ Shutdown(t) \/ Reboot(t) \/ Destroy(t)
    \/ Undefine(t) \/ DeleteVolume(t)
    \/ SnapshotCreate(t) \/ SnapshotDrop(t) \/ Revert(t)
    \/ LooksActive(t) \/ Wait(t) \/ ConvertBegin(t) \/ ConvertEnd(t)
    \/ Return(t)

Next == GuestOff \/ Pause \/ \E t \in Threads : Submit(t) \/ Step(t)

Spec == Init /\ [][Next]_vars

-----------------------------------------------------------------------------
TypeOK ==
    /\ dom \in Domains \cup {None}
    /\ disk \in BOOLEAN
    /\ snap \in States \cup {None}
    /\ image \in BOOLEAN
    /\ imaging \in Threads \cup {None}
    /\ pc \in [Threads -> Labels]
    /\ call \in [Threads -> Calls]
    /\ obj \in [Threads -> Uuids \cup {None}]
    /\ was \in [Threads -> BOOLEAN]
    /\ tries \in [Threads -> 0..Tries]

-----------------------------------------------------------------------------
(* What the tools must keep *)

\* The disk is deleted only after the VM it was deleted for is no longer defined:
\* delete_vm, whose undefine libvirt may refuse, never leaves a VM without a disk.
DiskOutlivesVm ==
    [][\A t \in Threads :
          disk /\ ~disk' /\ pc'[t] # pc[t] => ~(Valid(t) /\ dom.kept)]_vars

-----------------------------------------------------------------------------
(* The facts that make them inductive *)

\* The shutdown is looked for at most `Tries` times.  A worker that deletes the disk
\* has a domain object of a VM that is no longer defined, whatever was made since.
StageOK ==
    \A t \in Threads :
        /\ pc[t] = "wait" => tries[t] < Tries
        /\ pc[t] \in {"idle", "install", "lookup", "state", "active", "shutdown"}
              => tries[t] = 0
        /\ pc[t] = "vol" => ~(Valid(t) /\ dom.kept)

IndInv == TypeOK /\ StageOK
=============================================================================
