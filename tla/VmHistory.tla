------------------------------ MODULE VmHistory ------------------------------
(***************************************************************************)
(* VmLifecycle with two history variables, which no action reads: which    *)
(* calls nobody else has disturbed, and whether a create_vm took over the  *)
(* disk that a delete_vm is about to delete.  What a tool answers is       *)
(* judged by them.                                                         *)
(***************************************************************************)
EXTENDS VmLifecycle

VARIABLES
    alone,  \* calls during which only their own worker has changed the host
    raced   \* the present VM was made between the two halves of a delete_vm

hvars == <<vars, alone, raced>>

HInit == Init /\ alone = Threads /\ raced = FALSE

\* A guest that shuts down because the worker has asked it to is no disturbance.
Disturbs(t) == /\ host' # host
               /\ pc'[t] = pc[t]
               /\ ~(pc[t] = "wait" /\ dom' # None /\ dom'.state = "off")

Deleting == \E t \in Threads : pc[t] = "vol"

Remember ==
    /\ alone' = {t \in Threads : \/ pc[t] = "idle"
                                 \/ t \in alone /\ ~Disturbs(t)}
    /\ raced' = (dom' # None /\ (raced \/ (dom = None /\ Deleting)))

HNext == Next /\ Remember
HSpec == HInit /\ [][HNext]_hvars

-----------------------------------------------------------------------------
\* A defined VM has its disk.  delete_vm works on the name again after it has
\* undefined the VM: only a VM that was made right then can lose its disk to it.
VmHasDisk == dom # None /\ dom.kept => disk \/ raced

\* What makes it inductive: when a disk is about to be deleted, a defined VM is one
\* that took it over.
HInv == /\ VmHasDisk
        /\ Deleting /\ dom # None /\ dom.kept => raced

\* What each tool's positive answer says of the host.
Claim(t) ==
    CASE Tool(t) = "create_vm" -> dom # None /\ disk
      [] Tool(t) = "start_vm" -> dom # None /\ dom.state = "running"
      [] Tool(t) = "force_stop_vm" -> ~Active
      [] Tool(t) = "delete_vm" -> dom # None => Active /\ ~dom.kept
      [] Tool(t) = "create_snapshot" -> snap # None
      [] Tool(t) = "delete_snapshot" -> snap = None
      [] Tool(t) = "revert_snapshot" ->
            IF Option(t, "start_after_revert") THEN dom.state = "running"
            ELSE dom # None /\ dom.state = snap
      [] Tool(t) = "create_golden_image" ->
            /\ image
            /\ Option(t, "restart_after") /\ was[t] => Active
      [] OTHER -> TRUE

\* An undisturbed call answers the truth: the tools look at the VM once, act on it
\* in several library calls, and answer from what they remember.
AnswersHold ==
    \A t \in alone : pc[t] = "replyOk" => Claim(t)
-----------------------------------------------------------------------------
(* What makes AnswersHold inductive *)

\* The tools whose calls reach a label.
Reaching(label) ==
    CASE label = "install" -> {"create_vm"}
      [] label = "state" -> {"start_vm", "stop_vm", "delete_vm", "revert_snapshot"}
      [] label = "start" -> {"start_vm", "revert_snapshot", "create_golden_image"}
      [] label = "shutdown" -> {"stop_vm", "create_golden_image"}
      [] label = "destroy" -> {"force_stop_vm", "delete_vm", "revert_snapshot",
                               "create_golden_image"}
      [] label = "reboot" -> {"reboot_vm"}
      [] label \in {"undefine", "vol"} -> {"delete_vm"}
      [] label = "snapshot" -> {"create_snapshot"}
      [] label = "dropSnapshot" -> {"delete_snapshot"}
      [] label = "revert" -> {"revert_snapshot"}
      [] label \in {"active", "wait", "convert", "converting"} -> {"create_golden_image"}
      [] label = "lookup" -> Tools \ {"create_vm"}
      [] OTHER -> Tools

RouteOK == \A t \in Threads : Tool(t) \in Reaching(pc[t])

\* What a call has done so far holds as long as nobody disturbs it: the VM it has
\* undefined, the image it has written and the start its caller asked for.
SoFar(t) ==
    /\ pc[t] = "vol" => (dom # None => Active /\ ~dom.kept)
    /\ pc[t] = "start" /\ Tool(t) = "create_golden_image" => image
    /\ pc[t] = "start" /\ Tool(t) = "revert_snapshot" => Option(t, "start_after_revert")
    /\ pc[t] = "replyOk" => Claim(t)

AnswerInv == RouteOK /\ \A t \in alone : SoFar(t)
=============================================================================
