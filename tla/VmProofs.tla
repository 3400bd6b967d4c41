------------------------------ MODULE VmProofs ------------------------------
(***************************************************************************)
(* Proofs about VmLifecycle and VmHistory for any number of workers and    *)
(* looks for the shutdown: the type invariant, that delete_vm deletes no   *)
(* disk of the VM it was asked to delete while that VM is defined, that a  *)
(* defined VM has its disk, and that undisturbed answers are true.         *)
(***************************************************************************)
EXTENDS VmHistory, TLAPS

\* Changing the state of the VM keeps it a VM.
LEMMA WithStateType ==
    ASSUME TypeOK, dom # None, NEW s \in States
    PROVE  /\ WithState(s) \in Domains
           /\ WithState(s).uuid = dom.uuid
           /\ WithState(s).kept = dom.kept
           /\ WithState(s).state = s
BY DEF TypeOK, WithState, Domains

\* Where a tool goes is one of the labels.
LEMMA LabelType ==
    /\ \A tool : Begin(tool) \in Labels /\ Begin(tool) \notin {"wait", "vol", "shutdown"}
    /\ \A tool, s : Decide(tool, s) \in Labels /\ Decide(tool, s) \notin {"wait", "vol"}
BY DEF Begin, Decide, Labels

\* A VM that virt-install makes is a VM.
LEMMA DefinedType ==
    ASSUME NEW u \in Uuids, NEW efi \in BOOLEAN
    PROVE  Defined(u, efi) \in Domains /\ Defined(u, efi) # None
<1>1. Defined(u, efi) \in Domains
  BY DEF Defined, Domains, States
<1> QED BY <1>1, NoneAssumption

LEMMA InitInv == Init => IndInv
<1> SUFFICES ASSUME Init PROVE IndInv
  OBVIOUS
<1>1. dom \in Domains \cup {None}
  <2>1. PICK u \in Uuids, efi \in {FALSE, Uefi} : dom \in {None, Defined(u, efi)}
    BY DEF Init
  <2>2. efi \in BOOLEAN
    BY ParameterAssumption
  <2> QED BY <2>1, <2>2, DefinedType
<1>2. call \in [Threads -> Calls]
  <2>1. [tool |-> "start_vm", opts |-> {}] \in Calls
    BY DEF Calls, Tools, Options
  <2> QED BY <2>1 DEF Init
<1>3. TypeOK
  <2>1. disk \in BOOLEAN
    BY DEF Init
  <2>2. tries \in [Threads -> 0..Tries]
    BY ParameterAssumption DEF Init
  <2>3. pc \in [Threads -> Labels]
    BY DEF Init, Labels
  <2>4. was \in [Threads -> BOOLEAN]
    BY DEF Init
  <2> QED BY <1>1, <1>2, <2>1, <2>2, <2>3, <2>4 DEF Init, TypeOK
<1>4. StageOK
  BY DEF Init, StageOK
<1> QED BY <1>3, <1>4 DEF IndInv

-----------------------------------------------------------------------------
(* The type invariant, action by action *)

\* Every action keeps the types.
LEMMA TypeStep ==
    ASSUME IndInv, Next
    PROVE  TypeOK'
<1> USE DEF host, local
<1>t. TypeOK /\ StageOK
  BY DEF IndInv
<1>1. CASE GuestOff
  <2>1. dom' \in Domains \cup {None} /\ snap' \in States \cup {None}
    BY <1>1, <1>t, WithStateType DEF GuestOff, Stops, Active, States, TypeOK
  <2> QED BY <1>1, <1>t, <2>1 DEF GuestOff, TypeOK
<1>2. CASE Pause
  <2>1. dom' \in Domains
    BY <1>2, <1>t, WithStateType DEF Pause, Active, States
  <2> QED BY <1>2, <1>t, <2>1 DEF Pause, TypeOK
<1>3. ASSUME NEW t \in Threads, Submit(t) PROVE TypeOK'
  <2>0. PICK tool \in Tools : \E opts \in SUBSET Options[tool] :
           /\ call' = [call EXCEPT ![t] = [tool |-> tool, opts |-> opts]]
           /\ Goto(t, IF tool = "create_vm" THEN "install" ELSE "lookup")
    BY <1>3 DEF Submit
  <2>1. PICK opts \in SUBSET Options[tool] :
           /\ call' = [call EXCEPT ![t] = [tool |-> tool, opts |-> opts]]
           /\ Goto(t, IF tool = "create_vm" THEN "install" ELSE "lookup")
    BY <2>0
  <2>2. [tool |-> tool, opts |-> opts] \in Calls
    BY DEF Calls, Tools
  <2>3. call' \in [Threads -> Calls]
    BY <1>t, <2>1, <2>2 DEF TypeOK
  <2>4. pc' \in [Threads -> Labels]
    BY <1>t, <2>1 DEF TypeOK, Goto, Labels
  <2> QED BY <1>3, <1>t, <2>3, <2>4 DEF Submit, TypeOK
<1>4. ASSUME NEW t \in Threads, Step(t) PROVE TypeOK'
  <2>r. ASSUME NEW ok, Raises(t, ok) PROVE TypeOK'
    BY <2>r, <1>t DEF Raises, Goto, Labels, TypeOK
  <2>1. CASE Install(t)
    <3>1. CASE /\ dom = None
               /\ disk' = TRUE
               /\ Goto(t, "replyError")
               /\ UNCHANGED <<dom, snap, image, imaging, obj, local>>
      BY <3>1, <1>t DEF Goto, Labels, TypeOK
    <3>2. CASE /\ dom = None
               /\ imaging = None
               /\ \E u \in Uuids : Fresh(u) /\ dom' = Defined(u, Option(t, "uefi"))
               /\ disk' = TRUE
               /\ \/ Goto(t, "replyOk")
                  \/ Faults /\ Goto(t, "replyError")
               /\ UNCHANGED <<snap, image, imaging, obj, local>>
      <4>1. Option(t, "uefi") \in BOOLEAN
        BY DEF Option
      <4>2. dom' \in Domains
        BY <3>2, <4>1, DefinedType
      <4>3. pc' \in [Threads -> Labels]
        BY <3>2, <1>t DEF Goto, Labels, TypeOK
      <4> QED BY <3>2, <4>2, <4>3, <1>t DEF TypeOK
    <3> QED BY <2>1, <2>r, <3>1, <3>2 DEF Install
  <2>2. CASE Lookup(t)
    <3>1. CASE /\ Found(t)
               /\ obj' = [obj EXCEPT ![t] = dom.uuid]
               /\ Goto(t, Begin(Tool(t)))
               /\ UNCHANGED <<host, local>>
      <4>1. dom.uuid \in Uuids
        BY <3>1, <1>t DEF Found, TypeOK, Domains
      <4>2. pc' \in [Threads -> Labels]
        BY <3>1, <1>t, LabelType DEF Goto, TypeOK
      <4> QED BY <3>1, <4>1, <4>2, <1>t DEF TypeOK
    <3> QED BY <2>2, <2>r, <3>1 DEF Lookup
  <2>3. CASE ReadState(t)
    <3>1. CASE /\ Valid(t)
               /\ was' = [was EXCEPT ![t] = dom.state = "running"]
               /\ Goto(t, Decide(Tool(t), dom.state))
               /\ UNCHANGED <<host, call, obj, tries>>
      <4>1. (dom.state = "running") \in BOOLEAN
        OBVIOUS
      <4>2. was' \in [Threads -> BOOLEAN]
        BY <3>1, <4>1, <1>t DEF TypeOK
      <4>3. pc' \in [Threads -> Labels]
        BY <3>1, <1>t, LabelType DEF Goto, TypeOK
      <4> QED BY <3>1, <4>2, <4>3, <1>t DEF TypeOK
    <3> QED BY <2>3, <2>r, <3>1 DEF ReadState
  <2>4. CASE Start(t)
    <3>1. CASE /\ Startable(t)
               /\ dom' = WithState("running")
               /\ Goto(t, "replyOk")
               /\ UNCHANGED <<disk, snap, image, imaging, obj, local>>
      <4>1. dom' \in Domains
        BY <3>1, <1>t, WithStateType DEF Startable, Valid, States
      <4> QED BY <3>1, <4>1, <1>t DEF Goto, Labels, TypeOK
    <3> QED BY <2>4, <2>r, <3>1 DEF Start
  <2>5. CASE Shutdown(t)
    <3>1. CASE /\ Valid(t) /\ Active
               /\ Goto(t, IF Tool(t) = "stop_vm" THEN "replyOk" ELSE "wait")
               /\ UNCHANGED <<host, obj, local>>
      BY <3>1, <1>t DEF Goto, Labels, TypeOK
    <3> QED BY <2>5, <2>r, <3>1 DEF Shutdown
  <2>6. CASE Reboot(t)
    <3>1. CASE /\ Valid(t) /\ Active
               /\ Goto(t, "replyOk")
               /\ UNCHANGED <<host, obj, local>>
      BY <3>1, <1>t DEF Goto, Labels, TypeOK
    <3> QED BY <2>6, <2>r, <3>1 DEF Reboot
  <2>7. CASE Destroy(t)
    <3>1. CASE /\ Valid(t) /\ Active
               /\ Stops
               /\ Goto(t, CASE Tool(t) = "force_stop_vm" -> "replyOk"
                            [] Tool(t) = "delete_vm" -> "undefine"
                            [] Tool(t) = "revert_snapshot" -> "revert"
                            [] OTHER -> "convert")
               /\ UNCHANGED <<disk, image, imaging, obj, local>>
      <4>1. dom' \in Domains \cup {None} /\ snap' \in States \cup {None}
        BY <3>1, <1>t, WithStateType DEF Stops, Active, States, TypeOK
      <4>2. pc' \in [Threads -> Labels]
        BY <3>1, <1>t DEF Goto, Labels, TypeOK
      <4> QED BY <3>1, <4>1, <4>2, <1>t DEF TypeOK
    <3> QED BY <2>7, <2>r, <3>1 DEF Destroy
  <2>8. CASE Undefine(t)
    <3>1. CASE /\ Undefinable(t)
               /\ Undefines
               /\ Goto(t, IF Option(t, "delete_disk") THEN "vol" ELSE "replyOk")
               /\ UNCHANGED <<disk, image, imaging, obj, local>>
      <4>1. dom' \in Domains \cup {None} /\ snap' \in States \cup {None}
        <5>1. dom \in Domains
          BY <3>1, <1>t DEF Undefinable, Valid, TypeOK
        <5>2. [uuid |-> dom.uuid, state |-> dom.state,
               kept |-> FALSE, nvram |-> FALSE] \in Domains
          BY <5>1 DEF Domains
        <5> QED BY <3>1, <5>2, <1>t DEF Undefines, TypeOK
      <4>2. pc' \in [Threads -> Labels]
        BY <3>1, <1>t DEF Goto, Labels, TypeOK
      <4> QED BY <3>1, <4>1, <4>2, <1>t DEF TypeOK
    <3> QED BY <2>8, <2>r, <3>1 DEF Undefine
  <2>9. CASE DeleteVolume(t)
    BY <2>9, <1>t DEF DeleteVolume, Goto, Labels, TypeOK
  <2>10. CASE SnapshotCreate(t)
    <3>1. CASE /\ Valid(t) /\ snap = None /\ DiskFree
               /\ snap' = IF Option(t, "disk_only") THEN "off" ELSE dom.state
               /\ Goto(t, "replyOk")
               /\ UNCHANGED <<dom, disk, image, imaging, obj, local>>
      <4>1. snap' \in States
        BY <3>1, <1>t DEF Valid, TypeOK, Domains, States
      <4> QED BY <3>1, <4>1, <1>t DEF Goto, Labels, TypeOK
    <3> QED BY <2>10, <2>r, <3>1 DEF SnapshotCreate
  <2>11. CASE SnapshotDrop(t)
    <3>1. CASE /\ snap' = None
               /\ Goto(t, "replyOk")
               /\ UNCHANGED <<dom, disk, image, imaging, obj, local>>
      BY <3>1, <1>t DEF Goto, Labels, TypeOK
    <3> QED BY <2>11, <2>r, <3>1 DEF SnapshotDrop
  <2>12. CASE Revert(t)
    <3>1. CASE /\ Revertible(t)
               /\ dom' = WithState(snap)
               /\ Goto(t, IF Option(t, "start_after_revert") THEN "start" ELSE "replyOk")
               /\ UNCHANGED <<disk, snap, image, imaging, obj, local>>
      <4>1. snap \in States /\ dom # None
        BY <3>1, <1>t DEF Revertible, Valid, TypeOK
      <4>2. dom' \in Domains
        BY <3>1, <4>1, <1>t, WithStateType
      <4> QED BY <3>1, <4>2, <1>t DEF Goto, Labels, TypeOK
    <3> QED BY <2>12, <2>r, <3>1 DEF Revert
  <2>13. CASE LooksActive(t)
    <3>1. CASE /\ Valid(t)
               /\ was' = [was EXCEPT ![t] = Active]
               /\ Goto(t, IF Option(t, "stop_vm_first") /\ Active THEN "shutdown"
                          ELSE "convert")
               /\ UNCHANGED <<host, call, obj, tries>>
      <4>1. Active \in BOOLEAN
        BY DEF Active
      <4>2. was' \in [Threads -> BOOLEAN]
        BY <3>1, <4>1, <1>t DEF TypeOK
      <4>3. pc' \in [Threads -> Labels]
        BY <3>1, <1>t DEF Goto, Labels, TypeOK
      <4> QED BY <3>1, <4>2, <4>3, <1>t DEF TypeOK
    <3> QED BY <2>13, <2>r, <3>1 DEF LooksActive
  <2>14. CASE Wait(t)
    <3>1. CASE /\ Valid(t) /\ ~Active
               /\ Goto(t, "convert")
               /\ UNCHANGED <<host, obj, local>>
      BY <3>1, <1>t DEF Goto, Labels, TypeOK
    <3>2. CASE /\ Valid(t) /\ Active
               /\ tries' = [tries EXCEPT ![t] = @ + 1]
               /\ Goto(t, IF tries[t] + 1 = Tries THEN "destroy" ELSE "wait")
               /\ UNCHANGED <<host, call, obj, was>>
      <4>1. tries[t] \in 0..Tries /\ tries[t] < Tries
        BY <2>14, <1>t DEF Wait, StageOK, TypeOK
      <4>2. tries[t] + 1 \in 0..Tries
        BY <4>1, ParameterAssumption
      <4>3. pc' \in [Threads -> Labels]
        BY <3>2, <1>t DEF Goto, Labels, TypeOK
      <4>4. tries' \in [Threads -> 0..Tries]
        BY <3>2, <4>2, <1>t DEF TypeOK
      <4> QED BY <3>2, <4>3, <4>4, <1>t DEF TypeOK
    <3> QED BY <2>14, <2>r, <3>1, <3>2 DEF Wait
  <2>15. CASE ConvertBegin(t)
    <3>1. CASE /\ image' = FALSE
               /\ imaging' = t
               /\ Goto(t, "converting")
               /\ UNCHANGED <<dom, disk, snap, obj, local>>
      BY <3>1, <1>t DEF Goto, Labels, TypeOK
    <3> QED BY <2>15, <2>r, <3>1 DEF ConvertBegin
  <2>16. CASE ConvertEnd(t)
    <3>1. image' \in BOOLEAN
      BY <2>16 DEF ConvertEnd
    <3>2. pc' \in [Threads -> Labels]
      BY <2>16, <1>t DEF ConvertEnd, Goto, Labels, TypeOK
    <3> QED BY <2>16, <3>1, <3>2, <1>t DEF ConvertEnd, TypeOK
  <2>17. CASE Return(t)
    <3>1. [tool |-> "start_vm", opts |-> {}] \in Calls
      BY DEF Calls, Tools, Options
    <3>2. call' \in [Threads -> Calls]
      BY <2>17, <3>1, <1>t DEF Return, TypeOK
    <3>3. tries' \in [Threads -> 0..Tries]
      BY <2>17, <1>t, ParameterAssumption DEF Return, TypeOK
    <3> QED BY <2>17, <3>2, <3>3, <1>t DEF Return, Goto, Labels, TypeOK
  <2> QED BY <1>4, <2>1, <2>2, <2>3, <2>4, <2>5, <2>6, <2>7, <2>8, <2>9, <2>10,
             <2>11, <2>12, <2>13, <2>14, <2>15, <2>16, <2>17 DEF Step
<1> QED BY <1>1, <1>2, <1>3, <1>4 DEF Next
-----------------------------------------------------------------------------
(* The stages of a call *)

\* What a step of worker t does to the other workers' variables: nothing.
LEMMA OthersKeep ==
    ASSUME TypeOK, NEW t \in Threads, Step(t), NEW u \in Threads, u # t
    PROVE  pc'[u] = pc[u] /\ obj'[u] = obj[u] /\ tries'[u] = tries[u]
BY DEF TypeOK, Step, Goto, Raises, local,
       Install, Lookup, ReadState, Start, Shutdown, Reboot, Destroy, Undefine,
       DeleteVolume, SnapshotCreate, SnapshotDrop, Revert, LooksActive, Wait,
       ConvertBegin, ConvertEnd, Return

\* No action defines a VM again that is not defined, under a UUID somebody holds.
LEMMA StaysUndefined ==
    ASSUME IndInv, Next, NEW u \in Threads, obj'[u] = obj[u],
           ~(Valid(u) /\ dom.kept)
    PROVE  ~(Valid(u) /\ dom.kept)'
<1>t. TypeOK
  BY DEF IndInv
<1>0. CASE UNCHANGED dom
  BY <1>0 DEF Valid
<1>1. ASSUME NEW s \in States, dom # None, dom' = WithState(s)
      PROVE  ~(Valid(u) /\ dom.kept)'
  BY <1>1, <1>t, WithStateType, NoneAssumption DEF Valid
<1>2. CASE dom' = None
  BY <1>2 DEF Valid
<1>3. CASE Stops /\ Active
  <2>1. "off" \in States
    BY DEF States
  <2> QED BY <1>1, <1>2, <1>3, <2>1 DEF Stops, Active
<1>4. CASE GuestOff
  BY <1>3, <1>4 DEF GuestOff
<1>5. CASE Pause
  <2>1. "paused" \in States
    BY DEF States
  <2> QED BY <1>1, <1>5, <2>1 DEF Pause, Active
<1>6. ASSUME NEW t \in Threads, Submit(t) PROVE UNCHANGED dom
  BY <1>6 DEF Submit, host
<1>7. ASSUME NEW t \in Threads, Step(t) PROVE ~(Valid(u) /\ dom.kept)'
  <2>1. CASE Install(t)
    <3>1. CASE \E v \in Uuids : Fresh(v) /\ dom' = Defined(v, Option(t, "uefi"))
      BY <3>1 DEF Valid, Fresh, Defined
    <3> QED BY <1>0, <2>1, <3>1 DEF Install, Raises, host
  <2>2. CASE Start(t)
    <3>1. "running" \in States
      BY DEF States
    <3> QED BY <1>0, <1>1, <2>2, <3>1 DEF Start, Startable, Valid, Raises, host
  <2>3. CASE Destroy(t)
    BY <1>0, <1>3, <2>3 DEF Destroy, Raises, host
  <2>4. CASE Undefine(t)
    BY <1>0, <2>4 DEF Undefine, Undefines, Valid, Raises, host
  <2>5. CASE Revert(t)
    <3>1. CASE /\ Revertible(t)
               /\ dom' = WithState(snap)
      <4>1. snap \in States /\ dom # None
        BY <3>1, <1>t DEF Revertible, Valid, TypeOK
      <4> QED BY <1>1, <3>1, <4>1
    <3> QED BY <1>0, <2>5, <3>1 DEF Revert, Raises, host
  <2>6. CASE UNCHANGED dom
    BY <1>0, <2>6
  <2> QED BY <1>7, <2>1, <2>2, <2>3, <2>4, <2>5, <2>6
          DEF Step, Raises, host, Lookup, ReadState, Shutdown, Reboot, DeleteVolume,
              SnapshotCreate, SnapshotDrop, LooksActive, Wait, ConvertBegin,
              ConvertEnd, Return
<1> QED BY <1>0, <1>4, <1>5, <1>6, <1>7 DEF Next
\* What the worker that moves finds when it arrives at a guarded stage.
LEMMA MovedStage ==
    ASSUME IndInv, NEW t \in Threads, Step(t)
    PROVE  /\ pc'[t] = "wait" => tries'[t] < Tries
           /\ pc'[t] \in {"idle", "install", "lookup", "state", "active", "shutdown"}
                 => tries'[t] = 0
           /\ pc'[t] = "vol" => ~(Valid(t) /\ dom.kept)'
<1> USE DEF host, local
<1>t. TypeOK /\ StageOK
  BY DEF IndInv
<1>a. pc \in [Threads -> Labels] /\ tries[t] \in 0..Tries
  BY <1>t DEF TypeOK
<1>b. ASSUME NEW l, Goto(t, l) PROVE pc'[t] = l
  BY <1>a, <1>b DEF Goto
<1>r. ASSUME pc'[t] \in {"start", "destroy", "reboot", "undefine", "snapshot",
                         "dropSnapshot", "revert", "convert", "converting",
                         "replyOk", "replyError"}
      PROVE  /\ pc'[t] = "wait" => tries'[t] < Tries
             /\ pc'[t] \in {"idle", "install", "lookup", "state", "active", "shutdown"}
                   => tries'[t] = 0
             /\ pc'[t] = "vol" => ~(Valid(t) /\ dom.kept)'
  BY <1>r
<1>1. CASE Lookup(t)
  <2>1. tries'[t] = 0
    BY <1>1, <1>t DEF Lookup, Raises, StageOK
  <2>2. pc'[t] \notin {"wait", "vol"}
    <3>1. CASE Raises(t, Found(t))
      BY <1>b, <3>1 DEF Raises
    <3>2. CASE Goto(t, Begin(Tool(t)))
      BY <1>b, <3>2, LabelType
    <3> QED BY <1>1, <3>1, <3>2 DEF Lookup
  <2> QED BY <2>1, <2>2
<1>2. CASE ReadState(t)
  <2>1. tries'[t] = 0
    BY <1>2, <1>t DEF ReadState, Raises, StageOK
  <2>2. pc'[t] \notin {"wait", "vol"}
    <3>1. CASE Raises(t, Valid(t))
      BY <1>b, <3>1 DEF Raises
    <3>2. CASE Goto(t, Decide(Tool(t), dom.state))
      BY <1>b, <3>2, LabelType
    <3> QED BY <1>2, <3>1, <3>2 DEF ReadState
  <2> QED BY <2>1, <2>2
<1>3. CASE Shutdown(t)
  <2>1. tries'[t] = 0
    BY <1>3, <1>t DEF Shutdown, Raises, StageOK
  <2>2. pc'[t] # "vol"
    BY <1>3, <1>a DEF Shutdown, Raises, Goto
  <2> QED BY <2>1, <2>2, ParameterAssumption
<1>4. CASE LooksActive(t)
  <2>1. tries'[t] = 0
    BY <1>4, <1>t DEF LooksActive, Raises, StageOK
  <2>2. pc'[t] \notin {"wait", "vol"}
    BY <1>4, <1>a DEF LooksActive, Raises, Goto
  <2> QED BY <2>1, <2>2
<1>5. CASE Wait(t)
  <2>1. CASE /\ Valid(t) /\ Active
             /\ tries' = [tries EXCEPT ![t] = @ + 1]
             /\ Goto(t, IF tries[t] + 1 = Tries THEN "destroy" ELSE "wait")
             /\ UNCHANGED <<host, call, obj, was>>
    <3>1. tries[t] < Tries /\ tries'[t] = tries[t] + 1
      BY <1>5, <2>1, <1>t DEF Wait, StageOK, TypeOK
    <3>2. pc'[t] = IF tries[t] + 1 = Tries THEN "destroy" ELSE "wait"
      BY <1>b, <2>1
    <3> QED BY <3>1, <3>2, <1>a, ParameterAssumption
  <2>2. CASE pc'[t] \in {"convert", "replyError"}
    BY <1>r, <2>2
  <2> QED BY <1>5, <2>1, <2>2, <1>a DEF Wait, Raises, Goto
<1>6. CASE Undefine(t)
  <2>1. CASE Raises(t, Undefinable(t))
    BY <1>b, <1>r, <2>1 DEF Raises
  <2>2. CASE /\ Undefinable(t)
             /\ Undefines
             /\ Goto(t, IF Option(t, "delete_disk") THEN "vol" ELSE "replyOk")
    <3>1. pc'[t] \in {"vol", "replyOk"}
      BY <1>b, <2>2
    <3>2. ~(Valid(t) /\ dom.kept)'
      BY <2>2 DEF Undefines, Valid
    <3> QED BY <3>1, <3>2
  <2> QED BY <1>6, <2>1, <2>2 DEF Undefine
<1>7. CASE Return(t)
  <2>1. pc'[t] = "idle" /\ tries'[t] = 0
    BY <1>7, <1>a, <1>t DEF Return, Goto, TypeOK
  <2> QED BY <2>1
<1>8. CASE Install(t) \/ Start(t) \/ Reboot(t) \/ DeleteVolume(t)
           \/ SnapshotCreate(t) \/ SnapshotDrop(t) \/ Revert(t) \/ ConvertBegin(t)
           \/ ConvertEnd(t) \/ Destroy(t)
  <2>1. pc'[t] \in {"start", "replyOk", "replyError", "undefine", "revert",
                    "convert", "converting"}
    BY <1>8, <1>a DEF Install, Start, Reboot, DeleteVolume, SnapshotCreate,
       SnapshotDrop, Revert, ConvertBegin, ConvertEnd, Destroy, Raises, Goto
  <2> QED BY <2>1, <1>r
<1> QED BY <1>1, <1>2, <1>3, <1>4, <1>5, <1>6, <1>7, <1>8 DEF Step

LEMMA StageStep ==
    ASSUME IndInv, Next
    PROVE  StageOK'
<1>t. TypeOK /\ StageOK
  BY DEF IndInv
<1> SUFFICES ASSUME NEW u \in Threads
             PROVE  /\ pc'[u] = "wait" => tries'[u] < Tries
                    /\ pc'[u] \in {"idle", "install", "lookup", "state", "active",
                                   "shutdown"} => tries'[u] = 0
                    /\ pc'[u] = "vol" => ~(Valid(u) /\ dom.kept)'
  BY DEF StageOK
<1>1. ASSUME pc'[u] = pc[u], obj'[u] = obj[u], tries'[u] = tries[u]
      PROVE  /\ pc'[u] = "wait" => tries'[u] < Tries
             /\ pc'[u] \in {"idle", "install", "lookup", "state", "active",
                            "shutdown"} => tries'[u] = 0
             /\ pc'[u] = "vol" => ~(Valid(u) /\ dom.kept)'
  BY <1>1, <1>t, StaysUndefined DEF StageOK
<1>2. CASE GuestOff \/ Pause
  BY <1>1, <1>2 DEF GuestOff, Pause, local
<1>3. ASSUME NEW t \in Threads, Submit(t), t = u
      PROVE  pc'[u] \in {"install", "lookup"} /\ tries'[u] = 0
  <2>1. pc'[u] \in {"install", "lookup"}
    BY <1>3, <1>t DEF Submit, Goto, TypeOK
  <2>2. tries'[u] = 0
    BY <1>3, <1>t DEF Submit, StageOK
  <2> QED BY <2>1, <2>2
<1>4. ASSUME NEW t \in Threads, Submit(t), t # u
      PROVE  pc'[u] = pc[u] /\ obj'[u] = obj[u] /\ tries'[u] = tries[u]
  BY <1>4, <1>t DEF Submit, Goto, TypeOK
<1>5. ASSUME NEW t \in Threads, Step(t), t # u
      PROVE  pc'[u] = pc[u] /\ obj'[u] = obj[u] /\ tries'[u] = tries[u]
  BY <1>5, <1>t, OthersKeep
<1>6. CASE \E t \in Threads : Submit(t)
  <2>1. PICK t \in Threads : Submit(t)
    BY <1>6
  <2>2. CASE t = u
    <3>1. pc'[u] \in {"install", "lookup"} /\ tries'[u] = 0
      BY <1>3, <2>1, <2>2
    <3> QED BY <3>1
  <2>3. CASE t # u
    BY <1>1, <1>4, <2>1, <2>3
  <2> QED BY <2>2, <2>3
<1>7. CASE \E t \in Threads : Step(t)
  <2>1. PICK t \in Threads : Step(t)
    BY <1>7
  <2>2. CASE t = u
    BY <2>1, <2>2, MovedStage
  <2>3. CASE t # u
    BY <1>1, <1>5, <2>1, <2>3
  <2> QED BY <2>2, <2>3
<1> QED BY <1>2, <1>6, <1>7 DEF Next

\* IndInv holds in every reachable state, for any number of workers.
THEOREM Invariance == Spec => []IndInv
<1>1. IndInv /\ [Next]_vars => IndInv'
  <2> SUFFICES ASSUME IndInv, [Next]_vars PROVE IndInv'
    OBVIOUS
  <2>1. CASE Next
    BY <2>1, TypeStep, StageStep DEF IndInv
  <2>2. CASE UNCHANGED vars
    BY <2>2 DEF vars, IndInv, TypeOK, StageOK, Valid
  <2> QED BY <2>1, <2>2
<1> QED BY InitInv, <1>1, PTL DEF Spec

\* Every variable of VmLifecycle keeps its type: in particular the shutdown is
\* looked for at most Tries times, and no VM reverts to a snapshot that is gone.
THEOREM TypeCorrect == Spec => []TypeOK
BY Invariance, PTL DEF IndInv

\* delete_vm never deletes the disk while the VM it was called for is defined.
THEOREM DiskSafe == Spec => DiskOutlivesVm
<1>1. ASSUME IndInv, [Next]_vars, NEW t \in Threads,
             disk, ~disk', pc'[t] # pc[t]
      PROVE  ~(Valid(t) /\ dom.kept)
  <2>t. TypeOK /\ StageOK
    BY <1>1 DEF IndInv
  <2>1. PICK u \in Threads : DeleteVolume(u)
    BY <1>1 DEF Next, vars, GuestOff, Pause, Submit, Step, host, Raises,
       Install, Lookup, ReadState, Start, Shutdown, Reboot, Destroy, Undefine,
       SnapshotCreate, SnapshotDrop, Revert, LooksActive, Wait,
       ConvertBegin, ConvertEnd, Return
  <2>2. u = t
    BY <1>1, <2>1, <2>t DEF DeleteVolume, Goto, TypeOK
  <2>3. pc[t] = "vol"
    BY <2>1, <2>2 DEF DeleteVolume
  <2> QED BY <2>3, <2>t DEF StageOK
<1>2. IndInv /\ [Next]_vars =>
        [\A t \in Threads :
           disk /\ ~disk' /\ pc'[t] # pc[t] => ~(Valid(t) /\ dom.kept)]_vars
  BY <1>1
<1> QED BY Invariance, <1>2, PTL DEF Spec, DiskOutlivesVm

-----------------------------------------------------------------------------
(* VmHistory *)

\* Only an undefine brings a worker to the deletion of a disk.
LEMMA VolFrom ==
    ASSUME TypeOK, Next, NEW u \in Threads, pc'[u] = "vol"
    PROVE  pc[u] = "vol" \/ Undefines
<1>a. pc \in [Threads -> Labels]
  BY DEF TypeOK
<1>1. CASE GuestOff \/ Pause
  BY <1>1 DEF GuestOff, Pause
<1>2. ASSUME NEW t \in Threads, Submit(t) PROVE pc[u] = "vol"
  <2>1. PICK l \in {"install", "lookup"} : Goto(t, l)
    BY <1>2 DEF Submit
  <2> QED BY <2>1, <1>a DEF Goto
<1>3. ASSUME NEW t \in Threads, Step(t), t # u PROVE pc[u] = "vol"
  BY <1>3, OthersKeep
<1>4. ASSUME Step(u), ~Undefines PROVE pc[u] = "vol"
  <2>1. ASSUME NEW l, Goto(u, l), l # "vol" PROVE FALSE
    BY <2>1, <1>a DEF Goto
  <2>2. CASE Lookup(u)
    BY <2>1, <2>2, LabelType DEF Lookup, Raises
  <2>3. CASE ReadState(u)
    BY <2>1, <2>3, LabelType DEF ReadState, Raises
  <2>4. CASE Undefine(u)
    BY <1>4, <2>1, <2>4 DEF Undefine, Raises
  <2>5. CASE DeleteVolume(u)
    BY <2>5 DEF DeleteVolume
  <2> QED BY <1>a, <1>4, <2>2, <2>3, <2>4, <2>5
          DEF Step, Goto, Raises, Install, Start, Shutdown, Reboot, Destroy,
              SnapshotCreate, SnapshotDrop, Revert, LooksActive, Wait,
              ConvertBegin, ConvertEnd, Return
<1> QED BY <1>1, <1>2, <1>3, <1>4 DEF Next

\* Every step keeps HInv, if the history variable is kept as Remember says.
LEMMA HistoryStep ==
    ASSUME IndInv, HInv, Next,
           raced' = (dom' # None /\ (raced \/ (dom = None /\ Deleting)))
    PROVE  HInv'
<1> USE DEF host, local
<1>t. TypeOK
  BY DEF IndInv
<1>v. Deleting' => Deleting \/ Undefines
  BY <1>t, VolFrom DEF Deleting
<1>u. ASSUME Undefines PROVE dom' = None \/ ~dom'.kept
  BY <1>u DEF Undefines
<1>0. CASE dom' = None \/ ~dom'.kept
  BY <1>0 DEF HInv, VmHasDisk
<1>1. ASSUME disk => disk', dom # None,
             dom' # None /\ dom'.kept => dom.kept
      PROVE  HInv'
  <2>1. CASE Undefines
    BY <1>0, <1>u, <2>1
  <2>2. CASE ~Undefines /\ dom' # None /\ dom'.kept
    <3>1. Deleting' => Deleting
      BY <1>v, <2>2
    <3>2. raced => raced'
      BY <2>2
    <3> QED BY <1>1, <2>2, <3>1, <3>2 DEF HInv, VmHasDisk
  <2> QED BY <1>0, <2>1, <2>2
<1>2. CASE UNCHANGED <<dom, disk>>
  <2>1. CASE dom = None
    BY <1>0, <1>2, <2>1
  <2>2. CASE dom # None
    BY <1>1, <1>2, <2>2
  <2> QED BY <2>1, <2>2
<1>3. ASSUME NEW s \in States, dom # None, dom' = WithState(s), UNCHANGED disk
      PROVE  HInv'
  BY <1>1, <1>3, <1>t, WithStateType
<1>4. CASE Stops /\ Active /\ UNCHANGED disk
  <2>1. "off" \in States
    BY DEF States
  <2> QED BY <1>0, <1>3, <1>4, <2>1 DEF Stops, Active
<1>5. CASE GuestOff
  BY <1>4, <1>5 DEF GuestOff
<1>6. CASE Pause
  <2>1. "paused" \in States
    BY DEF States
  <2> QED BY <1>3, <1>6, <2>1 DEF Pause, Active
<1>7. ASSUME NEW t \in Threads, Submit(t) PROVE HInv'
  BY <1>2, <1>7 DEF Submit
<1>8. ASSUME NEW t \in Threads, Step(t) PROVE HInv'
  <2>1. CASE Install(t)
    <3>1. CASE dom = None /\ disk' = TRUE
      <4>1. CASE Undefines
        BY <1>0, <1>u, <4>1
      <4>2. CASE ~Undefines /\ dom' # None
        <5>1. Deleting' => Deleting
          BY <1>v, <4>2
        <5> QED BY <3>1, <4>2, <5>1 DEF HInv, VmHasDisk
      <4> QED BY <1>0, <4>1, <4>2
    <3> QED BY <1>2, <2>1, <3>1 DEF Install, Raises
  <2>2. CASE Start(t)
    <3>1. "running" \in States
      BY DEF States
    <3> QED BY <1>2, <1>3, <2>2, <3>1 DEF Start, Startable, Valid, Raises
  <2>3. CASE Destroy(t)
    BY <1>2, <1>4, <2>3 DEF Destroy, Raises
  <2>4. CASE Undefine(t)
    BY <1>0, <1>2, <1>u, <2>4 DEF Undefine, Raises
  <2>5. CASE Revert(t)
    <3>1. CASE /\ Revertible(t)
               /\ dom' = WithState(snap)
               /\ UNCHANGED disk
      <4>1. snap \in States /\ dom # None
        BY <3>1, <1>t DEF Revertible, Valid, TypeOK
      <4> QED BY <1>3, <3>1, <4>1
    <3> QED BY <1>2, <2>5, <3>1 DEF Revert, Raises
  <2>6. CASE DeleteVolume(t)
    <3>1. Deleting
      BY <2>6 DEF DeleteVolume, Deleting
    <3>2. dom' = dom
      BY <2>6 DEF DeleteVolume
    <3> QED BY <1>0, <3>1, <3>2 DEF HInv, VmHasDisk
  <2>7. CASE UNCHANGED <<dom, disk>>
    BY <1>2, <2>7
  <2> QED BY <1>8, <2>1, <2>2, <2>3, <2>4, <2>5, <2>6, <2>7
          DEF Step, Raises, Lookup, ReadState, Shutdown, Reboot,
              SnapshotCreate, SnapshotDrop, LooksActive, Wait, ConvertBegin,
              ConvertEnd, Return
<1> QED BY <1>5, <1>6, <1>7, <1>8 DEF Next

\* A defined VM has its disk, unless it was made in the middle of a delete_vm.
THEOREM DiskPresent == HSpec => []VmHasDisk
<1>1. HInit => HInv
  <2> SUFFICES ASSUME HInit PROVE HInv
    OBVIOUS
  <2>1. ~Deleting
    BY DEF HInit, Init, Deleting
  <2>2. disk = (dom # None)
    BY DEF HInit, Init
  <2> QED BY <2>1, <2>2 DEF HInv, VmHasDisk
<1>2. HSpec => []IndInv
  <2>1. HInit => Init
    BY DEF HInit
  <2>2. [HNext]_hvars => [Next]_vars
    BY DEF HNext, hvars
  <2>3. HSpec => Spec
    BY <2>1, <2>2, PTL DEF HSpec, Spec
  <2> QED BY <2>3, Invariance
<1>3. IndInv /\ HInv /\ [HNext]_hvars => HInv'
  <2> SUFFICES ASSUME IndInv, HInv, [HNext]_hvars PROVE HInv'
    OBVIOUS
  <2>1. CASE UNCHANGED hvars
    BY <2>1 DEF hvars, vars, HInv, VmHasDisk, Deleting
  <2>2. CASE HNext
    <3>1. Next /\ raced' = (dom' # None /\ (raced \/ (dom = None /\ Deleting)))
      BY <2>2 DEF HNext, Remember
    <3> QED BY <3>1, HistoryStep
  <2> QED BY <2>1, <2>2
<1> QED BY <1>1, <1>2, <1>3, PTL DEF HSpec, HInv

-----------------------------------------------------------------------------
(* What the tools answer *)

\* The tools whose calls reach each label.
LEMMA ReachingLabels ==
    /\ Reaching("install") = {"create_vm"}
    /\ Reaching("lookup") = Tools \ {"create_vm"}
    /\ Reaching("state") = {"start_vm", "stop_vm", "delete_vm", "revert_snapshot"}
    /\ Reaching("start") = {"start_vm", "revert_snapshot", "create_golden_image"}
    /\ Reaching("shutdown") = {"stop_vm", "create_golden_image"}
    /\ Reaching("destroy") = {"force_stop_vm", "delete_vm", "revert_snapshot",
                              "create_golden_image"}
    /\ Reaching("reboot") = {"reboot_vm"}
    /\ Reaching("undefine") = {"delete_vm"}
    /\ Reaching("vol") = {"delete_vm"}
    /\ Reaching("snapshot") = {"create_snapshot"}
    /\ Reaching("dropSnapshot") = {"delete_snapshot"}
    /\ Reaching("revert") = {"revert_snapshot"}
    /\ Reaching("active") = {"create_golden_image"}
    /\ Reaching("wait") = {"create_golden_image"}
    /\ Reaching("convert") = {"create_golden_image"}
    /\ Reaching("converting") = {"create_golden_image"}
    /\ Reaching("idle") = Tools
    /\ Reaching("replyOk") = Tools
    /\ Reaching("replyError") = Tools
BY DEF Reaching

LEMMA ToolNames ==
    Tools = {"create_vm", "start_vm", "stop_vm", "force_stop_vm", "reboot_vm",
             "delete_vm", "create_snapshot", "delete_snapshot", "revert_snapshot",
             "create_golden_image"}
BY DEF Tools, Options

\* A worker that does not move keeps its place and its call.
LEMMA SelfOrAside ==
    ASSUME TypeOK, Next, NEW u \in Threads, ~Submit(u), ~Step(u)
    PROVE  pc'[u] = pc[u] /\ call'[u] = call[u] /\ was'[u] = was[u]
<1> USE DEF host, local
<1>1. CASE GuestOff \/ Pause
  BY <1>1 DEF GuestOff, Pause
<1>2. ASSUME NEW t \in Threads, Submit(t)
      PROVE  pc'[u] = pc[u] /\ call'[u] = call[u] /\ was'[u] = was[u]
  <2>1. t # u
    BY <1>2
  <2> QED BY <1>2, <2>1 DEF Submit, Goto, TypeOK
<1>3. ASSUME NEW t \in Threads, Step(t)
      PROVE  pc'[u] = pc[u] /\ call'[u] = call[u] /\ was'[u] = was[u]
  <2>1. t # u
    BY <1>3
  <2>2. pc'[u] = pc[u]
    BY <1>3, <2>1, OthersKeep
  <2>3. call'[u] = call[u] /\ was'[u] = was[u]
    BY <1>3, <2>1 DEF TypeOK, Step, Install, Lookup, ReadState, Start, Shutdown, Reboot,
       Destroy, Undefine, DeleteVolume, SnapshotCreate, SnapshotDrop, Revert,
       LooksActive, Wait, ConvertBegin, ConvertEnd, Return, Raises
  <2> QED BY <2>2, <2>3
<1> QED BY <1>1, <1>2, <1>3 DEF Next

\* A call goes where its tool goes.
LEMMA RouteMove ==
    ASSUME TypeOK, RouteOK, NEW t \in Threads, Submit(t) \/ Step(t)
    PROVE  Tool(t)' \in Reaching(pc'[t])
<1> USE DEF local, host
<1>p. pc \in [Threads -> Labels] /\ call \in [Threads -> Calls]
  BY DEF TypeOK
<1>a. Tool(t) \in Reaching(pc[t])
  BY DEF RouteOK
<1>b. ASSUME NEW l, Goto(t, l) PROVE pc'[t] = l
  BY <1>p, <1>b DEF Goto
<1>c. call'[t] = call[t] => Tool(t)' = Tool(t)
  BY DEF Tool
<1>t. Tool(t) \in Tools
  BY <1>p DEF Tool, Calls
<1>e. ASSUME call' = call, pc'[t] \in {"idle", "replyOk", "replyError"}
      PROVE  Tool(t)' \in Reaching(pc'[t])
  BY <1>e, <1>c, <1>t, ReachingLabels
<1>r. ASSUME NEW ok, Raises(t, ok) PROVE Tool(t)' \in Reaching(pc'[t])
  <2>1. pc'[t] = "replyError"
    BY <1>r, <1>b DEF Raises
  <2> QED BY <1>r, <1>e, <2>1 DEF Raises
<1>1. CASE Submit(t)
  <2>0. PICK tool \in Tools : \E opts \in SUBSET Options[tool] :
          /\ call' = [call EXCEPT ![t] = [tool |-> tool, opts |-> opts]]
          /\ Goto(t, IF tool = "create_vm" THEN "install" ELSE "lookup")
    BY <1>1 DEF Submit
  <2>1. Tool(t)' = tool
    BY <2>0, <1>p DEF Tool
  <2>2. pc'[t] = IF tool = "create_vm" THEN "install" ELSE "lookup"
    BY <2>0, <1>b
  <2> QED BY <2>1, <2>2, ReachingLabels
<1>2. CASE Install(t)
  <2>1. CASE ~Raises(t, dom = None /\ imaging = None)
    <3>1. pc'[t] \in {"replyOk", "replyError"} /\ call' = call
      BY <1>2, <1>b, <2>1 DEF Install
    <3> QED BY <1>e, <3>1
  <2> QED BY <1>r, <2>1
<1>3. CASE Lookup(t)
  <2>1. CASE ~Raises(t, Found(t))
    <3>1. pc'[t] = Begin(Tool(t)) /\ call' = call /\ Tool(t) # "create_vm"
      BY <1>3, <1>a, <1>b, <2>1, ReachingLabels DEF Lookup
    <3>2. Tool(t) \in Reaching(Begin(Tool(t)))
      BY <3>1, <1>t, ToolNames, ReachingLabels DEF Begin
    <3> QED BY <1>c, <3>1, <3>2
  <2> QED BY <1>r, <2>1
<1>4. CASE ReadState(t)
  <2>1. CASE ~Raises(t, Valid(t))
    <3>1. pc'[t] = Decide(Tool(t), dom.state) /\ call' = call /\ pc[t] = "state"
      BY <1>4, <1>b, <2>1 DEF ReadState
    <3>2. Tool(t) \in {"start_vm", "stop_vm", "delete_vm", "revert_snapshot"}
      BY <3>1, <1>a, ReachingLabels
    <3>3. Tool(t) \in Reaching(Decide(Tool(t), dom.state))
      BY <3>2, <1>t, ReachingLabels DEF Decide
    <3> QED BY <1>c, <3>1, <3>3
  <2> QED BY <1>r, <2>1
<1>5. CASE Start(t)
  BY <1>5, <1>b, <1>e, <1>r DEF Start
<1>6. CASE Shutdown(t)
  <2>1. CASE ~Raises(t, Valid(t) /\ Active)
    <3>1. /\ pc'[t] = IF Tool(t) = "stop_vm" THEN "replyOk" ELSE "wait"
          /\ call' = call /\ pc[t] = "shutdown"
      BY <1>6, <1>b, <2>1 DEF Shutdown
    <3> QED BY <1>a, <1>c, <1>t, <3>1, ReachingLabels
  <2> QED BY <1>r, <2>1
<1>7. CASE Reboot(t)
  BY <1>7, <1>b, <1>e, <1>r DEF Reboot
<1>8. CASE Destroy(t)
  <2>1. CASE ~Raises(t, Valid(t) /\ Active)
    <3>1. /\ pc'[t] = CASE Tool(t) = "force_stop_vm" -> "replyOk"
                        [] Tool(t) = "delete_vm" -> "undefine"
                        [] Tool(t) = "revert_snapshot" -> "revert"
                        [] OTHER -> "convert"
          /\ call' = call /\ pc[t] = "destroy"
      BY <1>8, <1>b, <2>1 DEF Destroy
    <3>2. Tool(t) \in {"force_stop_vm", "delete_vm", "revert_snapshot",
                       "create_golden_image"}
      BY <1>a, <3>1, ReachingLabels
    <3> QED BY <1>c, <1>t, <3>1, <3>2, ReachingLabels
  <2> QED BY <1>r, <2>1
<1>9. CASE Undefine(t)
  <2>1. CASE ~Raises(t, Undefinable(t))
    <3>1. /\ pc'[t] = IF Option(t, "delete_disk") THEN "vol" ELSE "replyOk"
          /\ call' = call /\ pc[t] = "undefine"
      BY <1>9, <1>b, <2>1 DEF Undefine
    <3> QED BY <1>a, <1>c, <1>t, <3>1, ReachingLabels
  <2> QED BY <1>r, <2>1
<1>10. CASE DeleteVolume(t)
  BY <1>10, <1>b, <1>e DEF DeleteVolume
<1>11. CASE SnapshotCreate(t)
  BY <1>11, <1>b, <1>e, <1>r DEF SnapshotCreate
<1>12. CASE SnapshotDrop(t)
  BY <1>12, <1>b, <1>e, <1>r DEF SnapshotDrop
<1>13. CASE Revert(t)
  <2>1. CASE ~Raises(t, Revertible(t))
    <3>1. /\ pc'[t] = IF Option(t, "start_after_revert") THEN "start" ELSE "replyOk"
          /\ call' = call /\ pc[t] = "revert"
      BY <1>13, <1>b, <2>1 DEF Revert
    <3> QED BY <1>a, <1>c, <1>t, <3>1, ReachingLabels
  <2> QED BY <1>r, <2>1
<1>14. CASE LooksActive(t) \/ Wait(t) \/ ConvertBegin(t) \/ ConvertEnd(t)
  <2>1. pc'[t] \in {"shutdown", "convert", "wait", "destroy", "converting", "start",
                    "replyOk", "replyError"}
    BY <1>14, <1>p DEF LooksActive, Wait, ConvertBegin, ConvertEnd, Raises, Goto
  <2>2. call' = call /\ pc[t] \in {"active", "wait", "convert", "converting"}
    BY <1>14 DEF LooksActive, Wait, ConvertBegin, ConvertEnd, Raises
  <2>3. Tool(t) = "create_golden_image"
    BY <1>a, <2>2, ReachingLabels
  <2> QED BY <1>c, <1>t, <2>1, <2>2, <2>3, ReachingLabels
<1>15. CASE Return(t)
  <2>1. pc'[t] = "idle" /\ Tool(t)' = "start_vm"
    BY <1>15, <1>b, <1>p DEF Return, Tool
  <2> QED BY <2>1, ReachingLabels, ToolNames
<1> QED BY <1>1, <1>2, <1>3, <1>4, <1>5, <1>6, <1>7, <1>8, <1>9, <1>10, <1>11,
           <1>12, <1>13, <1>14, <1>15 DEF Step

LEMMA RouteStep ==
    ASSUME TypeOK, RouteOK, Next
    PROVE  RouteOK'
<1> SUFFICES ASSUME NEW u \in Threads PROVE Tool(u)' \in Reaching(pc'[u])
  BY DEF RouteOK
<1>1. CASE Submit(u) \/ Step(u)
  BY <1>1, RouteMove
<1>2. CASE ~Submit(u) /\ ~Step(u)
  <2>1. pc'[u] = pc[u] /\ call'[u] = call[u]
    BY <1>2, SelfOrAside
  <2> QED BY <2>1 DEF RouteOK, Tool
<1> QED BY <1>1, <1>2

\* What each tool's answer will claim, if its call does not change on the way.
LEMMA ClaimsNext ==
    ASSUME NEW t \in Threads, call'[t] = call[t]
    PROVE  /\ Tool(t)' = Tool(t)
           /\ \A o : Option(t, o)' = Option(t, o)
           /\ Tool(t) = "create_vm" /\ dom' # None /\ disk' => Claim(t)'
           /\ Tool(t) = "start_vm" /\ dom' # None /\ dom'.state = "running" => Claim(t)'
           /\ Tool(t) \in {"stop_vm", "reboot_vm"} => Claim(t)'
           /\ Tool(t) = "force_stop_vm" /\ ~Active' => Claim(t)'
           /\ Tool(t) = "delete_vm" /\ (dom' # None => Active' /\ ~dom'.kept) => Claim(t)'
           /\ Tool(t) = "create_snapshot" /\ snap' # None => Claim(t)'
           /\ Tool(t) = "delete_snapshot" /\ snap' = None => Claim(t)'
           /\ Tool(t) = "revert_snapshot" /\ Option(t, "start_after_revert")
                 /\ dom' # None /\ dom'.state = "running" => Claim(t)'
           /\ Tool(t) = "revert_snapshot" /\ ~Option(t, "start_after_revert")
                 /\ dom' # None /\ dom'.state = snap' => Claim(t)'
           /\ Tool(t) = "create_golden_image" /\ image'
                 /\ (Option(t, "restart_after") /\ was'[t] => Active') => Claim(t)'
BY DEF Claim, Tool, Option

\* What the worker that moves leaves behind.
LEMMA SoFarMove ==
    ASSUME IndInv, RouteOK, NEW t \in Threads, Submit(t) \/ Step(t), SoFar(t)
    PROVE  SoFar(t)'
<1> USE DEF local, host
<1>p. TypeOK /\ pc \in [Threads -> Labels] /\ call \in [Threads -> Calls]
  BY DEF IndInv, TypeOK
<1>a. Tool(t) \in Reaching(pc[t])
  BY DEF RouteOK
<1>b. ASSUME NEW l, Goto(t, l) PROVE pc'[t] = l
  BY <1>p, <1>b DEF Goto
<1>k. ASSUME pc'[t] = "replyOk", Claim(t)' PROVE SoFar(t)'
  BY <1>k DEF SoFar
<1>e. ASSUME pc'[t] \notin {"vol", "start", "replyOk"} PROVE SoFar(t)'
  BY <1>e DEF SoFar
<1>r. ASSUME NEW ok, Raises(t, ok) PROVE SoFar(t)'
  BY <1>b, <1>e, <1>r DEF Raises
<1>w. ASSUME dom # None, NEW s \in States, dom' = WithState(s)
      PROVE  dom' # None /\ dom'.state = s
  BY <1>p, <1>w, WithStateType, NoneAssumption
<1>1. CASE Submit(t)
  <2>1. pc'[t] \in {"install", "lookup"}
    BY <1>1, <1>b DEF Submit
  <2> QED BY <1>e, <2>1
<1>2. CASE Install(t)
  <2>1. CASE Raises(t, dom = None /\ imaging = None)
    BY <1>r, <2>1
  <2>2. CASE Goto(t, "replyError")
    BY <1>b, <1>e, <2>2
  <2>3. CASE /\ \E u \in Uuids : Fresh(u) /\ dom' = Defined(u, Option(t, "uefi"))
             /\ disk' = TRUE
             /\ Goto(t, "replyOk")
             /\ UNCHANGED call
    <3>1. Option(t, "uefi") \in BOOLEAN
      BY DEF Option
    <3>2. dom' # None
      BY <2>3, <3>1, DefinedType
    <3>3. Tool(t) = "create_vm"
      BY <1>2, <1>a, ReachingLabels DEF Install
    <3>4. Claim(t)'
      BY <2>3, <3>2, <3>3, ClaimsNext
    <3> QED BY <1>b, <1>k, <2>3, <3>4
  <2> QED BY <1>2, <2>1, <2>2, <2>3 DEF Install
<1>3. CASE Lookup(t)
  <2>1. CASE ~Raises(t, Found(t))
    <3>1. pc'[t] = Begin(Tool(t))
      BY <1>3, <1>b, <2>1 DEF Lookup
    <3>2. Begin(Tool(t)) \notin {"vol", "start", "replyOk"}
      BY DEF Begin
    <3> QED BY <1>e, <3>1, <3>2
  <2> QED BY <1>r, <2>1
<1>4. CASE ReadState(t)
  <2>1. CASE ~Raises(t, Valid(t))
    <3>1. /\ pc'[t] = Decide(Tool(t), dom.state) /\ call' = call /\ UNCHANGED host
          /\ Valid(t) /\ pc[t] = "state"
      BY <1>4, <1>b, <2>1 DEF ReadState
    <3>2. Tool(t) \in {"start_vm", "stop_vm", "delete_vm", "revert_snapshot"}
      BY <1>a, <3>1, ReachingLabels
    <3>3. CASE Tool(t) = "start_vm"
      <4>1. pc'[t] = IF dom.state = "running" THEN "replyOk" ELSE "start"
        BY <3>1, <3>3 DEF Decide
      <4>2. Tool(t)' = "start_vm"
        BY <3>1, <3>3, ClaimsNext
      <4>3. CASE dom.state = "running"
        <5>1. Claim(t)'
          BY <3>1, <3>3, <4>3, ClaimsNext DEF Valid
        <5> QED BY <1>k, <4>1, <4>3, <5>1
      <4>4. CASE dom.state # "running"
        BY <4>1, <4>2, <4>4 DEF SoFar
      <4> QED BY <4>3, <4>4
    <3>4. CASE Tool(t) = "stop_vm"
      <4>1. pc'[t] \in {"replyOk", "shutdown"}
        BY <3>1, <3>4 DEF Decide
      <4>2. Claim(t)'
        BY <3>1, <3>4, ClaimsNext
      <4> QED BY <1>e, <1>k, <4>1, <4>2
    <3>5. CASE Tool(t) \in {"delete_vm", "revert_snapshot"}
      <4>1. pc'[t] \in {"destroy", "undefine", "revert"}
        BY <3>1, <3>5 DEF Decide
      <4> QED BY <1>e, <4>1
    <3> QED BY <3>2, <3>3, <3>4, <3>5
  <2> QED BY <1>r, <2>1
<1>5. CASE Start(t)
  <2>1. CASE ~Raises(t, Startable(t))
    <3>1. /\ pc'[t] = "replyOk" /\ call' = call /\ dom # None /\ dom' = WithState("running")
          /\ image' = image /\ pc[t] = "start"
      BY <1>5, <1>b, <2>1 DEF Start, Startable, Valid
    <3>2. "running" \in States
      BY DEF States
    <3>3. dom' # None /\ dom'.state = "running"
      BY <1>w, <3>1, <3>2
    <3>4. Active'
      BY <3>3 DEF Active
    <3>5. Tool(t) \in {"start_vm", "revert_snapshot", "create_golden_image"}
      BY <1>a, <3>1, ReachingLabels
    <3>6. /\ Tool(t) = "create_golden_image" => image
          /\ Tool(t) = "revert_snapshot" => Option(t, "start_after_revert")
      BY <3>1 DEF SoFar
    <3>7. Claim(t)'
      BY <3>1, <3>3, <3>4, <3>5, <3>6, ClaimsNext
    <3> QED BY <1>k, <3>1, <3>7
  <2> QED BY <1>r, <2>1

<1>6. CASE Shutdown(t)
  <2>1. CASE ~Raises(t, Valid(t) /\ Active)
    <3>1. /\ pc'[t] = IF Tool(t) = "stop_vm" THEN "replyOk" ELSE "wait"
          /\ call' = call
      BY <1>6, <1>b, <2>1 DEF Shutdown
    <3>2. CASE Tool(t) = "stop_vm"
      <4>1. Claim(t)'
        BY <3>1, <3>2, ClaimsNext
      <4> QED BY <1>k, <3>1, <3>2, <4>1
    <3> QED BY <1>e, <3>1, <3>2
  <2> QED BY <1>r, <2>1
<1>7. CASE Reboot(t)
  <2>1. CASE ~Raises(t, Valid(t) /\ Active)
    <3>1. pc'[t] = "replyOk" /\ call' = call /\ pc[t] = "reboot"
      BY <1>7, <1>b, <2>1 DEF Reboot
    <3>2. Claim(t)'
      BY <1>a, <3>1, ReachingLabels, ClaimsNext
    <3> QED BY <1>k, <3>1, <3>2
  <2> QED BY <1>r, <2>1
<1>8. CASE Destroy(t)
  <2>1. CASE ~Raises(t, Valid(t) /\ Active)
    <3>1. /\ pc'[t] = CASE Tool(t) = "force_stop_vm" -> "replyOk"
                        [] Tool(t) = "delete_vm" -> "undefine"
                        [] Tool(t) = "revert_snapshot" -> "revert"
                        [] OTHER -> "convert"
          /\ call' = call /\ Stops /\ dom # None
      BY <1>8, <1>b, <2>1 DEF Destroy, Valid
    <3>2. CASE Tool(t) = "force_stop_vm"
      <4>1. "off" \in States
        BY DEF States
      <4>2. ~Active'
        BY <1>w, <3>1, <4>1 DEF Stops, Active
      <4>3. Claim(t)'
        BY <3>1, <3>2, <4>2, ClaimsNext
      <4> QED BY <1>k, <3>1, <3>2, <4>3
    <3>3. CASE Tool(t) # "force_stop_vm"
      <4>1. pc'[t] \in {"undefine", "revert", "convert"}
        BY <3>1, <3>3
      <4> QED BY <1>e, <4>1
    <3> QED BY <3>2, <3>3
  <2> QED BY <1>r, <2>1
<1>9. CASE Undefine(t)
  <2>1. CASE ~Raises(t, Undefinable(t))
    <3>1. /\ pc'[t] = IF Option(t, "delete_disk") THEN "vol" ELSE "replyOk"
          /\ call' = call /\ Undefines /\ pc[t] = "undefine"
      BY <1>9, <1>b, <2>1 DEF Undefine
    <3>2. dom' # None => Active' /\ ~dom'.kept
      BY <3>1 DEF Undefines, Active
    <3>3. Claim(t)'
      BY <1>a, <3>1, <3>2, ReachingLabels, ClaimsNext
    <3> QED BY <3>1, <3>2, <3>3 DEF SoFar
  <2> QED BY <1>r, <2>1
<1>10. CASE DeleteVolume(t)
  <2>1. pc'[t] = "replyOk" /\ call' = call /\ dom' = dom /\ pc[t] = "vol"
    BY <1>10, <1>b DEF DeleteVolume
  <2>2. dom' # None => Active' /\ ~dom'.kept
    BY <2>1 DEF SoFar, Active
  <2>3. Claim(t)'
    BY <1>a, <2>1, <2>2, ReachingLabels, ClaimsNext
  <2> QED BY <1>k, <2>1, <2>3
<1>11. CASE SnapshotCreate(t)
  <2>1. CASE ~Raises(t, Valid(t) /\ snap = None /\ DiskFree)
    <3>1. /\ pc'[t] = "replyOk" /\ call' = call /\ pc[t] = "snapshot" /\ Valid(t)
          /\ snap' = IF Option(t, "disk_only") THEN "off" ELSE dom.state
      BY <1>11, <1>b, <2>1 DEF SnapshotCreate
    <3>2. snap' \in States
      BY <1>p, <3>1 DEF Valid, TypeOK, Domains, States
    <3>3. snap' # None
      BY <3>2, NoneAssumption
    <3>4. Claim(t)'
      BY <1>a, <3>1, <3>3, ReachingLabels, ClaimsNext
    <3> QED BY <1>k, <3>1, <3>4
  <2> QED BY <1>11, <1>r, <2>1 DEF SnapshotCreate
<1>12. CASE SnapshotDrop(t)
  <2>1. CASE ~Raises(t, Valid(t) /\ snap # None /\ DiskFree)
    <3>1. pc'[t] = "replyOk" /\ call' = call /\ pc[t] = "dropSnapshot" /\ snap' = None
      BY <1>12, <1>b, <2>1 DEF SnapshotDrop
    <3>2. Claim(t)'
      BY <1>a, <3>1, ReachingLabels, ClaimsNext
    <3> QED BY <1>k, <3>1, <3>2
  <2> QED BY <1>12, <1>r, <2>1 DEF SnapshotDrop
<1>13. CASE Revert(t)
  <2>1. CASE ~Raises(t, Revertible(t))
    <3>1. /\ pc'[t] = IF Option(t, "start_after_revert") THEN "start" ELSE "replyOk"
          /\ call' = call /\ pc[t] = "revert" /\ dom' = WithState(snap) /\ snap' = snap
          /\ dom # None /\ snap # None
      BY <1>13, <1>b, <2>1 DEF Revert, Revertible, Valid
    <3>2. dom' # None /\ dom'.state = snap'
      BY <1>p, <1>w, <3>1 DEF TypeOK
    <3>3. Tool(t) = "revert_snapshot" /\ Tool(t)' = Tool(t)
      BY <1>a, <3>1, ReachingLabels, ClaimsNext
    <3>4. CASE Option(t, "start_after_revert")
      <4>1. Option(t, "start_after_revert")'
        BY <3>1, <3>4, ClaimsNext
      <4> QED BY <3>1, <3>3, <3>4, <4>1 DEF SoFar
    <3>5. CASE ~Option(t, "start_after_revert")
      <4>1. Claim(t)'
        BY <3>1, <3>2, <3>3, <3>5, ClaimsNext
      <4> QED BY <1>k, <3>1, <3>5, <4>1
    <3> QED BY <3>4, <3>5
  <2> QED BY <1>r, <2>1
<1>14. CASE LooksActive(t) \/ Wait(t) \/ ConvertBegin(t) \/ Return(t)
  <2>1. pc'[t] \in {"shutdown", "convert", "wait", "destroy", "converting", "idle",
                    "replyError"}
    BY <1>14, <1>p DEF LooksActive, Wait, ConvertBegin, Return, Raises, Goto
  <2> QED BY <1>e, <2>1
<1>15. CASE ConvertEnd(t)
  <2>1. pc[t] = "converting" /\ call' = call /\ was' = was /\ dom' = dom
    BY <1>15 DEF ConvertEnd
  <2>2. Tool(t) = "create_golden_image" /\ Tool(t)' = Tool(t)
    BY <1>a, <2>1, ReachingLabels, ClaimsNext
  <2>3. CASE pc'[t] = "replyError"
    BY <1>e, <2>3
  <2>4. CASE image' = TRUE /\ Option(t, "restart_after") /\ was[t] /\ pc'[t] = "start"
    BY <2>2, <2>4 DEF SoFar
  <2>5. CASE image' = TRUE /\ ~(Option(t, "restart_after") /\ was[t])
             /\ pc'[t] = "replyOk"
    <3>1. Claim(t)'
      BY <2>1, <2>2, <2>5, ClaimsNext
    <3> QED BY <1>k, <2>5, <3>1
  <2> QED BY <1>15, <1>b, <2>3, <2>4, <2>5 DEF ConvertEnd
<1> QED BY <1>1, <1>2, <1>3, <1>4, <1>5, <1>6, <1>7, <1>8, <1>9, <1>10, <1>11,
           <1>12, <1>13, <1>14, <1>15 DEF Step

\* What an undisturbed call has done so far holds after every step.
LEMMA SoFarStep ==
    ASSUME IndInv, AnswerInv, Next, NEW u \in alone, u \in Threads,
           ~Disturbs(u)
    PROVE  SoFar(u)'
<1>t. TypeOK /\ RouteOK /\ SoFar(u)
  BY DEF IndInv, AnswerInv
<1>1. CASE Submit(u) \/ Step(u)
  BY <1>1, <1>t, SoFarMove
<1>2. CASE ~Submit(u) /\ ~Step(u)
  <2>1. pc'[u] = pc[u] /\ call'[u] = call[u] /\ was'[u] = was[u]
    BY <1>2, <1>t, SelfOrAside
  <2>2. CASE UNCHANGED host
    BY <1>t, <2>1, <2>2 DEF SoFar, Claim, Tool, Option, host, Active
  <2>3. CASE pc[u] = "wait"
    BY <2>1, <2>3 DEF SoFar
  <2> QED BY <2>1, <2>2, <2>3 DEF Disturbs
<1> QED BY <1>1, <1>2

\* An undisturbed call of a tool answers the truth about the VM, its snapshot and
\* its image, for any number of workers.
THEOREM Answers == HSpec => []AnswersHold
<1>1. HInit => AnswerInv
  <2> SUFFICES ASSUME HInit PROVE AnswerInv
    OBVIOUS
  <2>1. \A t \in Threads : pc[t] = "idle" /\ Tool(t) = "start_vm"
    BY DEF HInit, Init, Tool
  <2>2. RouteOK
    BY <2>1, ReachingLabels, ToolNames DEF RouteOK
  <2>3. alone = Threads
    BY DEF HInit
  <2> QED BY <2>1, <2>2, <2>3 DEF AnswerInv, SoFar
<1>2. HSpec => [](IndInv /\ alone \subseteq Threads)
  <2>1. HInit => Init /\ alone \subseteq Threads
    BY DEF HInit
  <2>2. [HNext]_hvars => [Next]_vars
    BY DEF HNext, hvars
  <2>3. alone \subseteq Threads /\ [HNext]_hvars => (alone \subseteq Threads)'
    BY DEF HNext, Remember, hvars
  <2>4. HSpec => Spec
    BY <2>1, <2>2, PTL DEF HSpec, Spec
  <2> QED BY <2>1, <2>3, <2>4, Invariance, PTL DEF HSpec
<1>3. IndInv /\ alone \subseteq Threads /\ AnswerInv /\ [HNext]_hvars => AnswerInv'
  <2> SUFFICES ASSUME IndInv, alone \subseteq Threads, AnswerInv, [HNext]_hvars
               PROVE  AnswerInv'
    OBVIOUS
  <2>1. CASE UNCHANGED hvars
    BY <2>1 DEF hvars, vars, AnswerInv, RouteOK, SoFar, Claim, Tool, Option, Active
  <2>2. CASE HNext
    <3>1. Next /\ Remember
      BY <2>2 DEF HNext
    <3>2. RouteOK'
      BY <3>1, RouteStep DEF IndInv, AnswerInv
    <3>3. ASSUME NEW u \in alone' PROVE SoFar(u)'
      <4>1. u \in Threads /\ (pc[u] = "idle" \/ (u \in alone /\ ~Disturbs(u)))
        BY <3>1, <3>3 DEF Remember
      <4>2. CASE u \in alone /\ ~Disturbs(u)
        BY <3>1, <4>1, <4>2, SoFarStep
      <4>3. CASE pc[u] = "idle"
        <5>1. SoFar(u)
          BY <4>3 DEF SoFar
        <5>2. CASE Submit(u) \/ Step(u)
          BY <4>1, <5>1, <5>2, SoFarMove DEF AnswerInv
        <5>3. CASE ~Submit(u) /\ ~Step(u)
          <6>1. pc'[u] = "idle"
            BY <3>1, <4>1, <4>3, <5>3, SelfOrAside DEF IndInv
          <6> QED BY <6>1 DEF SoFar
        <5> QED BY <5>2, <5>3
      <4> QED BY <4>1, <4>2, <4>3
    <3> QED BY <3>2, <3>3 DEF AnswerInv
  <2> QED BY <2>1, <2>2
<1>4. AnswerInv => AnswersHold
  BY DEF AnswerInv, SoFar, AnswersHold
<1> QED BY <1>1, <1>2, <1>3, <1>4, PTL DEF HSpec
=============================================================================
