--------------------------- MODULE DirectoryProofs ---------------------------
(***************************************************************************)
(* Proofs about DirectoryTools and DirectoryHistory for any number of      *)
(* workers and accounts: the type invariant, that a tool whose operations  *)
(* were not mixed with another worker's writes where it was told to, and   *)
(* only the flag it is for, and that undisturbed answers are true.         *)
(***************************************************************************)
EXTENDS DirectoryHistory, TLAPS

-----------------------------------------------------------------------------
(* Types *)

\* A worker that drops its locals and goes to a label keeps the types.
LEMMA DoneType ==
    ASSUME TypeOK, NEW t \in Threads, NEW label \in Labels, Done(t, label)
    PROVE  /\ pc' \in [Threads -> Labels]
           /\ dn' \in [Threads -> Named \cup {None}]
           /\ member' \in [Threads -> Named \cup {None}]
           /\ uac' \in [Threads -> Flags \cup {None}]
BY DEF TypeOK, Done, Goto

\* A worker that becomes free keeps the types, if its step keeps the directory's.
LEMMA FreeType ==
    ASSUME TypeOK, NEW t \in Threads, Free(t), dir' \in [Users -> Flags \cup {None}]
    PROVE  TypeOK'
<1>1. "idle" \in Labels
  BY DEF Labels
<1>2. Done(t, "idle")
  BY DEF Free
<1>3. call' \in [Threads -> Calls \cup {None}]
  BY DEF TypeOK, Free
<1>4. /\ pc' \in [Threads -> Labels]
      /\ dn' \in [Threads -> Named \cup {None}]
      /\ member' \in [Threads -> Named \cup {None}]
      /\ uac' \in [Threads -> Flags \cup {None}]
  BY <1>1, <1>2, DoneType
<1> QED BY <1>3, <1>4 DEF TypeOK, Free, connection

\* So does one that returns.
LEMMA ReturnType ==
    ASSUME TypeOK, NEW t \in Threads, Return(t)
    PROVE  TypeOK'
BY FreeType DEF Return, TypeOK

\* An operation that the DC has answered keeps the types.
LEMMA AnsweredType ==
    ASSUME TypeOK, NEW t \in Threads, Refused(t) \/ Accepted(t),
           dir' \in [Users -> Flags \cup {None}]
    PROVE  TypeOK'
<1>1. "result" \in Labels
  BY DEF Labels
<1>2. Done(t, "result")
  BY DEF Refused, Accepted
<1>3. /\ pc' \in [Threads -> Labels]
      /\ dn' \in [Threads -> Named \cup {None}]
      /\ member' \in [Threads -> Named \cup {None}]
      /\ uac' \in [Threads -> Flags \cup {None}]
  BY <1>1, <1>2, DoneType
<1>4. entries' \in Entries \cup {None} /\ result' \in BOOLEAN /\ call' = call
  BY DEF Refused, Accepted, TypeOK
<1> QED BY <1>3, <1>4 DEF TypeOK

\* A busy worker has a call.
LEMMA CallType ==
    ASSUME IndInv, NEW t \in Threads, pc[t] # "idle"
    PROVE  /\ call[t] \in Calls
           /\ Tool(t) \in Tools
           /\ User(t) \in Users
           /\ call[t].enabled \in BOOLEAN
<1>1. call[t] \in Calls
  BY DEF IndInv, TypeOK, StageOK, Stage
<1> QED BY <1>1 DEF Calls, Tool, User

\* What a search leaves: nothing, or an entry of its target with what it asked for.
LEMMA SearchFinds ==
    ASSUME IndInv, NEW t \in Threads, NEW target \in Named, NEW attrs,
           "uac" \in attrs => target \in Users, Search(t, target, attrs)
    PROVE  /\ entries' \in Entries \cup {None}
           /\ result' \in BOOLEAN
           /\ entries' # None =>
                 /\ entries'.dn = target
                 /\ entries'.uac # None => target \in Users /\ entries'.uac = dir[target]
<1>1. result' \in BOOLEAN
  BY DEF Search
<1>2. CASE entries' = None
  BY <1>1, <1>2
<1>3. CASE /\ target \in Users => dir[target] # None
           /\ entries' = [dn |-> target, named |-> "dn" \in attrs,
                          uac |-> IF "uac" \in attrs THEN dir[target] ELSE None]
  <2>1. (IF "uac" \in attrs THEN dir[target] ELSE None) \in Flags \cup {None}
    BY DEF IndInv, TypeOK
  <2>2. ("dn" \in attrs) \in BOOLEAN
    OBVIOUS
  <2>3. entries' \in Entries
    BY <1>3, <2>1, <2>2 DEF Entries
  <2>4. entries'.dn = target /\ entries'.uac = IF "uac" \in attrs THEN dir[target] ELSE None
    BY <1>3
  <2> QED BY <1>1, <2>3, <2>4
<1> QED BY <1>2, <1>3 DEF Search

\* A tool's first search is for what has flags, if it asks for them.
LEMMA AskedType ==
    ASSUME IndInv, NEW t \in Threads, pc[t] = "find"
    PROVE  Target(t) \in Named /\ ("uac" \in Asked(t) => Target(t) \in Users)
<1>1. User(t) \in Users
  BY CallType
<1> QED BY <1>1 DEF Target, Asked, Named

\* What unlock_user and set_object_enabled write are flags.
LEMMA NewFlagsType ==
    ASSUME IndInv, NEW t \in Threads, pc[t] = "modify", Tool(t) \in FlagTools
    PROVE  NewFlags(t) \in Flags
<1>1. uac[t] \in Flags
  BY DEF IndInv, TypeOK, StageOK, Stage
<1>2. call[t].enabled \in BOOLEAN
  BY CallType
<1> QED BY <1>1, <1>2 DEF NewFlags, Flags

\* Every action keeps the types.
LEMMA TypeStep ==
    ASSUME IndInv, Next
    PROVE  TypeOK'
<1> USE DEF connection, local
<1>t. TypeOK
  BY DEF IndInv
<1>1. ASSUME NEW t \in Threads, Submit(t) PROVE TypeOK'
  <2>1. PICK c \in Calls : /\ call' = [call EXCEPT ![t] = c]
                           /\ Goto(t, FirstStep(c.tool))
    BY <1>1 DEF Submit
  <2>2. FirstStep(c.tool) \in Labels
    BY DEF FirstStep, Labels
  <2>3. pc' \in [Threads -> Labels]
    BY <1>t, <2>1, <2>2 DEF TypeOK, Goto
  <2>4. call' \in [Threads -> Calls \cup {None}]
    BY <1>t, <2>1 DEF TypeOK
  <2> QED BY <1>1, <1>t, <2>3, <2>4 DEF Submit, TypeOK
<1>2. ASSUME NEW t \in Threads, Step(t) PROVE TypeOK'
  <2> DEFINE Moves(label) == Goto(t, label) /\ UNCHANGED call
  <2>m. ASSUME NEW label \in Labels, Moves(label)
        PROVE  pc' \in [Threads -> Labels] /\ call' \in [Threads -> Calls \cup {None}]
    BY <1>t, <2>m DEF TypeOK, Goto
  <2>e. ASSUME entries # None
        PROVE  entries.dn \in Named /\ entries.uac \in Flags \cup {None}
    BY <1>t, <2>e DEF TypeOK, Entries
  <2>1. CASE \/ Raises(t) \/ NothingFound(t) \/ NotInEntry(t) \/ NoChanges(t) \/ Reply(t)
    BY <1>t, <2>1, ReturnType DEF Raises, NothingFound, NotInEntry, NoChanges, Reply
  <2>2. CASE Find(t)
    <3>1. entries' \in Entries \cup {None} /\ result' \in BOOLEAN
      BY <2>2, AskedType, SearchFinds DEF Find
    <3>2. Moves("read") /\ "read" \in Labels
      BY <2>2 DEF Find, Search, Labels
    <3> QED BY <1>t, <2>m, <2>2, <3>1, <3>2 DEF Find, Search, TypeOK
  <2>3. CASE FindMember(t)
    <3>1. User(t) \in Named
      BY <2>3, CallType DEF FindMember, Named
    <3>2. entries' \in Entries \cup {None} /\ result' \in BOOLEAN
      BY <2>3, <3>1, SearchFinds DEF FindMember
    <3>3. Moves("readMember") /\ "readMember" \in Labels
      BY <2>3 DEF FindMember, Search, Labels
    <3> QED BY <1>t, <2>m, <2>3, <3>2, <3>3 DEF FindMember, Search, TypeOK
  <2>4. CASE ReadUser(t)
    <3>1. Moves("replyOk") /\ "replyOk" \in Labels
      BY <2>4 DEF ReadUser, Labels
    <3> QED BY <1>t, <2>m, <2>e, <2>4, <3>1 DEF ReadUser, TypeOK
  <2>5. CASE ReadName(t)
    <3>1. Moves("modify") /\ "modify" \in Labels
      BY <2>5 DEF ReadName, Labels
    <3> QED BY <1>t, <2>m, <2>e, <2>5, <3>1 DEF ReadName, TypeOK
  <2>6. CASE ReadGroup(t)
    <3>1. Moves("findMember") /\ "findMember" \in Labels
      BY <2>6 DEF ReadGroup, Labels
    <3> QED BY <1>t, <2>m, <2>e, <2>6, <3>1 DEF ReadGroup, TypeOK
  <2>7. CASE ReadMember(t)
    <3>1. Moves("modify") /\ "modify" \in Labels
      BY <2>7 DEF ReadMember, Labels
    <3> QED BY <1>t, <2>m, <2>e, <2>7, <3>1 DEF ReadMember, TypeOK
  <2>8. CASE ReadLocked(t)
    <3>1. Moves("modify") /\ "modify" \in Labels
      BY <2>8 DEF ReadLocked, Labels
    <3> QED BY <1>t, <2>m, <2>e, <2>8, <3>1 DEF ReadLocked, TypeOK
  <2>9. CASE ReadEnabled(t)
    <3>1. Moves("modify") /\ "modify" \in Labels
      BY <2>9 DEF ReadEnabled, Labels
    <3>2. User(t) \in Named
      BY <2>9, CallType DEF ReadEnabled, Named
    <3> QED BY <1>t, <2>m, <2>e, <2>9, <3>1, <3>2 DEF ReadEnabled, TypeOK
  <2>10. CASE WriteFlags(t)
    <3>1. NewFlags(t) \in Flags
      BY <2>10, NewFlagsType DEF WriteFlags
    <3>2. dir' \in [Users -> Flags \cup {None}]
      BY <1>t, <2>10, <3>1 DEF WriteFlags, Refused, TypeOK
    <3> QED BY <1>t, <2>10, <3>2, AnsweredType, FreeType DEF WriteFlags
  <2>11. CASE UpdateUser(t)
    <3>1. dir' \in [Users -> Flags \cup {None}]
      BY <1>t, <2>11 DEF UpdateUser, Refused, TypeOK
    <3> QED BY <1>t, <2>11, <3>1, AnsweredType DEF UpdateUser
  <2>12. CASE ChangeMember(t)
    <3>1. dir' \in [Users -> Flags \cup {None}]
      BY <1>t, <2>12 DEF ChangeMember, Refused, TypeOK
    <3> QED BY <1>t, <2>12, <3>1, AnsweredType DEF ChangeMember
  <2>13. CASE DeleteObject(t)
    <3>1. dir' \in [Users -> Flags \cup {None}]
      BY <1>t, <2>13 DEF DeleteObject, Refused, TypeOK
    <3> QED BY <1>t, <2>13, <3>1, AnsweredType, FreeType DEF DeleteObject
  <2>14. CASE Result(t)
    <3>1. CASE Return(t)
      BY <1>t, <3>1, ReturnType
    <3>2. CASE Done(t, "replyOk") /\ UNCHANGED <<dir, connection, call>>
      <4>1. "replyOk" \in Labels
        BY DEF Labels
      <4>2. /\ pc' \in [Threads -> Labels]
            /\ dn' \in [Threads -> Named \cup {None}]
            /\ member' \in [Threads -> Named \cup {None}]
            /\ uac' \in [Threads -> Flags \cup {None}]
        BY <1>t, <3>2, <4>1, DoneType
      <4> QED BY <1>t, <3>2, <4>2 DEF TypeOK
    <3> QED BY <2>14, <3>1, <3>2 DEF Result
  <2>15. CASE CreateUser(t)
    <3>1. \A d \in BOOLEAN : [disabled |-> d, locked |-> FALSE] \in Flags
      BY DEF Flags
    <3>2. dir' \in [Users -> Flags \cup {None}]
      BY <1>t, <2>15, <3>1 DEF CreateUser, TypeOK
    <3>3. CASE Free(t)
      BY <1>t, <3>2, <3>3, FreeType
    <3>4. CASE Goto(t, "replyOk") /\ UNCHANGED <<connection, call, local>>
      <4>1. "replyOk" \in Labels /\ Moves("replyOk")
        BY <3>4 DEF Labels
      <4> QED BY <1>t, <2>m, <3>2, <3>4, <4>1 DEF TypeOK
    <3> QED BY <2>15, <3>3, <3>4 DEF CreateUser
  <2> QED BY <1>2, <2>1, <2>2, <2>3, <2>4, <2>5, <2>6, <2>7, <2>8, <2>9, <2>10,
             <2>11, <2>12, <2>13, <2>14, <2>15 DEF Step
<1>3. ASSUME NEW u \in Users, LockedOut(u) PROVE TypeOK'
  <2>1. dir[u] \in Flags
    BY <1>t, <1>3 DEF LockedOut, TypeOK
  <2>2. [disabled |-> dir[u].disabled, locked |-> TRUE] \in Flags
    BY <2>1 DEF Flags
  <2>3. dir' \in [Users -> Flags \cup {None}]
    BY <1>t, <1>3, <2>2 DEF LockedOut, TypeOK
  <2> QED BY <1>t, <1>3, <2>3 DEF LockedOut, TypeOK
<1> QED BY <1>1, <1>2, <1>3 DEF Next

-----------------------------------------------------------------------------
(* Who changes what *)

\* A worker's step leaves the place, the call and the locals of the others alone.
LEMMA OthersStay ==
    ASSUME IndInv, NEW s \in Threads, Submit(s) \/ Step(s), NEW t \in Threads \ {s}
    PROVE  /\ pc'[t] = pc[t] /\ call'[t] = call[t]
           /\ dn'[t] = dn[t] /\ member'[t] = member[t] /\ uac'[t] = uac[t]
<1> USE DEF connection, local
<1>t. TypeOK
  BY DEF IndInv
<1>d. ASSUME NEW label, Done(s, label)
      PROVE  pc'[t] = pc[t] /\ dn'[t] = dn[t] /\ member'[t] = member[t] /\ uac'[t] = uac[t]
  BY <1>t, <1>d DEF TypeOK, Done, Goto
<1>f. ASSUME Free(s)
      PROVE  /\ pc'[t] = pc[t] /\ call'[t] = call[t]
             /\ dn'[t] = dn[t] /\ member'[t] = member[t] /\ uac'[t] = uac[t]
  <2>1. Done(s, "idle")
    BY <1>f DEF Free
  <2>2. call'[t] = call[t]
    BY <1>t, <1>f DEF TypeOK, Free
  <2> QED BY <1>d, <2>1, <2>2
<1>a. ASSUME Refused(s) \/ Accepted(s)
      PROVE  /\ pc'[t] = pc[t] /\ call'[t] = call[t]
             /\ dn'[t] = dn[t] /\ member'[t] = member[t] /\ uac'[t] = uac[t]
  <2>1. Done(s, "result") /\ UNCHANGED call
    BY <1>a DEF Refused, Accepted
  <2> QED BY <1>d, <2>1
<1>1. CASE Submit(s)
  BY <1>t, <1>1 DEF Submit, Goto, TypeOK
<1>2. CASE \/ Raises(s) \/ NothingFound(s) \/ NotInEntry(s) \/ NoChanges(s) \/ Reply(s)
  BY <1>f, <1>2 DEF Raises, NothingFound, NotInEntry, NoChanges, Reply, Return
<1>3. CASE Find(s) \/ FindMember(s)
  BY <1>t, <1>3 DEF Find, FindMember, Search, Goto, TypeOK
<1>4. CASE ReadUser(s) \/ ReadName(s) \/ ReadGroup(s) \/ ReadMember(s)
  BY <1>t, <1>4 DEF ReadUser, ReadName, ReadGroup, ReadMember, Goto, TypeOK
<1>5. CASE ReadLocked(s) \/ ReadEnabled(s)
  BY <1>t, <1>5 DEF ReadLocked, ReadEnabled, Goto, TypeOK
<1>6. CASE WriteFlags(s) \/ UpdateUser(s) \/ ChangeMember(s) \/ DeleteObject(s)
  BY <1>f, <1>a, <1>6 DEF WriteFlags, UpdateUser, ChangeMember, DeleteObject
<1>7. CASE Result(s)
  BY <1>f, <1>d, <1>7 DEF Result, Return
<1>8. CASE CreateUser(s)
  BY <1>t, <1>f, <1>8 DEF CreateUser, Goto, TypeOK
<1> QED BY <1>1, <1>2, <1>3, <1>4, <1>5, <1>6, <1>7, <1>8 DEF Step

\* The entries of the connection are replaced by a search only, and its flags are then
\* those of the account.
Searched(s) ==
    /\ pc[s] \in {"find", "findMember"} /\ pc'[s] \in {"read", "readMember"}
    /\ dir' = dir
    /\ entries' # None => (entries'.uac # None => entries'.dn \in Users
                                                /\ entries'.uac = dir[entries'.dn])

LEMMA EntriesStep ==
    ASSUME IndInv, NEW s \in Threads, Submit(s) \/ Step(s)
    PROVE  entries' \in {entries, None} \/ Searched(s)
<1> USE DEF connection
<1>t. TypeOK
  BY DEF IndInv
<1>1. CASE Find(s)
  <2>1. entries' # None => (entries'.uac # None => entries'.dn \in Users
                                                /\ entries'.uac = dir[entries'.dn])
    BY <1>1, AskedType, SearchFinds DEF Find
  <2>2. pc[s] = "find" /\ pc'[s] = "read" /\ dir' = dir
    BY <1>t, <1>1 DEF Find, Search, Goto, TypeOK
  <2> QED BY <2>1, <2>2 DEF Searched
<1>2. CASE FindMember(s)
  <2>1. User(s) \in Named
    BY <1>2, CallType DEF FindMember, Named
  <2>2. entries' # None => (entries'.uac # None => entries'.dn \in Users
                                                /\ entries'.uac = dir[entries'.dn])
    BY <1>2, <2>1, SearchFinds DEF FindMember
  <2>3. pc[s] = "findMember" /\ pc'[s] = "readMember" /\ dir' = dir
    BY <1>t, <1>2 DEF FindMember, Search, Goto, TypeOK
  <2> QED BY <2>2, <2>3 DEF Searched
<1>3. CASE \/ Submit(s) \/ Raises(s) \/ NothingFound(s) \/ NotInEntry(s) \/ NoChanges(s)
           \/ Reply(s) \/ Result(s) \/ CreateUser(s)
  BY <1>3 DEF Submit, Raises, NothingFound, NotInEntry, NoChanges, Reply, Result,
              CreateUser, Return, Free
<1>4. CASE ReadUser(s) \/ ReadName(s) \/ ReadGroup(s) \/ ReadMember(s)
           \/ ReadLocked(s) \/ ReadEnabled(s)
  BY <1>4 DEF ReadUser, ReadName, ReadGroup, ReadMember, ReadLocked, ReadEnabled
<1>5. CASE WriteFlags(s) \/ UpdateUser(s) \/ ChangeMember(s) \/ DeleteObject(s)
  BY <1>5 DEF WriteFlags, UpdateUser, ChangeMember, DeleteObject, Refused, Accepted, Free
<1> QED BY <1>1, <1>2, <1>3, <1>4, <1>5 DEF Step

-----------------------------------------------------------------------------
(* The inductive invariant *)

\* The worker that takes a step is where its tool leads.
LEMMA StageStep ==
    ASSUME IndInv, NEW t \in Threads, Submit(t) \/ Step(t)
    PROVE  Stage(t)'
<1> USE DEF connection, local
<1>t. TypeOK /\ Stage(t)
  BY DEF IndInv, StageOK
<1>f. ASSUME Free(t) PROVE Stage(t)'
  <2>1. pc'[t] = "idle"
    BY <1>t, <1>f DEF Free, Done, Goto, TypeOK
  <2> QED BY <2>1 DEF Stage
<1>a. ASSUME NEW label \in {"result", "replyOk"}, pc'[t] = label, UNCHANGED call,
             pc[t] # "idle"
      PROVE  Stage(t)'
  BY <1>t, <1>a DEF Stage, Tool
<1>1. CASE Submit(t)
  <2>1. PICK c \in Calls : /\ call' = [call EXCEPT ![t] = c]
                           /\ Goto(t, FirstStep(c.tool))
    BY <1>1 DEF Submit
  <2>2. call'[t] = c /\ pc'[t] = FirstStep(c.tool) /\ c # None
    BY <1>t, <2>1, NoneAssumption DEF Goto, TypeOK
  <2>3. CASE c.tool = "create_user"
    <3>1. pc'[t] = "newUser"
      BY <2>2, <2>3 DEF FirstStep
    <3> QED BY <2>2, <3>1 DEF Stage
  <2>4. CASE c.tool = "delete_object"
    <3>1. pc'[t] = "modify"
      BY <2>2, <2>4 DEF FirstStep
    <3> QED BY <2>2, <2>4, <3>1 DEF Stage, Tool, FlagTools
  <2>5. CASE c.tool \notin {"create_user", "delete_object"}
    <3>1. pc'[t] = "find"
      BY <2>2, <2>5 DEF FirstStep
    <3> QED BY <2>2, <2>5, <3>1 DEF Stage, Tool
  <2> QED BY <2>3, <2>4, <2>5
<1>2. CASE \/ Raises(t) \/ NothingFound(t) \/ NotInEntry(t) \/ NoChanges(t) \/ Reply(t)
  BY <1>f, <1>2 DEF Raises, NothingFound, NotInEntry, NoChanges, Reply, Return
<1>3. CASE Find(t)
  <2>1. pc[t] = "find" /\ pc'[t] = "read" /\ UNCHANGED call
    BY <1>t, <1>3 DEF Find, Search, Goto, TypeOK
  <2> QED BY <1>t, <2>1 DEF Stage, Tool
<1>4. CASE FindMember(t)
  <2>1. pc[t] = "findMember" /\ pc'[t] = "readMember" /\ UNCHANGED call
    BY <1>t, <1>4 DEF FindMember, Search, Goto, TypeOK
  <2> QED BY <1>t, <2>1 DEF Stage, Tool
<1>5. CASE ReadUser(t)
  <2>1. pc[t] = "read" /\ pc'[t] = "replyOk" /\ UNCHANGED call
    BY <1>t, <1>5 DEF ReadUser, Goto, TypeOK
  <2> QED BY <1>a, <2>1
<1>6. CASE ReadName(t)
  <2>1. pc'[t] = "modify" /\ UNCHANGED call /\ pc[t] = "read" /\ Tool(t) = "update_user"
    BY <1>t, <1>6 DEF ReadName, Goto, TypeOK
  <2> QED BY <1>t, <2>1 DEF Stage, Tool, FlagTools
<1>7. CASE ReadGroup(t)
  <2>1. /\ pc'[t] = "findMember" /\ UNCHANGED call
        /\ pc[t] = "read" /\ Tool(t) = "add_group_member"
    BY <1>t, <1>7 DEF ReadGroup, Goto, TypeOK
  <2> QED BY <1>t, <2>1 DEF Stage, Tool
<1>8. CASE ReadMember(t)
  <2>1. pc'[t] = "modify" /\ UNCHANGED call /\ pc[t] = "readMember"
    BY <1>t, <1>8 DEF ReadMember, Goto, TypeOK
  <2>2. member'[t] = entries.dn /\ entries.dn \in Named
    BY <1>t, <1>8 DEF ReadMember, TypeOK, Entries
  <2> QED BY <1>t, <2>1, <2>2, NoneAssumption DEF Stage, Tool, FlagTools
<1>9. CASE ReadLocked(t) \/ ReadEnabled(t)
  <2>1. /\ pc'[t] = "modify" /\ UNCHANGED call
        /\ pc[t] = "read" /\ Tool(t) \in FlagTools
    BY <1>t, <1>9 DEF ReadLocked, ReadEnabled, FlagTools, Goto, TypeOK
  <2>2. uac'[t] = entries.uac /\ entries.uac # None
    BY <1>t, <1>9 DEF ReadLocked, ReadEnabled, TypeOK
  <2>3. dn'[t] \in Named
    <3>1. User(t) \in Named
      BY <2>1, CallType DEF Named
    <3> QED BY <1>t, <1>9, <3>1 DEF ReadLocked, ReadEnabled, TypeOK, Entries
  <2> QED BY <1>t, <2>1, <2>2, <2>3, NoneAssumption DEF Stage, Tool, FlagTools
<1>10. CASE WriteFlags(t) \/ UpdateUser(t) \/ ChangeMember(t) \/ DeleteObject(t)
  <2>1. CASE Refused(t) \/ Accepted(t)
    <3>1. pc[t] = "modify"
      BY <1>10 DEF WriteFlags, UpdateUser, ChangeMember, DeleteObject
    <3>2. pc'[t] = "result" /\ UNCHANGED call
      BY <1>t, <2>1 DEF Refused, Accepted, Done, Goto, TypeOK
    <3> QED BY <1>a, <3>1, <3>2
  <2> QED BY <1>f, <1>10, <2>1 DEF WriteFlags, UpdateUser, ChangeMember, DeleteObject
<1>11. CASE Result(t)
  <2>1. CASE Return(t)
    BY <1>f, <2>1 DEF Return
  <2>2. CASE Done(t, "replyOk") /\ UNCHANGED call
    <3>1. pc[t] = "result" /\ pc'[t] = "replyOk"
      BY <1>t, <1>11, <2>2 DEF Result, Done, Goto, TypeOK
    <3> QED BY <1>a, <2>2, <3>1
  <2> QED BY <1>11, <2>1, <2>2 DEF Result
<1>12. CASE CreateUser(t)
  <2>1. CASE Goto(t, "replyOk") /\ UNCHANGED call
    <3>1. pc[t] = "newUser" /\ pc'[t] = "replyOk"
      BY <1>t, <1>12, <2>1 DEF CreateUser, Goto, TypeOK
    <3> QED BY <1>a, <2>1, <3>1
  <2> QED BY <1>f, <1>12, <2>1 DEF CreateUser
<1> QED BY <1>1, <1>2, <1>3, <1>4, <1>5, <1>6, <1>7, <1>8, <1>9, <1>10, <1>11, <1>12
        DEF Step

\* The types hold, and a worker writes only what it has read: a DN and flags, the
\* member's DN.  An entry with flags is an account's.
THEOREM Invariance == Spec => []IndInv
<1>1. Init => IndInv
  <2> SUFFICES ASSUME Init PROVE IndInv
    OBVIOUS
  <2>1. TypeOK
    BY DEF Init, TypeOK, Labels
  <2>2. StageOK
    BY DEF Init, StageOK, Stage
  <2> QED BY <2>1, <2>2 DEF IndInv
<1>2. IndInv /\ [Next]_vars => IndInv'
  <2> SUFFICES ASSUME IndInv, [Next]_vars PROVE IndInv'
    OBVIOUS
  <2>1. CASE UNCHANGED vars
    BY <2>1 DEF vars, connection, local, IndInv, TypeOK, StageOK, Stage, Tool
  <2>2. ASSUME NEW s \in Threads, Submit(s) \/ Step(s) PROVE StageOK'
    <3>1. ASSUME NEW t \in Threads PROVE Stage(t)'
      <4>1. CASE t = s
        BY <2>2, <4>1, StageStep
      <4>2. CASE t # s
        <5>1. /\ pc'[t] = pc[t] /\ call'[t] = call[t]
              /\ dn'[t] = dn[t] /\ member'[t] = member[t] /\ uac'[t] = uac[t]
          BY <2>2, <4>2, OthersStay
        <5> QED BY <5>1 DEF IndInv, StageOK, Stage, Tool
      <4> QED BY <4>1, <4>2
    <3>2. entries' # None => (entries'.uac # None => entries'.dn \in Users)
      BY <2>2, EntriesStep DEF Searched, IndInv, StageOK
    <3> QED BY <3>1, <3>2 DEF StageOK
  <2>3. ASSUME NEW u \in Users, LockedOut(u) PROVE StageOK'
    BY <2>3 DEF LockedOut, connection, local, IndInv, StageOK, Stage, Tool
  <2>4. CASE Next
    BY <2>2, <2>3, <2>4, TypeStep DEF Next, IndInv
  <2> QED BY <2>1, <2>4
<1> QED BY <1>1, <1>2, PTL DEF Spec

-----------------------------------------------------------------------------
(* What the tools of a shared connection can be relied on for *)

\* A worker that stays where it is remembers what it remembered, and what others do.
LEMMA MemoryOfOthers ==
    ASSUME Remember, NEW t \in Threads, pc'[t] = pc[t], pc[t] # "idle"
    PROVE  /\ mixed[t] => mixed'[t]
           /\ pc[t] \in {"read", "readMember", "result"} /\ Interferes(t) => mixed'[t]
           /\ changed'[t] = (changed[t] \cup Changes) \cap Watched(t)'
BY Zenon DEF Remember

\* A worker that moves on remembers what it remembered.
LEMMA MemoryOfMoving ==
    ASSUME Remember, NEW t \in Threads, pc'[t] # pc[t], pc'[t] # "idle", pc[t] # "idle"
    PROVE  /\ mixed[t] => mixed'[t]
           /\ changed'[t] = changed[t] \cap Watched(t)'
BY Zenon DEF Remember

\* The facts about one worker that keep the history invariant.
Facts(t) ==
    /\ WritesNamedAt(t)
    /\ FreshFlagsAt(t)
    /\ OwnEntryAt(t)
    /\ FreshEntryAt(t)
    /\ OwnGroupAt(t)

LEMMA FactsAll == HInv <=> \A t \in Threads : Facts(t)
BY DEF HInv, Facts, WritesNamed, FreshFlags, OwnEntry, FreshEntry, OwnGroup

\* A worker that goes nowhere keeps its facts, whatever another one does.
LEMMA FactsStay ==
    ASSUME IndInv, HInv, Remember, NEW t \in Threads,
           pc'[t] = pc[t], call'[t] = call[t],
           dn'[t] = dn[t], member'[t] = member[t], uac'[t] = uac[t],
           \/ entries' \in {entries, None}
           \/ \E s \in Threads \ {t} : Searched(s)
    PROVE  Facts(t)'
<1>1. /\ WritesNamedAt(t) /\ FreshFlagsAt(t) /\ OwnEntryAt(t)
      /\ FreshEntryAt(t) /\ OwnGroupAt(t)
  BY FactsAll DEF Facts
<1>2. pc[t] # "idle" => /\ mixed[t] => mixed'[t]
                        /\ changed'[t] = (changed[t] \cup Changes) \cap Watched(t)'
  BY MemoryOfOthers
<1>3. WritesNamedAt(t)' /\ OwnGroupAt(t)'
  BY <1>1, <1>2 DEF WritesNamedAt, OwnGroupAt, Tool, User
<1>4. OwnEntryAt(t)'
  <2>1. SUFFICES ASSUME pc[t] \in {"read", "readMember"}, ~mixed'[t], entries' # None
                 PROVE  entries'.dn = IF pc[t] = "read" THEN Target(t) ELSE User(t)
    BY DEF OwnEntryAt, Target, Tool, User
  <2>2. ~mixed[t] /\ ~Interferes(t)
    BY <2>1, MemoryOfOthers
  <2>3. entries' = entries
    BY <2>1, <2>2 DEF Searched, Interferes
  <2> QED BY <1>1, <2>1, <2>2, <2>3 DEF OwnEntryAt
<1>5. FreshFlagsAt(t)'
  <2>1. SUFFICES ASSUME pc[t] = "modify", Tool(t) \in FlagTools, dn[t] \notin changed'[t],
                        Tool(t) = "set_object_enabled" => ~mixed'[t]
                 PROVE  dn[t] \in Users /\ uac[t] = dir'[dn[t]]
    BY DEF FreshFlagsAt, Tool
  <2>2. dn[t] \in Watched(t)'
    BY <2>1 DEF Watched, FlagTools, Tool
  <2>3. dn[t] \notin changed[t] /\ dn[t] \notin Changes
    BY <1>2, <2>1, <2>2
  <2>4. dn[t] \in Users /\ uac[t] = dir[dn[t]]
    BY <1>1, <1>2, <2>1, <2>3 DEF FreshFlagsAt
  <2> QED BY <2>3, <2>4 DEF Changes
<1>6. FreshEntryAt(t)'
  <2>1. SUFFICES ASSUME pc[t] = "read", Tool(t) \in FlagTools, entries' # None,
                        entries'.uac # None, entries'.dn \notin changed'[t]
                 PROVE  entries'.uac = dir'[entries'.dn]
    BY DEF FreshEntryAt, Tool
  <2>2. CASE \E s \in Threads : Searched(s)
    BY <2>1, <2>2 DEF Searched
  <2>3. CASE entries' = entries
    <3>1. entries.dn \in Users
      BY <2>1, <2>3 DEF IndInv, StageOK
    <3>2. Watched(t)' = Users
      BY <2>1 DEF Watched, FlagTools, Tool
    <3>3. entries.dn \notin changed[t] /\ entries.dn \notin Changes
      BY <1>2, <2>1, <2>3, <3>1, <3>2
    <3> QED BY <1>1, <2>1, <2>3, <3>1, <3>3 DEF FreshEntryAt, Changes
  <2> QED BY <2>1, <2>2, <2>3
<1> QED BY <1>3, <1>4, <1>5, <1>6 DEF Facts

\* The worker that takes a step has its facts afterwards.
LEMMA FactsMove ==
    ASSUME IndInv, HInv, Remember, NEW t \in Threads, Submit(t) \/ Step(t)
    PROVE  Facts(t)'
<1> USE DEF connection, local
<1>t. TypeOK
  BY DEF IndInv
<1>1. /\ WritesNamedAt(t) /\ FreshFlagsAt(t) /\ OwnEntryAt(t)
      /\ FreshEntryAt(t) /\ OwnGroupAt(t)
  BY FactsAll DEF Facts
<1>m. ASSUME pc'[t] # pc[t], pc'[t] # "idle", pc[t] # "idle"
      PROVE  /\ mixed[t] => mixed'[t]
             /\ changed'[t] = changed[t] \cap Watched(t)'
  BY <1>m, MemoryOfMoving
<1>n. ASSUME pc'[t] \notin {"read", "findMember", "readMember", "modify"}
      PROVE  Facts(t)'
  BY <1>n DEF Facts, WritesNamedAt, FreshFlagsAt, OwnEntryAt, FreshEntryAt, OwnGroupAt
<1>d. ASSUME NEW label \in {"idle", "result", "replyOk"}, Goto(t, label)
      PROVE  Facts(t)'
  <2>1. pc'[t] = label
    BY <1>t, <1>d DEF Goto, TypeOK
  <2> QED BY <1>n, <2>1
<1>f. ASSUME Free(t) PROVE Facts(t)'
  BY <1>d, <1>f DEF Free, Done
<1>2. CASE Submit(t)
  <2>1. PICK c \in Calls : /\ call' = [call EXCEPT ![t] = c]
                           /\ Goto(t, FirstStep(c.tool))
    BY <1>2 DEF Submit
  <2>2. Tool(t)' = c.tool /\ pc'[t] = FirstStep(c.tool)
    BY <1>t, <2>1 DEF Goto, Tool, TypeOK
  <2>3. CASE c.tool = "delete_object"
    <3>1. pc'[t] = "modify"
      BY <2>2, <2>3 DEF FirstStep
    <3> QED BY <2>2, <2>3, <3>1 DEF Facts, WritesNamedAt, FreshFlagsAt, OwnEntryAt,
                                    FreshEntryAt, OwnGroupAt, FlagTools
  <2>4. CASE c.tool # "delete_object"
    <3>1. pc'[t] \in {"newUser", "find"}
      BY <2>2, <2>4 DEF FirstStep
    <3> QED BY <1>n, <3>1
  <2> QED BY <2>3, <2>4
<1>3. CASE \/ Raises(t) \/ NothingFound(t) \/ NotInEntry(t) \/ NoChanges(t) \/ Reply(t)
  BY <1>f, <1>3 DEF Raises, NothingFound, NotInEntry, NoChanges, Reply, Return
<1>4. CASE Find(t)
  <2>1. pc'[t] = "read" /\ UNCHANGED <<dir, call>>
    BY <1>t, <1>4 DEF Find, Search, Goto, TypeOK
  <2>2. entries' # None =>
           /\ entries'.dn = Target(t)
           /\ entries'.uac # None => entries'.uac = dir[Target(t)]
    BY <1>4, AskedType, SearchFinds DEF Find
  <2>3. OwnEntryAt(t)'
    BY <2>1, <2>2 DEF OwnEntryAt, Target, Tool, User
  <2>4. FreshEntryAt(t)'
    BY <2>1, <2>2 DEF FreshEntryAt
  <2> QED BY <2>1, <2>3, <2>4 DEF Facts, WritesNamedAt, FreshFlagsAt, OwnGroupAt
<1>5. CASE FindMember(t)
  <2>1. pc[t] = "findMember" /\ pc'[t] = "readMember" /\ UNCHANGED <<dir, call, dn>>
    BY <1>t, <1>5 DEF FindMember, Search, Goto, TypeOK
  <2>2. User(t) \in Users
    BY <2>1, CallType
  <2>3. entries' # None => entries'.dn = User(t)
    BY <1>5, <2>2, SearchFinds DEF FindMember, Named
  <2>4. OwnEntryAt(t)'
    BY <2>1, <2>3 DEF OwnEntryAt, User
  <2>5. OwnGroupAt(t)'
    BY <1>1, <1>m, <2>1 DEF OwnGroupAt
  <2> QED BY <2>1, <2>4, <2>5 DEF Facts, WritesNamedAt, FreshFlagsAt, FreshEntryAt
<1>6. CASE ReadUser(t)
  BY <1>d, <1>6 DEF ReadUser
<1>7. CASE ReadName(t)
  <2>1. /\ pc[t] = "read" /\ pc'[t] = "modify" /\ UNCHANGED call
        /\ Tool(t) = "update_user" /\ entries # None /\ dn'[t] = entries.dn
    BY <1>t, <1>7 DEF ReadName, Goto, TypeOK
  <2>2. ~mixed'[t] => dn'[t] = User(t)
    BY <1>1, <1>m, <2>1 DEF OwnEntryAt, Target
  <2> QED BY <2>1, <2>2 DEF Facts, WritesNamedAt, FreshFlagsAt, OwnEntryAt, FreshEntryAt,
                            OwnGroupAt, Tool, User, FlagTools
<1>8. CASE ReadGroup(t)
  <2>1. /\ pc[t] = "read" /\ pc'[t] = "findMember"
        /\ Tool(t) = "add_group_member" /\ entries # None /\ dn'[t] = entries.dn
    BY <1>t, <1>8 DEF ReadGroup, Goto, TypeOK
  <2>2. ~mixed'[t] => dn'[t] = Group
    BY <1>1, <1>m, <2>1 DEF OwnEntryAt, Target
  <2> QED BY <2>1, <2>2 DEF Facts, WritesNamedAt, FreshFlagsAt, OwnEntryAt, FreshEntryAt,
                            OwnGroupAt
<1>9. CASE ReadMember(t)
  <2>1. /\ pc[t] = "readMember" /\ pc'[t] = "modify" /\ UNCHANGED <<call, dn>>
        /\ entries # None /\ member'[t] = entries.dn
    BY <1>t, <1>9 DEF ReadMember, Goto, TypeOK
  <2>2. Tool(t) = "add_group_member"
    BY <2>1 DEF IndInv, StageOK, Stage
  <2>3. ~mixed'[t] => dn'[t] = Group /\ member'[t] = User(t)
    BY <1>1, <1>m, <2>1 DEF OwnEntryAt, OwnGroupAt
  <2> QED BY <2>1, <2>2, <2>3 DEF Facts, WritesNamedAt, FreshFlagsAt, OwnEntryAt,
                                  FreshEntryAt, OwnGroupAt, Tool, User, FlagTools
<1>10. CASE ReadLocked(t) \/ ReadEnabled(t)
  <2>1. /\ pc[t] = "read" /\ pc'[t] = "modify" /\ UNCHANGED <<call, dir>>
        /\ Tool(t) \in FlagTools
        /\ entries # None /\ entries.uac # None /\ uac'[t] = entries.uac
    BY <1>t, <1>10 DEF ReadLocked, ReadEnabled, FlagTools, Goto, TypeOK
  <2>2. dn'[t] = IF Tool(t) = "unlock_user" THEN entries.dn ELSE User(t)
    BY <1>t, <1>10 DEF ReadLocked, ReadEnabled, TypeOK
  <2>3. ~mixed'[t] => entries.dn = User(t)
    BY <1>1, <1>m, <2>1 DEF OwnEntryAt, Target, FlagTools
  <2>4. entries.dn \in Users
    BY <2>1 DEF IndInv, StageOK
  <2>5. WritesNamedAt(t)'
    BY <2>1, <2>2, <2>3 DEF WritesNamedAt, Tool, User, FlagTools
  <2>6. FreshFlagsAt(t)'
    <3>1. SUFFICES ASSUME dn'[t] \notin changed'[t],
                          Tool(t) = "set_object_enabled" => ~mixed'[t]
                   PROVE  dn'[t] \in Users /\ uac'[t] = dir'[dn'[t]]
      BY <2>1 DEF FreshFlagsAt, Tool
    <3>2. dn'[t] = entries.dn
      BY <2>1, <2>2, <2>3, <3>1 DEF FlagTools
    <3>3. dn'[t] \in Watched(t)'
      BY <2>1 DEF Watched, Tool
    <3>4. entries.dn \notin changed[t]
      BY <1>m, <2>1, <3>1, <3>2, <3>3
    <3> QED BY <1>1, <2>1, <2>4, <3>2, <3>4 DEF FreshEntryAt
  <2> QED BY <2>1, <2>5, <2>6 DEF Facts, OwnEntryAt, FreshEntryAt, OwnGroupAt
<1>11. CASE WriteFlags(t) \/ UpdateUser(t) \/ ChangeMember(t) \/ DeleteObject(t)
  BY <1>d, <1>f, <1>11 DEF WriteFlags, UpdateUser, ChangeMember, DeleteObject,
                           Refused, Accepted, Done
<1>12. CASE Result(t) \/ CreateUser(t)
  BY <1>d, <1>f, <1>12 DEF Result, CreateUser, Return, Done
<1> QED BY <1>2, <1>3, <1>4, <1>5, <1>6, <1>7, <1>8, <1>9, <1>10, <1>11, <1>12 DEF Step

\* HSpec without its history is Spec.
LEMMA HistoryImplements == HSpec => Spec
<1>1. HInit => Init
  BY DEF HInit
<1>2. [HNext]_hvars => [Next]_vars
  BY DEF HNext, hvars
<1> QED BY <1>1, <1>2, PTL DEF HSpec, Spec

\* One step keeps the facts of every worker.
LEMMA HistoryStep ==
    ASSUME IndInv, HInv, [HNext]_hvars
    PROVE  HInv'
<1>1. CASE UNCHANGED hvars
  BY <1>1 DEF hvars, vars, connection, local, HInv, WritesNamed, FreshFlags, OwnEntry,
              FreshEntry, OwnGroup, WritesNamedAt, FreshFlagsAt, OwnEntryAt,
              FreshEntryAt, OwnGroupAt, Target, Tool, User
<1>2. ASSUME HNext, NEW s \in Threads, Submit(s) \/ Step(s) PROVE HInv'
  <2>1. ASSUME NEW t \in Threads PROVE Facts(t)'
    <3>1. CASE t = s
      BY <1>2, <3>1, FactsMove DEF HNext
    <3>2. CASE t # s
      <4>1. /\ pc'[t] = pc[t] /\ call'[t] = call[t]
            /\ dn'[t] = dn[t] /\ member'[t] = member[t] /\ uac'[t] = uac[t]
        BY <1>2, <3>2, OthersStay
      <4>2. entries' \in {entries, None} \/ \E r \in Threads \ {t} : Searched(r)
        BY <1>2, <3>2, EntriesStep
      <4> QED BY <1>2, <4>1, <4>2, FactsStay DEF HNext
    <3> QED BY <3>1, <3>2
  <2> QED BY <2>1 DEF HInv, Facts, WritesNamed, FreshFlags, OwnEntry, FreshEntry, OwnGroup
<1>3. ASSUME HNext, NEW u \in Users, LockedOut(u) PROVE HInv'
  <2>1. ASSUME NEW t \in Threads PROVE Facts(t)'
    BY <1>3, <2>1, FactsStay DEF HNext, LockedOut, connection, local
  <2> QED BY <2>1 DEF HInv, Facts, WritesNamed, FreshFlags, OwnEntry, FreshEntry, OwnGroup
<1> QED BY <1>1, <1>2, <1>3 DEF HNext, Next

\* The facts hold of every worker in every state.
THEOREM HistoryInvariance == HSpec => [](IndInv /\ HInv)
<1>1. HInit => HInv
  BY DEF HInit, Init, HInv, WritesNamed, FreshFlags, OwnEntry, FreshEntry, OwnGroup,
         WritesNamedAt, FreshFlagsAt, OwnEntryAt, FreshEntryAt, OwnGroupAt
<1>2. HSpec => []IndInv
  BY HistoryImplements, Invariance, PTL
<1>3. IndInv /\ HInv /\ [HNext]_hvars => HInv'
  BY HistoryStep
<1> QED BY <1>1, <1>2, <1>3, PTL DEF HSpec

\* A tool whose operations were not mixed with another worker's writes to the object
\* the call names, and adds the member it names to the group it names.
THEOREM NamedWrites == HSpec => []WritesNamed
<1>1. IndInv /\ HInv => WritesNamed
  BY DEF HInv
<1> QED BY <1>1, HistoryInvariance, PTL

\* unlock_user and set_object_enabled change no flag but their own, as long as nobody
\* changes the account meanwhile.
THEOREM KeptFlags == HSpec => FlagsKept
<1>1. ASSUME IndInv, HInv, [HNext]_hvars, NEW t \in Threads
      PROVE  FlagsKeptBy(t)
  <2> SUFFICES ASSUME pc[t] = "modify", pc'[t] # pc[t], Tool(t) \in FlagTools,
                      dn[t] \notin changed[t],
                      Tool(t) = "set_object_enabled" => ~mixed[t],
                      NEW u \in Changes
               PROVE  IF Tool(t) = "unlock_user" THEN dir'[u].disabled = dir[u].disabled
                      ELSE dir'[u].locked = dir[u].locked
    BY DEF FlagsKeptBy
  <2>1. dn[t] \in Users /\ uac[t] = dir[dn[t]]
    BY <1>1 DEF HInv, FreshFlags, FreshFlagsAt
  <2>2. Next
    BY <1>1 DEF HNext, hvars, vars
  <2>3. Submit(t) \/ Step(t)
    <3>1. ASSUME NEW v \in Users, LockedOut(v) PROVE FALSE
      BY <3>1 DEF LockedOut
    <3> QED BY <1>1, <2>2, <3>1, OthersStay DEF Next
  <2>4. WriteFlags(t)
    <3>1. u \in Users /\ dir'[u] # dir[u]
      BY DEF Changes
    <3> QED BY <2>3, <3>1 DEF Step, Submit, Raises, Find, FindMember, NothingFound,
                    NotInEntry, ReadUser, ReadName, ReadGroup, ReadMember, ReadLocked,
                    ReadEnabled, UpdateUser, NoChanges, ChangeMember, DeleteObject,
                    Result, CreateUser, Reply, FlagTools, Return
  <2>5. dir' = [dir EXCEPT ![dn[t]] = NewFlags(t)]
    BY <2>4 DEF WriteFlags, Refused, Changes
  <2>6. u = dn[t] /\ dir'[u] = NewFlags(t)
    BY <1>1, <2>1, <2>5 DEF Changes, IndInv, TypeOK
  <2>7. CASE Tool(t) = "unlock_user"
    BY <2>1, <2>6, <2>7 DEF NewFlags
  <2>8. CASE Tool(t) # "unlock_user"
    BY <2>1, <2>6, <2>8 DEF NewFlags
  <2> QED BY <2>7, <2>8
<1>2. IndInv /\ HInv /\ [HNext]_hvars => [\A t \in Threads : FlagsKeptBy(t)]_hvars
  BY <1>1
<1> QED BY <1>2, HistoryInvariance, PTL DEF HSpec, FlagsKept

-----------------------------------------------------------------------------
(* What the tools answer *)

\* conn.result is replaced by an operation on the connection only.
Operates(s) ==
    /\ pc[s] \in {"find", "findMember", "modify"}
    /\ pc'[s] \in {"read", "readMember", "result"}

LEMMA ResultStep ==
    ASSUME IndInv, NEW s \in Threads, Submit(s) \/ Step(s)
    PROVE  result' = result \/ Operates(s)
<1> USE DEF connection
<1>t. TypeOK
  BY DEF IndInv
<1>1. CASE Find(s)
  BY <1>t, <1>1 DEF Find, Goto, TypeOK, Operates
<1>2. CASE FindMember(s)
  BY <1>t, <1>2 DEF FindMember, Goto, TypeOK, Operates
<1>3. CASE \/ Submit(s) \/ Raises(s) \/ NothingFound(s) \/ NotInEntry(s) \/ NoChanges(s)
           \/ Reply(s) \/ Result(s) \/ CreateUser(s)
  BY <1>3 DEF Submit, Raises, NothingFound, NotInEntry, NoChanges, Reply, Result,
              CreateUser, Return, Free
<1>4. CASE ReadUser(s) \/ ReadName(s) \/ ReadGroup(s) \/ ReadMember(s)
           \/ ReadLocked(s) \/ ReadEnabled(s)
  BY <1>4 DEF ReadUser, ReadName, ReadGroup, ReadMember, ReadLocked, ReadEnabled
<1>5. CASE WriteFlags(s) \/ UpdateUser(s) \/ ChangeMember(s) \/ DeleteObject(s)
  <2>1. pc[s] = "modify"
    BY <1>5 DEF WriteFlags, UpdateUser, ChangeMember, DeleteObject
  <2>2. CASE Refused(s) \/ Accepted(s)
    <3>1. pc'[s] = "result"
      BY <1>t, <2>2 DEF Refused, Accepted, Done, Goto, TypeOK
    <3> QED BY <2>1, <3>1 DEF Operates
  <2>3. CASE Free(s)
    BY <2>3 DEF Free
  <2> QED BY <1>5, <2>2, <2>3 DEF WriteFlags, UpdateUser, ChangeMember, DeleteObject
<1> QED BY <1>1, <1>2, <1>3, <1>4, <1>5 DEF Step

\* What a tool claims depends on its account, its call and its DN only.
LEMMA ClaimStays ==
    ASSUME NEW t \in Threads, call'[t] = call[t],
           Tool(t) = "get_user" => dn'[t] = dn[t],
           Tool(t) \in FlagTools \cup {"delete_object"} =>
               dir'[User(t)] = dir[User(t)],
           Claim(t)
    PROVE  Claim(t)'
BY DEF Claim, Tool, User, FlagTools

\* A worker that waits to answer keeps its answer true, whatever another one does.
LEMMA AnswerStays ==
    ASSUME IndInv, AnswerInv, Remember, NEW t \in Threads,
           pc'[t] = pc[t], call'[t] = call[t], dn'[t] = dn[t],
           result' = result \/ Interferes(t)
    PROVE  AnswerAt(t)'
<1>a. AnswerAt(t)
  BY DEF AnswerInv
<1>1. SUFFICES ASSUME pc[t] \in {"result", "replyOk"}, ~mixed'[t],
                      User(t) \notin changed'[t] \cap Watched(t)',
                      pc[t] = "result" => result'
               PROVE  Claim(t)'
  BY <1>a DEF AnswerAt, Tool, User
<1>2. ~mixed[t] /\ changed'[t] = (changed[t] \cup Changes) \cap Watched(t)'
  BY <1>1, MemoryOfOthers
<1>3. pc[t] = "result" => result
  <2>1. pc[t] = "result" => ~Interferes(t)
    BY <1>1, MemoryOfOthers
  <2> QED BY <1>1, <2>1
<1>4. Watched(t)' = Watched(t)
  BY <1>1 DEF Watched, Tool, User
<1>5. User(t) \notin changed[t] \cap Watched(t)
  BY <1>1, <1>2, <1>4
<1>6. Claim(t)
  BY <1>1, <1>2, <1>3, <1>5, <1>a DEF AnswerAt
<1>7. ASSUME Tool(t) \in FlagTools \cup {"delete_object"}
      PROVE  dir'[User(t)] = dir[User(t)]
  <2>1. User(t) \in Watched(t)
    BY <1>1, <1>7 DEF Watched
  <2>2. User(t) \notin Changes
    BY <1>1, <1>2, <1>4, <2>1
  <2>3. User(t) \in Users
    BY <1>1, CallType
  <2> QED BY <2>2, <2>3 DEF Changes
<1> QED BY <1>6, <1>7, ClaimStays

\* A worker that takes a step answers the truth.
LEMMA AnswerMove ==
    ASSUME IndInv, HInv, AnswerInv, Remember, NEW t \in Threads, Submit(t) \/ Step(t)
    PROVE  AnswerAt(t)'
<1> USE DEF connection, local
<1>t. TypeOK
  BY DEF IndInv
<1>a. AnswerAt(t) /\ WritesNamedAt(t) /\ OwnEntryAt(t)
  BY FactsAll DEF AnswerInv, Facts
<1>b. ASSUME NEW label, Goto(t, label) PROVE pc'[t] = label
  BY <1>t, <1>b DEF Goto, TypeOK
<1>n. ASSUME pc'[t] \notin {"newUser", "result", "replyOk"} PROVE AnswerAt(t)'
  BY <1>n DEF AnswerAt
<1>f. ASSUME Free(t) PROVE AnswerAt(t)'
  BY <1>b, <1>f, <1>n DEF Free, Done
<1>r. ASSUME Refused(t),
             Tool(t) \in FlagTools \cup {"update_user", "add_group_member", "delete_object"}
      PROVE  AnswerAt(t)'
  <2>1. pc'[t] = "result" /\ result' = FALSE /\ Tool(t)' = Tool(t)
    BY <1>b, <1>r DEF Refused, Done, Tool
  <2> QED BY <1>r, <2>1 DEF AnswerAt
<1>c. ASSUME Accepted(t), ~mixed'[t] => Claim(t)',
             Tool(t) \in FlagTools \cup {"update_user", "add_group_member", "delete_object"}
      PROVE  AnswerAt(t)'
  <2>1. pc'[t] = "result" /\ Tool(t)' = Tool(t)
    BY <1>b, <1>c DEF Accepted, Done, Tool
  <2> QED BY <1>c, <2>1 DEF AnswerAt
<1>m. ASSUME pc'[t] # pc[t], pc'[t] # "idle", pc[t] # "idle"
      PROVE  mixed[t] => mixed'[t]
  BY <1>m, MemoryOfMoving
<1>1. CASE Submit(t)
  <2>1. PICK c \in Calls : /\ call' = [call EXCEPT ![t] = c]
                           /\ Goto(t, FirstStep(c.tool))
    BY <1>1 DEF Submit
  <2>2. Tool(t)' = c.tool /\ pc'[t] = FirstStep(c.tool)
    BY <1>t, <2>1 DEF Goto, Tool, TypeOK
  <2>3. pc'[t] \in {"newUser", "modify", "find"} /\ (pc'[t] = "newUser" => c.tool = "create_user")
    BY <2>2 DEF FirstStep
  <2> QED BY <2>2, <2>3 DEF AnswerAt
<1>2. CASE \/ Raises(t) \/ NothingFound(t) \/ NotInEntry(t) \/ NoChanges(t) \/ Reply(t)
  BY <1>f, <1>2 DEF Raises, NothingFound, NotInEntry, NoChanges, Reply, Return
<1>3. CASE \/ Find(t) \/ FindMember(t) \/ ReadName(t) \/ ReadGroup(t) \/ ReadMember(t)
           \/ ReadLocked(t) \/ ReadEnabled(t)
  <2>1. pc'[t] \in {"read", "readMember", "findMember", "modify"}
    BY <1>b, <1>3 DEF Find, FindMember, ReadName, ReadGroup, ReadMember, ReadLocked,
                      ReadEnabled
  <2> QED BY <1>n, <2>1
<1>4. CASE ReadUser(t)
  <2>1. /\ pc[t] = "read" /\ pc'[t] = "replyOk" /\ call' = call
        /\ Tool(t) = "get_user" /\ entries # None /\ dn'[t] = entries.dn
    BY <1>t, <1>4, <1>b DEF ReadUser, TypeOK
  <2>2. ~mixed'[t] => dn'[t] = User(t)
    BY <1>a, <1>m, <2>1 DEF OwnEntryAt, Target
  <2>3. ~mixed'[t] => Claim(t)'
    BY <2>1, <2>2 DEF Claim, Tool, User, FlagTools
  <2> QED BY <2>1, <2>3 DEF AnswerAt
<1>5. CASE WriteFlags(t)
  <2>1. Tool(t) \in FlagTools /\ pc[t] = "modify"
    BY <1>5 DEF WriteFlags
  <2>2. CASE /\ dn[t] \in Users
             /\ dir' = [dir EXCEPT ![dn[t]] = NewFlags(t)]
             /\ Accepted(t)
    <3>1. pc'[t] = "result" /\ call' = call
      BY <1>b, <2>2 DEF Accepted, Done
    <3>2. ASSUME ~mixed'[t] PROVE dir'[User(t)] = NewFlags(t)
      <4>1. dn[t] = User(t)
        BY <1>a, <1>m, <2>1, <3>1, <3>2 DEF WritesNamedAt
      <4> QED BY <1>t, <2>2, <4>1 DEF TypeOK
    <3>3. CASE Tool(t) = "unlock_user"
      <4>1. ~mixed'[t] => ~dir'[User(t)].locked
        BY <3>2, <3>3 DEF NewFlags
      <4>2. Tool(t)' = "unlock_user" /\ User(t)' = User(t)
        BY <3>1, <3>3 DEF Tool, User
      <4>3. ~mixed'[t] => Claim(t)'
        BY <4>1, <4>2 DEF Claim
      <4> QED BY <1>c, <2>1, <2>2, <4>3
    <3>4. CASE Tool(t) = "set_object_enabled"
      <4>1. ~mixed'[t] => dir'[User(t)].disabled = ~call[t].enabled
        BY <3>2, <3>4 DEF NewFlags
      <4>2. Tool(t)' = "set_object_enabled" /\ User(t)' = User(t)
        BY <3>1, <3>4 DEF Tool, User
      <4>3. ~mixed'[t] => Claim(t)'
        BY <3>1, <4>1, <4>2 DEF Claim
      <4> QED BY <1>c, <2>1, <2>2, <4>3
    <3> QED BY <2>1, <3>3, <3>4 DEF FlagTools
  <2> QED BY <1>5, <1>f, <1>r, <2>1, <2>2 DEF WriteFlags
<1>6. CASE UpdateUser(t) \/ ChangeMember(t)
  <2>1. Tool(t) \in {"update_user", "add_group_member"}
    BY <1>6 DEF UpdateUser, ChangeMember
  <2>2. ASSUME Accepted(t) PROVE Claim(t)'
    <3>1. Tool(t)' = Tool(t)
      BY <2>2 DEF Accepted, Tool
    <3> QED BY <2>1, <3>1 DEF Claim
  <2> QED BY <1>6, <1>c, <1>r, <2>1, <2>2 DEF UpdateUser, ChangeMember
<1>7. CASE DeleteObject(t)
  <2>1. Tool(t) = "delete_object" /\ pc[t] = "modify"
    BY <1>7 DEF DeleteObject
  <2>2. CASE dir' = [dir EXCEPT ![User(t)] = None] /\ Accepted(t)
    <3>1. Tool(t)' = "delete_object" /\ User(t)' = User(t)
      BY <2>1, <2>2 DEF Accepted, Tool, User
    <3>2. User(t) \in Users
      BY <2>1, CallType
    <3>3. dir'[User(t)] = None
      BY <1>t, <2>2, <3>2 DEF TypeOK
    <3>4. Claim(t)'
      BY <3>1, <3>3 DEF Claim
    <3> QED BY <1>c, <2>1, <2>2, <3>4
  <2> QED BY <1>7, <1>f, <1>r, <2>1, <2>2 DEF DeleteObject
<1>8. CASE Result(t)
  <2>1. CASE Return(t)
    BY <1>f, <2>1 DEF Return
  <2>2. CASE result /\ Done(t, "replyOk") /\ UNCHANGED <<dir, connection, call>>
    <3>1. pc[t] = "result" /\ pc'[t] = "replyOk"
      BY <1>8, <1>b, <2>2 DEF Result, Done
    <3>2. ASSUME ~mixed'[t], User(t) \notin changed'[t] \cap Watched(t)' PROVE Claim(t)'
      <4>1. Watched(t)' = Watched(t)
        BY <2>2, <3>1 DEF Watched, Tool, User
      <4>2. ~mixed[t] /\ User(t) \notin changed[t] \cap Watched(t)
        BY <3>1, <3>2, <4>1, MemoryOfMoving
      <4>3. Claim(t) /\ Tool(t) # "get_user"
        BY <1>a, <2>2, <3>1, <4>2 DEF AnswerAt, FlagTools
      <4> QED BY <2>2, <4>3, ClaimStays
    <3>3. User(t)' = User(t)
      BY <2>2 DEF User
    <3> QED BY <3>1, <3>2, <3>3 DEF AnswerAt
  <2> QED BY <1>8, <2>1, <2>2 DEF Result
<1>9. CASE CreateUser(t)
  <2>1. pc[t] = "newUser" /\ Tool(t) = "create_user"
    BY <1>9, <1>a DEF CreateUser, AnswerAt
  <2>2. CASE Goto(t, "replyOk") /\ UNCHANGED call
    <3>1. Tool(t)' = "create_user" /\ pc'[t] = "replyOk"
      BY <1>b, <2>1, <2>2 DEF Tool
    <3>2. Claim(t)'
      BY <3>1 DEF Claim, FlagTools
    <3> QED BY <3>1, <3>2 DEF AnswerAt
  <2> QED BY <1>9, <1>f, <2>2 DEF CreateUser
<1> QED BY <1>1, <1>2, <1>3, <1>4, <1>5, <1>6, <1>7, <1>8, <1>9 DEF Step

\* A positive answer tells the truth, unless operations of another worker were mixed
\* with the tool's or the object was changed since.
THEOREM Answers == HSpec => []AnswersHold
<1>1. HInit => AnswerInv
  BY DEF HInit, Init, AnswerInv, AnswerAt
<1>2. IndInv /\ HInv /\ AnswerInv /\ [HNext]_hvars => AnswerInv'
  <2> SUFFICES ASSUME IndInv, HInv, AnswerInv, [HNext]_hvars, NEW t \in Threads
               PROVE  AnswerAt(t)'
    BY DEF AnswerInv
  <2>1. CASE UNCHANGED hvars
    <3>1. Claim(t)' <=> Claim(t)
      BY <2>1 DEF hvars, vars, local, Claim, Tool, User
    <3>2. Watched(t)' = Watched(t)
      BY <2>1 DEF hvars, vars, local, Watched, Tool, User
    <3> QED BY <2>1, <3>1, <3>2
            DEF hvars, vars, connection, local, AnswerInv, AnswerAt, Tool, User
  <2>2. ASSUME HNext, NEW s \in Threads, Submit(s) \/ Step(s) PROVE AnswerAt(t)'
    <3>1. CASE t = s
      BY <2>2, <3>1, AnswerMove DEF HNext
    <3>2. CASE t # s
      <4>1. pc'[t] = pc[t] /\ call'[t] = call[t] /\ dn'[t] = dn[t]
        BY <2>2, <3>2, OthersStay
      <4>2. result' = result \/ Interferes(t)
        BY <2>2, <3>2, ResultStep DEF Operates, Interferes
      <4> QED BY <2>2, <4>1, <4>2, AnswerStays DEF HNext
    <3> QED BY <3>1, <3>2
  <2>3. ASSUME HNext, NEW u \in Users, LockedOut(u) PROVE AnswerAt(t)'
    BY <2>3, AnswerStays DEF HNext, LockedOut, connection, local
  <2> QED BY <2>1, <2>2, <2>3 DEF HNext, Next
<1>3. AnswerInv => AnswersHold
  BY DEF AnswerInv, AnswerAt, AnswersHold
<1> QED BY <1>1, <1>2, <1>3, HistoryInvariance, PTL DEF HSpec
=============================================================================
