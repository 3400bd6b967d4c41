---------------------------- MODULE DirectoryTools ----------------------------
(***************************************************************************)
(* The Active Directory server's tools on users, computers, groups and OUs *)
(* (tools/users.py, groups.py, objects.py, computers.py, ous.py, dc.py),   *)
(* called concurrently on one domain controller.                           *)
(*                                                                         *)
(* LDAPPool hands every worker the same ldap3 connection.  ldap3 runs one  *)
(* operation of it at a time, and leaves what the operation produced in    *)
(* the connection: `entries` after a search, `result` after any operation. *)
(* A tool reads them in a later step, when another worker's operation may  *)
(* have replaced them.                                                     *)
(*                                                                         *)
(* The directory is external.  Of userAccountControl the two flags that    *)
(* the code changes are kept, of a search the entry the tool looks at.     *)
(***************************************************************************)
EXTENDS Workers, FiniteSets

CONSTANTS
    Users,    \* the accounts, computers included
    Group     \* a group

\* userAccountControl: its bits UAC_DISABLED and UAC_LOCKOUT.
Flags == [disabled : BOOLEAN, locked : BOOLEAN]
Named == Users \cup {Group}

\* What a search found: the object; whether the search asked for its
\* distinguishedName; its userAccountControl, if it asked for that.
Entries == [dn : Named, named : BOOLEAN, uac : Flags \cup {None}]

\* "get_user" stands for every tool that searches and answers from the entries, and
\* "add_group_member" for remove_group_member, too.  What create_group, create_ou and
\* move_object do to the connection, delete_object and update_user do.
Tools == {"get_user", "update_user", "unlock_user", "set_object_enabled",
          "add_group_member", "delete_object", "create_user"}
Calls == [tool : Tools, user : Users, enabled : BOOLEAN]

ASSUME NoneAssumption ==
    /\ None \notin Named \cup Entries \cup Flags \cup Calls
    /\ Group \notin Users

VARIABLES
    dir,      \* account |-> its flags, or None
    entries,  \* conn.entries[0] of the shared connection, or None
    result,   \* conn.result["result"] = 0
    call,     \* the tool call a worker runs, or None
    dn,       \* the DN the tool is going to write to, from an entry
    member,   \* the member's DN, from an entry
    uac       \* the userAccountControl the tool has read

connection == <<entries, result>>
local == <<dn, member, uac>>
vars == <<dir, connection, pc, call, local>>

FlagTools == {"unlock_user", "set_object_enabled"}

Labels == {"idle", "find", "read", "findMember", "readMember", "modify", "result",
           "newUser", "replyOk"}

Tool(t) == call[t].tool
User(t) == call[t].user

-----------------------------------------------------------------------------
Init ==
    /\ dir \in [Users -> Flags \cup {None}]
    /\ entries = None
    /\ result = TRUE
    /\ pc = [t \in Threads |-> "idle"]
    /\ call = [t \in Threads |-> None]
    /\ dn = [t \in Threads |-> None]
    /\ member = [t \in Threads |-> None]
    /\ uac = [t \in Threads |-> None]

\* The first operation of a tool on the directory.
FirstStep(tool) ==
    CASE tool = "create_user" -> "newUser"
      [] tool = "delete_object" -> "modify"
      [] OTHER -> "find"

Submit(t) ==
    /\ pc[t] = "idle"
    /\ \E c \in Calls :
          /\ c.tool # "set_object_enabled" => c.enabled
          /\ call' = [call EXCEPT ![t] = c]
          /\ Goto(t, FirstStep(c.tool))
    /\ UNCHANGED <<dir, connection, local>>

\* The tool needs its local variables no more.
Done(t, label) ==
    /\ Goto(t, label)
    /\ dn' = [dn EXCEPT ![t] = None]
    /\ member' = [member EXCEPT ![t] = None]
    /\ uac' = [uac EXCEPT ![t] = None]

\* The worker is free again: it has answered, with the error or with the outcome.
Free(t) ==
    /\ Done(t, "idle")
    /\ call' = [call EXCEPT ![t] = None]
    /\ UNCHANGED connection

Return(t) == Free(t) /\ UNCHANGED dir

\* The DC is not registered or does not answer, the connection is lost or was unbound
\* by remove_dc: the operation raises before it has reached the directory.
Raises(t) ==
    /\ pc[t] \in {"find", "findMember", "modify", "newUser"}
    /\ Return(t)

-----------------------------------------------------------------------------
(* Searches *)

\* One search, with attrs among "dn" and "uac".  It finds the object or, where it was
\* told to look, nothing; a DN that does not exist is an error for the DC, too.
Search(t, target, attrs) ==
    /\ \/ entries' = None
       \/ /\ target \in Users => dir[target] # None
          /\ entries' = [dn |-> target, named |-> "dn" \in attrs,
                         uac |-> IF "uac" \in attrs THEN dir[target] ELSE None]
    /\ result' = (entries' # None \/ Tool(t) # "set_object_enabled")
    /\ UNCHANGED <<dir, call, local>>

\* The attributes of the tool's first search.
Asked(t) ==
    CASE Tool(t) = "set_object_enabled" -> {"uac"}
      [] Tool(t) \in {"get_user", "unlock_user"} -> {"dn", "uac"}
      [] OTHER -> {"dn"}

Target(t) == IF Tool(t) = "add_group_member" THEN Group ELSE User(t)

\* Faulty variant: what the connection holds stays when the search finds nothing.
FindKeeps(t) ==
    /\ pc[t] = "find"
    /\ \/ Search(t, Target(t), Asked(t))
       \/ UNCHANGED <<dir, connection, call, local>>
    /\ Goto(t, "read")

\* The tool's first search.
Find(t) ==
    /\ pc[t] = "find"
    /\ Search(t, Target(t), Asked(t))
    /\ Goto(t, "read")

\* The search for the member of the group.
FindMember(t) ==
    /\ pc[t] = "findMember"
    /\ Search(t, User(t), {"dn"})
    /\ Goto(t, "readMember")

-----------------------------------------------------------------------------
(* Reading conn.entries: without an entry every tool answers an error *)

NothingFound(t) ==
    /\ pc[t] \in {"read", "readMember"}
    /\ entries = None
    /\ Return(t)

\* It raises to take from an entry an attribute that its search did not ask for;
\* get_user leaves such a field empty.
NotInEntry(t) ==
    /\ pc[t] \in {"read", "readMember"}
    /\ entries # None
    /\ \/ Tool(t) \in {"update_user", "add_group_member", "unlock_user"} /\ ~entries.named
       \/ Tool(t) \in FlagTools /\ entries.uac = None
    /\ Return(t)

\* A tool that answers from the entry.
ReadUser(t) ==
    /\ pc[t] = "read" /\ Tool(t) = "get_user"
    /\ entries # None
    /\ dn' = [dn EXCEPT ![t] = entries.dn]
    /\ Goto(t, "replyOk")
    /\ UNCHANGED <<dir, connection, call, member, uac>>

\* _find_user_dn.
ReadName(t) ==
    /\ pc[t] = "read" /\ Tool(t) = "update_user"
    /\ entries # None /\ entries.named
    /\ dn' = [dn EXCEPT ![t] = entries.dn]
    /\ Goto(t, "modify")
    /\ UNCHANGED <<dir, connection, call, member, uac>>

\* update_user was given nothing to change.
NoChanges(t) ==
    /\ pc[t] = "modify" /\ Tool(t) = "update_user"
    /\ Return(t)

\* _find_dn of the group.
ReadGroup(t) ==
    /\ pc[t] = "read" /\ Tool(t) = "add_group_member"
    /\ entries # None /\ entries.named
    /\ dn' = [dn EXCEPT ![t] = entries.dn]
    /\ Goto(t, "findMember")
    /\ UNCHANGED <<dir, connection, call, member, uac>>

ReadMember(t) ==
    /\ pc[t] = "readMember"
    /\ entries # None /\ entries.named
    /\ member' = [member EXCEPT ![t] = entries.dn]
    /\ Goto(t, "modify")
    /\ UNCHANGED <<dir, connection, call, dn, uac>>

\* unlock_user takes DN and flags from one entry.
ReadLocked(t) ==
    /\ pc[t] = "read" /\ Tool(t) = "unlock_user"
    /\ entries # None /\ entries.named /\ entries.uac # None
    /\ dn' = [dn EXCEPT ![t] = entries.dn]
    /\ uac' = [uac EXCEPT ![t] = entries.uac]
    /\ Goto(t, "modify")
    /\ UNCHANGED <<dir, connection, call, member>>

\* Faulty variant: an entry without the flags is not refused.
ReadEnabledBlind(t) ==
    /\ pc[t] = "read" /\ Tool(t) = "set_object_enabled"
    /\ entries # None
    /\ dn' = [dn EXCEPT ![t] = User(t)]
    /\ uac' = [uac EXCEPT ![t] = entries.uac]
    /\ Goto(t, "modify")
    /\ UNCHANGED <<dir, connection, call, member>>

\* set_object_enabled was given the DN, and takes the flags from the entry.
ReadEnabled(t) ==
    /\ pc[t] = "read" /\ Tool(t) = "set_object_enabled"
    /\ entries # None /\ entries.uac # None
    /\ dn' = [dn EXCEPT ![t] = User(t)]
    /\ uac' = [uac EXCEPT ![t] = entries.uac]
    /\ Goto(t, "modify")
    /\ UNCHANGED <<dir, connection, call, member>>

-----------------------------------------------------------------------------
(* Writes.  The DC may refuse any of them: then nothing changes.  Of one it has *)
(* performed, the response may be lost (receive_timeout): the operation raises. *)
(* Whether ldap3 keeps the entries of the last search is left open.             *)

Refused(t) ==
    /\ result' = FALSE
    /\ entries' \in {entries, None}
    /\ Done(t, "result")
    /\ UNCHANGED <<dir, call>>

Accepted(t) ==
    /\ result' = TRUE
    /\ entries' \in {entries, None}
    /\ Done(t, "result")
    /\ UNCHANGED call

\* Faulty variant: the flags are read from the connection again.
NewFlagsAgain(t) ==
    LET flags == IF entries = None \/ entries.uac = None THEN uac[t] ELSE entries.uac IN
    IF Tool(t) = "unlock_user" THEN [disabled |-> flags.disabled, locked |-> FALSE]
    ELSE [disabled |-> ~call[t].enabled, locked |-> flags.locked]

NewFlags(t) ==
    IF Tool(t) = "unlock_user" THEN [disabled |-> uac[t].disabled, locked |-> FALSE]
    ELSE [disabled |-> ~call[t].enabled, locked |-> uac[t].locked]

\* userAccountControl is replaced as a whole.
WriteFlags(t) ==
    /\ pc[t] = "modify" /\ Tool(t) \in FlagTools
    /\ \/ Refused(t)
       \/ /\ dn[t] \in Users
          /\ dir[dn[t]] # None
          /\ dir' = [dir EXCEPT ![dn[t]] = NewFlags(t)]
          /\ Accepted(t) \/ Free(t)

\* Of update_user's attributes none is kept.
UpdateUser(t) ==
    /\ pc[t] = "modify" /\ Tool(t) = "update_user"
    /\ Refused(t) \/ (Accepted(t) /\ UNCHANGED dir)

\* The DC refuses members of what is no group.
ChangeMember(t) ==
    /\ pc[t] = "modify" /\ Tool(t) = "add_group_member"
    /\ \/ Refused(t)
       \/ /\ dn[t] = Group
          /\ member[t] \in Users
          /\ dir[member[t]] # None
          /\ Accepted(t)
          /\ UNCHANGED dir

DeleteObject(t) ==
    /\ pc[t] = "modify" /\ Tool(t) = "delete_object"
    /\ \/ Refused(t)
       \/ /\ dir[User(t)] # None
          /\ dir' = [dir EXCEPT ![User(t)] = None]
          /\ Accepted(t) \/ Free(t)

\* Faulty variant: the answer does not depend on conn.result.
ResultIgnored(t) ==
    /\ pc[t] = "result"
    /\ Done(t, "replyOk")
    /\ UNCHANGED <<dir, connection, call>>

Result(t) ==
    /\ pc[t] = "result"
    /\ IF result THEN Done(t, "replyOk") /\ UNCHANGED <<dir, connection, call>>
       ELSE Return(t)

\* New-ADUser, over a WinRM session of its own: it makes the account, makes it and leaves
\* it disabled (the password was refused), or makes none.  It does not run under
\* -ErrorAction Stop, and the script's last statement is Write-Output 'ok': whatever it
\* did, the answer is "ok", unless the session itself fails or its answer is lost.
CreateUser(t) ==
    /\ pc[t] = "newUser"
    /\ \/ UNCHANGED dir
       \/ /\ dir[User(t)] = None
          /\ \E d \in BOOLEAN :
                dir' = [dir EXCEPT ![User(t)] = [disabled |-> d, locked |-> FALSE]]
    /\ \/ Goto(t, "replyOk") /\ UNCHANGED <<connection, call, local>>
       \/ Free(t)

Reply(t) == pc[t] = "replyOk" /\ Return(t)

\* Failed logons lock the account.
LockedOut(u) ==
    /\ dir[u] # None /\ ~dir[u].locked
    /\ dir' = [dir EXCEPT ![u] = [disabled |-> @.disabled, locked |-> TRUE]]
    /\ UNCHANGED <<connection, pc, call, local>>

Step(t) ==
    \/ Raises(t) \/ Find(t) \/ FindMember(t)
    \/ NothingFound(t) \/ NotInEntry(t)
    \/ ReadUser(t) \/ ReadName(t) \/ ReadGroup(t) \/ ReadMember(t)
    \/ ReadLocked(t) \/ ReadEnabled(t)
    \/ WriteFlags(t) \/ UpdateUser(t) \/ NoChanges(t) \/ ChangeMember(t) \/ DeleteObject(t)
    \/ Result(t) \/ CreateUser(t) \/ Reply(t)

Next ==
    \/ \E t \in Threads : Submit(t) \/ Step(t)
    \/ \E u \in Users : LockedOut(u)

Spec == Init /\ [][Next]_vars

-----------------------------------------------------------------------------
TypeOK ==
    /\ dir \in [Users -> Flags \cup {None}]
    /\ entries \in Entries \cup {None}
    /\ result \in BOOLEAN
    /\ pc \in [Threads -> Labels]
    /\ call \in [Threads -> Calls \cup {None}]
    /\ dn \in [Threads -> Named \cup {None}]
    /\ member \in [Threads -> Named \cup {None}]
    /\ uac \in [Threads -> Flags \cup {None}]

\* A worker is only where its tool leads, and writes only what it has read.
Stage(t) ==
    /\ pc[t] # "idle" => call[t] # None
    /\ pc[t] \in {"findMember", "readMember"} => Tool(t) = "add_group_member"
    /\ pc[t] \in {"find", "read"} => Tool(t) \notin {"delete_object", "create_user"}
    /\ pc[t] = "modify" =>
          /\ Tool(t) \in FlagTools => dn[t] # None /\ uac[t] # None
          /\ Tool(t) = "add_group_member" => member[t] # None

StageOK ==
    /\ \A t \in Threads : Stage(t)
    /\ entries # None => (entries.uac # None => entries.dn \in Users)

IndInv == TypeOK /\ StageOK

-----------------------------------------------------------------------------
(* What the server's texts say and the code does not do *)

\* The tool table: "Unlock a locked-out AD user account.", the one it was called
\* for.
UnlocksItsUser ==
    [][\A t \in Threads :
          pc[t] = "modify" /\ Tool(t) = "unlock_user" /\ pc'[t] # pc[t] =>
              \A u \in Users \ {User(t)} : dir'[u] = dir[u]]_vars
=============================================================================
