--------------------------- MODULE DirectoryHistory ---------------------------
(***************************************************************************)
(* DirectoryTools with two history variables, which no action reads: whose *)
(* operations came between a tool's operation and its look at what that    *)
(* left, and what was changed since a tool looked.  They say when the      *)
(* tools of a shared connection can be relied on.                          *)
(***************************************************************************)
EXTENDS DirectoryTools

VARIABLES
    mixed,   \* another worker's operation came before the tool read its own's output
    changed  \* what others have changed since the tool's (first) search began

hvars == <<vars, mixed, changed>>

HInit == Init /\ mixed = [t \in Threads |-> FALSE] /\ changed = [t \in Threads |-> {}]

\* Another worker performs an operation on the connection.
Interferes(t) ==
    \E s \in Threads \ {t} :
        pc[s] \in {"find", "findMember", "modify"} /\ pc'[s] \in {"read", "readMember", "result"}

Changes == {u \in Users : dir'[u] # dir[u]}

\* The accounts whose changes matter to a tool: none before it has read, then any
\* whose entry it may have found, then the one it was called for.
Watched(t) ==
    CASE pc[t] = "read" /\ Tool(t) \in FlagTools -> Users
      [] pc[t] = "modify" /\ Tool(t) \in FlagTools -> {dn[t], User(t)}
      [] /\ pc[t] \in {"result", "replyOk"}
         /\ Tool(t) \in FlagTools \cup {"delete_object"} -> {User(t)}
      [] OTHER -> {}

Remember ==
    /\ mixed' = [t \in Threads |->
          /\ pc'[t] # "idle"
          /\ \/ mixed[t]
             \/ pc[t] \in {"read", "readMember", "result"} /\ Interferes(t)]
    /\ changed' = [t \in Threads |->
          IF pc[t] = "idle" \/ pc'[t] = "idle" THEN {}
          ELSE (changed[t] \cup (IF pc'[t] = pc[t] THEN Changes ELSE {})) \cap Watched(t)']

HNext == Next /\ Remember
HSpec == HInit /\ [][HNext]_hvars

-----------------------------------------------------------------------------
\* A write goes where the call says, and a group gets the member that was named,
\* unless operations of another worker were mixed with the tool's.
WritesNamedAt(t) ==
    pc[t] = "modify" /\ ~mixed[t] =>
        /\ Tool(t) \in FlagTools \cup {"update_user"} => dn[t] = User(t)
        /\ Tool(t) = "add_group_member" => dn[t] = Group /\ member[t] = User(t)

WritesNamed == \A t \in Threads : WritesNamedAt(t)

\* userAccountControl is replaced as a whole.  Still, a write changes the flag that
\* the tool is for and no other, as long as nobody changed the account since the tool
\* began to search.  unlock_user keeps that even when it has got the entry of another
\* worker's search; set_object_enabled, which does not take the DN from the entry,
\* only without such a mix-up.
FlagsKeptBy(t) ==
    pc[t] = "modify" /\ pc'[t] # pc[t] /\ Tool(t) \in FlagTools /\ dn[t] \notin changed[t]
    /\ (Tool(t) = "set_object_enabled" => ~mixed[t])
    => \A u \in Changes :
          IF Tool(t) = "unlock_user" THEN dir'[u].disabled = dir[u].disabled
          ELSE dir'[u].locked = dir[u].locked

FlagsKept == [][\A t \in Threads : FlagsKeptBy(t)]_hvars

\* What each tool's positive answer says of the directory.  create_user's says nothing:
\* it is the same when no account was made.
Claim(t) ==
    CASE Tool(t) = "unlock_user" -> ~dir[User(t)].locked
      [] Tool(t) = "set_object_enabled" -> dir[User(t)].disabled = ~call[t].enabled
      [] Tool(t) = "delete_object" -> dir[User(t)] = None
      [] Tool(t) = "get_user" -> dn[t] = User(t)
      [] OTHER -> TRUE

\* A positive answer tells the truth, unless operations were mixed or another
\* worker has changed the object since.
AnswersHold ==
    \A t \in Threads :
        pc[t] = "replyOk" /\ ~mixed[t] /\ User(t) \notin changed[t]
            => Claim(t)

-----------------------------------------------------------------------------
(* The facts that make WritesNamed inductive, and FlagsKept true *)

\* What the connection holds for a worker that has searched and not looked yet.
OwnEntryAt(t) ==
    pc[t] \in {"read", "readMember"} /\ ~mixed[t] /\ entries # None =>
        entries.dn = IF pc[t] = "read" THEN Target(t) ELSE User(t)

\* The flags in the connection are those of its entry, of a moment since the search.
FreshEntryAt(t) ==
    pc[t] = "read" /\ Tool(t) \in FlagTools /\ entries # None /\ entries.uac # None
    /\ entries.dn \notin changed[t]
        => entries.uac = dir[entries.dn]

\* A member tool has the group's DN when it searches for the member.
OwnGroupAt(t) ==
    pc[t] \in {"findMember", "readMember"} /\ ~mixed[t] => dn[t] = Group

\* The flags a tool is going to write back are those of the account, likewise.
FreshFlagsAt(t) ==
    pc[t] = "modify" /\ Tool(t) \in FlagTools /\ dn[t] \notin changed[t]
    /\ (Tool(t) = "set_object_enabled" => ~mixed[t])
        => dn[t] \in Users /\ uac[t] = dir[dn[t]]

OwnEntry == \A t \in Threads : OwnEntryAt(t)
FreshEntry == \A t \in Threads : FreshEntryAt(t)
OwnGroup == \A t \in Threads : OwnGroupAt(t)
FreshFlags == \A t \in Threads : FreshFlagsAt(t)

HInv == WritesNamed /\ FreshFlags /\ OwnEntry /\ FreshEntry /\ OwnGroup

-----------------------------------------------------------------------------
(* What makes AnswersHold inductive *)

\* What a tool has changed by its operation is so, if conn.result still tells of it.
AnswerAt(t) ==
    /\ pc[t] = "newUser" => Tool(t) = "create_user"
    /\ pc[t] = "result" =>
          Tool(t) \in FlagTools \cup {"update_user", "add_group_member", "delete_object"}
    /\ /\ pc[t] \in {"result", "replyOk"}
       /\ ~mixed[t]
       /\ User(t) \notin changed[t] \cap Watched(t)
       /\ pc[t] = "result" => result
       => Claim(t)

AnswerInv == \A t \in Threads : AnswerAt(t)
=============================================================================
