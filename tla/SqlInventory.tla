---------------------------- MODULE SqlInventory ----------------------------
(***************************************************************************)
(* The inventory tools of the SQL server: hosts, VMs on hosts, networks    *)
(* and users, in tables that concurrent workers change one statement at a  *)
(* time.  Every statement is a transaction of its own (DBPool.execute      *)
(* commits it); a tool that names a VM, a user or the host of a VM first   *)
(* looks for its id.  PostgreSQL is external: it keeps names unique and    *)
(* links valid where the tables say so.                                    *)
(*                                                                         *)
(* A row has an id, a name, the id of its host (VMs only), and says        *)
(* whether an update has changed any of its other fields.                  *)
(***************************************************************************)
EXTENDS Workers, Naturals, FiniteSets, Sequences, Functions

CONSTANTS
    Names,    \* the names that calls give for the rows of each table
    MaxId     \* bound on the rows ever inserted

Kinds == {"hosts", "vms", "networks", "ad_users"}

ASSUME InventoryAssumption ==
    /\ DOMAIN Names = Kinds /\ MaxId \in Nat
    /\ None \notin Nat /\ \A k \in Kinds : None \notin Names[k]

VARIABLES
    tables,  \* the tables that exist
    loose,   \* those of them whose names need not be unique (not made by init_schema)
    rows,    \* the rows of each table
    lastId,  \* the last id given to a row
    call,    \* its tool and what it names
    host,    \* the host id it has looked up, or None
    row,     \* the id of the row it has looked up, or None
    seen     \* what it has read for its answer

db == <<tables, loose, rows, lastId>>
local == <<host, row, seen>>
vars == <<db, pc, call, local>>

\* Tables in which a tool changes a row by its id, after it has looked for the name.
ById == {"vms", "ad_users"}
AllNames == UNION Range(Names)
Rows == [id : 1..MaxId, name : AllNames, host : 1..MaxId \cup {None}, changed : BOOLEAN]
Deeds == {"add", "update", "delete", "get", "list", "summary", "init", "backup"}
\* `host` is the host an add_vm or update_vm names, or None.
Calls == [deed : Deeds, kind : Kinds, name : AllNames \cup {None}, host : Names["hosts"] \cup {None}]

Named(kind, name) == {r \in rows[kind] : r.name = name}
Mine(t) == {r \in rows[call[t].kind] : r.id = row[t]}

\* Every statement fails without its table.
At(t, label, kinds) == pc[t] = label /\ kinds \subseteq tables
Answer(t, answer) == Goto(t, answer) /\ UNCHANGED <<call, local>>
\* What a statement answers that the server has committed: the connection may break before
\* commit() has returned, and the call raises (init_schema answers an error).
Committed(t, answer) == Answer(t, answer) \/ Answer(t, IF pc[t] = "init" THEN "error" ELSE "raised")

-----------------------------------------------------------------------------
NoCall == [deed |-> "list", kind |-> "hosts", name |-> None, host |-> None]

\* An empty database, or one that others have filled with tables of these names.
Init ==
    /\ \/ tables = {} /\ loose = {}
       \/ tables = Kinds /\ loose \in {{}, Kinds}
    /\ rows = [k \in Kinds |-> {}]
    /\ lastId = 0
    /\ pc = [t \in Threads |-> "idle"]
    /\ call = [t \in Threads |-> NoCall]
    /\ host = [t \in Threads |-> None]
    /\ row = [t \in Threads |-> None]
    /\ seen = [t \in Threads |-> <<>>]

\* The statement a tool begins with.
First(c) ==
    IF c.deed \in {"add", "update"} /\ c.host # None THEN "resolve"
    ELSE CASE c.deed = "add" -> "insert"
           [] c.deed \in {"update", "delete"} -> IF c.kind \in ById THEN "find" ELSE "byName"
           [] c.deed = "get" -> IF c.kind = "vms" THEN "find" ELSE "get"
           [] OTHER -> c.deed

\* A call says no more than its tool asks for.
Sensible(c) ==
    /\ c.host # None => c.kind = "vms" /\ c.deed \in {"add", "update"}
    /\ IF c.deed \in {"list", "summary", "init", "backup"} THEN c.name = None
       ELSE c.name \in Names[c.kind]
    /\ c.deed \in {"summary", "init", "backup"} => c.kind = "hosts"

Submit(t) ==
    /\ pc[t] = "idle"
    /\ \E c \in Calls :
          /\ Sensible(c)
          /\ call' = [call EXCEPT ![t] = c]
          /\ Goto(t, First(c))
    /\ UNCHANGED <<db, local>>

\* update_vm and update_user with nothing to change, before any statement.
NoChanges(t) ==
    /\ pc[t] \in {"find", "byName"} /\ call[t].deed = "update" /\ call[t].host = None
    /\ Answer(t, "no_changes")
    /\ UNCHANGED db

-----------------------------------------------------------------------------
(* The statements *)

\* _resolve_host_id raises unless it finds one host.
Resolve(t) ==
    /\ At(t, "resolve", {"hosts"})
    /\ \E r \in Named("hosts", call[t].host) :
          /\ Named("hosts", call[t].host) = {r}
          /\ host' = [host EXCEPT ![t] = r.id]
    /\ Goto(t, IF call[t].deed = "add" THEN "insert" ELSE "find")
    /\ UNCHANGED <<db, call, row, seen>>

\* Faulty variant: _resolve_unique_vm_id takes the first of several.
FindFirst(t) ==
    /\ At(t, "find", {call[t].kind})
    /\ LET found == Named(call[t].kind, call[t].name)
       IN \/ /\ found = {}
             /\ Answer(t, "error")
          \/ /\ \E r \in found : row' = [row EXCEPT ![t] = r.id]
             /\ Goto(t, IF call[t].deed = "get" THEN "read" ELSE "byId")
             /\ UNCHANGED <<call, host, seen>>
    /\ UNCHANGED db

Find(t) ==
    /\ At(t, "find", {call[t].kind})
    /\ LET found == Named(call[t].kind, call[t].name)
       IN \/ /\ Cardinality(found) # 1
             /\ Answer(t, "error")
          \/ /\ \E r \in found : found = {r} /\ row' = [row EXCEPT ![t] = r.id]
             /\ Goto(t, IF call[t].deed = "get" THEN "read" ELSE "byId")
             /\ UNCHANGED <<call, host, seen>>
    /\ UNCHANGED db

\* The host looked up is still there.
LinkHolds(t) == host[t] = None \/ \E r \in rows["hosts"] : r.id = host[t]

Insert(t) ==
    /\ At(t, "insert", {call[t].kind})
    /\ lastId < MaxId
    /\ call[t].kind \notin loose => Named(call[t].kind, call[t].name) = {}
    /\ LinkHolds(t)
    /\ lastId' = lastId + 1
    /\ rows' = [rows EXCEPT ![call[t].kind] = @ \cup
                   {[id |-> lastId', name |-> call[t].name, host |-> host[t],
                     changed |-> FALSE]}]
    /\ Committed(t, "ok")
    /\ UNCHANGED <<tables, loose>>

\* Faulty variant: an update writes the host whether or not the call names one.
ChangedAll(t, old) ==
    LET c == call[t]
        gone == {r.id : r \in old}
    IN IF c.deed = "update"
       THEN [rows EXCEPT ![c.kind] =
                (@ \ old) \cup {[r EXCEPT !.changed = TRUE, !.host = host[t]] : r \in old}]
       ELSE [k \in Kinds |->
                CASE k = c.kind -> rows[k] \ old
                  [] k = "vms" /\ c.kind = "hosts" ->
                        {IF r.host \in gone THEN [r EXCEPT !.host = None] ELSE r : r \in rows[k]}
                  [] OTHER -> rows[k]]

\* Faulty variant: the VMs of a host that goes keep their links.
ChangedDangling(t, old) ==
    LET c == call[t]
        New(r) == [r EXCEPT !.changed = TRUE, !.host = IF c.host = None THEN @ ELSE host[t]]
    IN IF c.deed = "update"
       THEN [rows EXCEPT ![c.kind] = (@ \ old) \cup {New(r) : r \in old}]
       ELSE [rows EXCEPT ![c.kind] = @ \ old]

\* What is left of the tables when a call has changed the rows `old` of its kind; a host
\* that goes takes the links of its VMs with it.
Changed(t, old) ==
    LET c == call[t]
        New(r) == [r EXCEPT !.changed = TRUE, !.host = IF c.host = None THEN @ ELSE host[t]]
        gone == {r.id : r \in old}
    IN IF c.deed = "update"
       THEN [rows EXCEPT ![c.kind] = (@ \ old) \cup {New(r) : r \in old}]
       ELSE [k \in Kinds |->
                CASE k = c.kind -> rows[k] \ old
                  [] k = "vms" /\ c.kind = "hosts" ->
                        {IF r.host \in gone THEN [r EXCEPT !.host = None] ELSE r : r \in rows[k]}
                  [] OTHER -> rows[k]]

\* One statement for all the rows of that name.
ChangeByName(t) ==
    /\ At(t, "byName", {call[t].kind})
    /\ LET old == Named(call[t].kind, call[t].name)
       IN /\ rows' = Changed(t, old)
          /\ Committed(t, IF old = {} THEN "error" ELSE "ok")
    /\ UNCHANGED <<tables, loose, lastId>>

\* Faulty variant: what the statement returns is not looked at.
ChangeByIdBlind(t) ==
    /\ At(t, "byId", {call[t].kind})
    /\ call[t].deed = "update" => LinkHolds(t)
    /\ rows' = Changed(t, Mine(t))
    /\ Committed(t, "ok")
    /\ UNCHANGED <<tables, loose, lastId>>

ChangeById(t) ==
    /\ At(t, "byId", {call[t].kind})
    /\ call[t].deed = "update" => LinkHolds(t)
    /\ rows' = Changed(t, Mine(t))
    /\ Committed(t, IF Mine(t) = {} THEN "error" ELSE "ok")
    /\ UNCHANGED <<tables, loose, lastId>>

\* get_host asks for the VMs of the host's id in a second statement; get_network and
\* get_user ask once, and get_user refuses more than one row.
Get(t) ==
    /\ At(t, "get", {call[t].kind})
    /\ LET found == Named(call[t].kind, call[t].name)
       IN \/ /\ found = {} \/ (call[t].kind = "ad_users" /\ Cardinality(found) > 1)
             /\ Answer(t, "error")
          \/ /\ call[t].kind = "ad_users" => Cardinality(found) = 1
             /\ \E r \in found : row' = [row EXCEPT ![t] = r.id]
             /\ Goto(t, IF call[t].kind = "hosts" THEN "vmsOf" ELSE "ok")
             /\ UNCHANGED <<call, host, seen>>
    /\ UNCHANGED db

VmsOf(t) ==
    /\ At(t, "vmsOf", {"vms"})
    /\ seen' = [seen EXCEPT ![t] = <<{r.name : r \in {r \in rows["vms"] : r.host = row[t]}}>>]
    /\ Goto(t, "ok")
    /\ UNCHANGED <<db, call, host, row>>

\* get_vm joins the row and its host by the id it has found.
Read(t) ==
    /\ At(t, "read", {"vms", "hosts"})
    /\ Answer(t, IF Mine(t) = {} THEN "error" ELSE "ok")
    /\ UNCHANGED db

\* get_summary: hosts by status, VMs by status, all hosts, all VMs.
Summary(t) ==
    /\ At(t, "summary", {"hosts", "vms"})
    /\ LET counted == IF Len(seen[t]) \in {0, 2} THEN "hosts" ELSE "vms"
       IN seen' = [seen EXCEPT ![t] = Append(@, Cardinality(rows[counted]))]
    /\ Goto(t, IF Len(seen[t]) = 3 THEN "ok" ELSE "summary")
    /\ UNCHANGED <<db, call, host, row>>

\* The lists and searches, in one statement each.
Select(t) ==
    /\ At(t, "list", {call[t].kind})
    /\ Answer(t, "ok")
    /\ UNCHANGED db

\* pg_dump reads in a transaction of its own; it may be refused, fail or run out of time.
Backup(t) ==
    /\ pc[t] = "backup"
    /\ \E answer \in {"ok", "error"} : Answer(t, answer)
    /\ UNCHANGED db

\* One transaction; tables that are there stay as they are.  It makes a table `users`,
\* of which no tool knows.
InitSchema(t) ==
    /\ pc[t] = "init"
    /\ tables' = tables \cup {"hosts", "vms", "networks", "users"}
    /\ Committed(t, "ok")
    /\ UNCHANGED <<loose, rows, lastId>>

\* A statement fails, for want of a table, a host or a connection, or for a name that is
\* taken.  init_schema answers an error.
Raise(t) ==
    /\ pc[t] \in {"resolve", "find", "insert", "byName", "byId", "get", "vmsOf", "read",
                  "summary", "list", "init"}
    /\ Answer(t, IF pc[t] = "init" THEN "error" ELSE "raised")
    /\ UNCHANGED db

Return(t) ==
    /\ pc[t] \in {"ok", "error", "raised", "no_changes"}
    /\ Goto(t, "idle")
    /\ call' = [call EXCEPT ![t] = NoCall]
    /\ host' = [host EXCEPT ![t] = None]
    /\ row' = [row EXCEPT ![t] = None]
    /\ seen' = [seen EXCEPT ![t] = <<>>]
    /\ UNCHANGED db

Step(t) ==
    \/ Submit(t) \/ NoChanges(t) \/ Resolve(t) \/ Find(t) \/ Insert(t) \/ ChangeByName(t)
    \/ ChangeById(t) \/ Get(t) \/ VmsOf(t) \/ Read(t) \/ Summary(t) \/ Select(t)
    \/ Backup(t) \/ InitSchema(t) \/ Raise(t) \/ Return(t)

Next == \E t \in Threads : Step(t)
Spec == Init /\ [][Next]_vars
=============================================================================
