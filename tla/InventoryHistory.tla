-------------------------- MODULE InventoryHistory --------------------------
(***************************************************************************)
(* SqlInventory with what its answers are judged by: the rows each call    *)
(* has written, and the calls during which nobody else has written any.    *)
(***************************************************************************)
EXTENDS SqlInventory

VARIABLES wrote, alone

hvars == <<vars, wrote, alone>>

HInit == Init /\ wrote = [t \in Threads |-> {}] /\ alone = Threads

\* The rows of a kind that a step adds, changes or deletes, by id and name.
Written(kind) == {<<r.id, r.name>> : r \in (rows[kind] \ rows'[kind]) \cup (rows'[kind] \ rows[kind])}

HNext == \E t \in Threads :
    /\ Step(t)
    /\ wrote' = [u \in Threads |-> IF pc'[u] = "idle" THEN {}
                                   ELSE IF u = t THEN wrote[u] \cup Written(call[u].kind)
                                   ELSE wrote[u]]
    /\ alone' = {u \in Threads : \/ pc'[u] = "idle"
                                 \/ u \in alone /\ (u = t \/ <<rows, tables>>' = <<rows, tables>>)}
HSpec == HInit /\ [][HNext]_hvars

-----------------------------------------------------------------------------
Answers == {"ok", "error", "raised", "no_changes"}
Changing == {"add", "update", "delete"}

\* Whatever other calls did in between: "ok" means that the call has written rows of the
\* name it was given, one row if it is a VM, a user or new; "raised" that it has written
\* what "ok" would say or nothing; any other answer that it has written nothing.
AnswersTellWrites ==
    \A t \in Threads : pc[t] \in Answers =>
       /\ \A r \in wrote[t] : r[2] = call[t].name
       /\ call[t].kind \in ById \/ call[t].deed = "add" => Cardinality(wrote[t]) <= 1
       /\ pc[t] = "ok" /\ call[t].deed \in {"add", "delete"} => wrote[t] # {}
       /\ pc[t] \notin {"ok", "raised"} \/ call[t].deed \notin Changing => wrote[t] = {}

\* The worker t has answered a call that names r and, for its host, a host of that id.
PutBy(t, r) ==
    /\ pc[t] \notin Answers /\ pc'[t] \in Answers /\ call[t].name = r.name
    /\ \E h \in rows["hosts"] : h.id = r.host /\ h.name = call[t].host

Relinks ==
    \A r \in rows'["vms"] :
       ~ (\E s \in rows["vms"] : s.id = r.id /\ s.host = r.host) =>
          IF r.host = None
          THEN \A s \in rows["vms"] : s.id = r.id => ~ \E h \in rows'["hosts"] : h.id = s.host
          ELSE \E t \in Threads : PutBy(t, r)

\* A VM is put on a host only by a call that names the two, although they were looked up
\* in earlier transactions, and it loses its host only with the host.
LinksNamed == [][Relinks]_hvars

\* The answer of a call during which nobody else has written.
AnswerHolds(t) ==
    LET c == call[t]
        found == Named(c.kind, c.name)
    IN /\ pc[t] = "ok" /\ c.deed \in {"add", "update"} =>
             \E r \in found : /\ r.changed = (c.deed = "update")
                              /\ c.host = None \/ r.host = host[t]
       /\ pc[t] = "ok" /\ c.deed \in {"update", "get"} /\ c.kind \in ById =>
             Cardinality(found) = 1
       /\ pc[t] = "ok" /\ c.deed = "delete" => found = {}
       /\ pc[t] = "error" /\ c.deed \in {"update", "delete", "get"} => Cardinality(found) # 1
       /\ pc[t] = "ok" /\ c.deed = "get" /\ c.kind = "hosts" =>
             seen[t] = <<{r.name : r \in {r \in rows["vms"] : r.host = row[t]}}>>
       /\ pc[t] = "ok" /\ c.deed = "summary" =>
             seen[t][1] = seen[t][3] /\ seen[t][2] = seen[t][4]
AnswersHold == \A t \in alone : AnswerHolds(t)

-----------------------------------------------------------------------------
(* The inductive invariant. *)

Labels == {"idle", "resolve", "find", "insert", "byName", "byId", "get", "vmsOf", "read", "summary",
           "list", "init", "backup"} \cup Answers

TypeOK ==
    /\ tables \subseteq Kinds \cup {"users"} /\ loose \subseteq tables
    /\ rows \in [Kinds -> SUBSET Rows]
    /\ lastId \in 0..MaxId
    /\ pc \in [Threads -> Labels]
    /\ call \in [Threads -> Calls]
    /\ host \in [Threads -> 1..MaxId \cup {None}]
    /\ row \in [Threads -> 1..MaxId \cup {None}]
    /\ DOMAIN seen = Threads
    /\ alone \subseteq Threads

\* An id is that of one row, a name too where the table says so; a VM's host exists.
RowsOK ==
    /\ \A k \in Kinds :
          /\ k \notin tables => rows[k] = {}
          /\ \A r, s \in rows[k] : (r.id = s.id \/ (k \notin loose /\ r.name = s.name)) => r = s
          /\ \A r \in rows[k] : r.id <= lastId
    /\ \A r \in rows["vms"] : r.host # None => \E h \in rows["hosts"] : h.id = r.host

\* An id that a call has looked up is that of the row it names, or of none any more; and a
\* worker is where its tool leads.
LookupsOK(t) ==
    /\ \A r \in Mine(t) : r.name = call[t].name
    /\ \A h \in rows["hosts"] : h.id = host[t] => h.name = call[t].host
    /\ host[t] # None => host[t] <= lastId
    /\ row[t] # None => row[t] <= lastId

StageOK(t) ==
    /\ Sensible(call[t])
    /\ pc[t] = "idle" => host[t] = None /\ row[t] = None /\ seen[t] = <<>>
    /\ pc[t] \in {"find", "byId", "insert"} /\ call[t].deed # "get" /\ call[t].host # None
          => host[t] # None
    /\ pc[t] = "resolve" => call[t].host # None /\ call[t].deed \in {"add", "update"}
    /\ pc[t] = "insert" => call[t].deed = "add"
    /\ pc[t] = "find" => call[t].kind \in ById /\ call[t].deed \in {"update", "delete", "get"}
    /\ pc[t] = "find" /\ call[t].deed = "get" => call[t].kind = "vms"
    /\ pc[t] = "byName" => call[t].kind \notin ById /\ call[t].deed \in {"update", "delete"}
    /\ pc[t] = "byId" => call[t].kind \in ById /\ call[t].deed \in {"update", "delete"}
    /\ pc[t] \in {"get", "vmsOf", "read"} => call[t].deed = "get"
    /\ pc[t] = "get" => call[t].kind # "vms"
    /\ pc[t] = "vmsOf" => call[t].kind = "hosts"
    /\ pc[t] = "read" => call[t].kind = "vms"
    /\ pc[t] \in {"summary", "list", "init", "backup"} => call[t].deed = pc[t]
    /\ pc[t] = "summary" => seen[t] \in Seq(Nat) /\ Len(seen[t]) <= 3

\* What a call has written when it answers; until then, nothing.
WroteOK(t) ==
    /\ pc[t] \notin Answers => wrote[t] = {}
    /\ \A r \in wrote[t] : r[2] = call[t].name
    /\ call[t].kind \in ById \/ call[t].deed = "add" => Cardinality(wrote[t]) <= 1
    /\ pc[t] = "ok" /\ call[t].deed \in {"add", "delete"} => wrote[t] # {}
    /\ pc[t] \notin {"ok", "raised"} \/ call[t].deed \notin Changing => wrote[t] = {}

\* What a call that nobody disturbs has found, and counted, is there.
FoundOK(t) ==
    /\ pc[t] \in {"byId", "read"} =>
          \E r \in Mine(t) : Named(call[t].kind, call[t].name) = {r}
    /\ pc[t] = "summary" =>
          \A i \in 1..Len(seen[t]) :
             seen[t][i] = Cardinality(rows[IF i \in {1, 3} THEN "hosts" ELSE "vms"])

IndInv ==
    /\ TypeOK /\ RowsOK
    /\ \A t \in Threads : LookupsOK(t) /\ StageOK(t) /\ WroteOK(t)
    /\ \A t \in alone : FoundOK(t) /\ AnswerHolds(t)
=============================================================================
