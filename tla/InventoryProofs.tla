--------------------------- MODULE InventoryProofs ---------------------------
(***************************************************************************)
(* Proofs about InventoryHistory: for any set of workers, any names and    *)
(* any number of rows.                                                     *)
(***************************************************************************)
EXTENDS InventoryHistory, FiniteSetTheorems, SequenceTheorems, TLAPS

USE InventoryAssumption

\* Names of rows.
LEMMA NamesFact == /\ \A k \in Kinds : Names[k] \subseteq AllNames
                   /\ None \notin AllNames
  BY DEF AllNames, Range

\* A row that a call has changed, and a VM whose host has gone.
NewRow(t, r) == [r EXCEPT !.changed = TRUE, !.host = IF call[t].host = None THEN @ ELSE host[t]]
Unlinked(old, r) == IF r.host \in {s.id : s \in old} THEN [r EXCEPT !.host = None] ELSE r

LEMMA NewRowFact ==
  ASSUME TypeOK, NEW t \in Threads, NEW r \in Rows
  PROVE  /\ NewRow(t, r) \in Rows
         /\ NewRow(t, r).id = r.id /\ NewRow(t, r).name = r.name
         /\ NewRow(t, r).changed = TRUE
         /\ NewRow(t, r).host = IF call[t].host = None THEN r.host ELSE host[t]
  <1>1. host[t] \in 1..MaxId \cup {None}
    BY DEF TypeOK
  <1> QED
    BY <1>1 DEF NewRow, Rows

LEMMA UnlinkedFact ==
  ASSUME NEW old, NEW r \in Rows
  PROVE  /\ Unlinked(old, r) \in Rows
         /\ Unlinked(old, r).id = r.id /\ Unlinked(old, r).name = r.name
         /\ Unlinked(old, r).changed = r.changed
         /\ Unlinked(old, r).host = IF \E s \in old : s.id = r.host THEN None ELSE r.host
  BY DEF Unlinked, Rows

\* What a row of a table becomes by a change of the rows `old`, and the rows that stay.
After(t, old, k, r) ==
    IF call[t].deed = "update"
    THEN IF k = call[t].kind /\ r \in old THEN NewRow(t, r) ELSE r
    ELSE IF k # call[t].kind /\ k = "vms" /\ call[t].kind = "hosts" THEN Unlinked(old, r) ELSE r
Kept(t, old, k) ==
    IF call[t].deed # "update" /\ k = call[t].kind THEN rows[k] \ old ELSE rows[k]

LEMMA ChangedFact ==
  ASSUME TypeOK, NEW t \in Threads, NEW old, old \subseteq rows[call[t].kind], NEW k \in Kinds
  PROVE  \A q : q \in Changed(t, old)[k] <=> \E r \in Kept(t, old, k) : q = After(t, old, k, r)
  <1>1. CASE call[t].deed = "update"
    <2>1. Changed(t, old) = [rows EXCEPT ![call[t].kind] =
                                (rows[call[t].kind] \ old) \cup {NewRow(t, r) : r \in old}]
      BY <1>1 DEF Changed, NewRow
    <2>2. CASE k = call[t].kind
      <3>1. Changed(t, old)[k] = (rows[k] \ old) \cup {NewRow(t, r) : r \in old}
        BY <2>1, <2>2 DEF TypeOK
      <3>2. Kept(t, old, k) = rows[k] /\ old \subseteq rows[k]
        BY <1>1, <2>2 DEF Kept
      <3>3. \A r : After(t, old, k, r) = IF r \in old THEN NewRow(t, r) ELSE r
        BY <1>1, <2>2 DEF After
      <3>4. ASSUME NEW q
            PROVE  q \in Changed(t, old)[k] <=> \E r \in rows[k] : q = After(t, old, k, r)
        BY <3>1, <3>2, <3>3
      <3> QED
        BY <3>2, <3>4
    <2>3. CASE k # call[t].kind
      <3>1. Changed(t, old)[k] = rows[k]
        BY <2>1, <2>3 DEF TypeOK
      <3>2. Kept(t, old, k) = rows[k] /\ \A r : After(t, old, k, r) = r
        BY <1>1, <2>3 DEF Kept, After
      <3> QED
        BY <3>1, <3>2, Zenon
    <2> QED
      BY <2>2, <2>3
  <1>2. CASE call[t].deed # "update"
    <2> DEFINE G(j) == CASE j = call[t].kind -> rows[j] \ old
                         [] j = "vms" /\ call[t].kind = "hosts" -> {Unlinked(old, r) : r \in rows[j]}
                         [] OTHER -> rows[j]
    <2>1. Changed(t, old) = [j \in Kinds |-> G(j)]
      BY <1>2, Zenon DEF Changed, Unlinked
    <2>2. /\ k = call[t].kind => G(k) = rows[k] \ old
          /\ k = "vms" /\ call[t].kind = "hosts" => G(k) = {Unlinked(old, r) : r \in rows[k]}
          /\ k # call[t].kind /\ ~(k = "vms" /\ call[t].kind = "hosts") => G(k) = rows[k]
      <3>1. "vms" # "hosts"
        OBVIOUS
      <3> QED
        BY <3>1, Zenon
    <2> HIDE DEF G
    <2>3. Changed(t, old)[k] = G(k)
      BY <2>1
    <2>4. CASE k = call[t].kind
      <3>1. Kept(t, old, k) = rows[k] \ old /\ \A r : After(t, old, k, r) = r
        BY <1>2, <2>4 DEF Kept, After
      <3> QED
        BY <2>2, <2>3, <2>4, <3>1, Zenon
    <2>5. CASE k # call[t].kind /\ k = "vms" /\ call[t].kind = "hosts"
      <3>1. Kept(t, old, k) = rows[k] /\ \A r : After(t, old, k, r) = Unlinked(old, r)
        BY <1>2, <2>5 DEF Kept, After
      <3> QED
        BY <2>2, <2>3, <2>5, <3>1
    <2>6. CASE k # call[t].kind /\ ~(k = "vms" /\ call[t].kind = "hosts")
      <3>1. Kept(t, old, k) = rows[k] /\ \A r : After(t, old, k, r) = r
        BY <1>2, <2>6 DEF Kept, After
      <3> QED
        BY <2>2, <2>3, <2>6, <3>1, Zenon
    <2> QED
      BY <2>4, <2>5, <2>6
  <1> QED
    BY <1>1, <1>2

\* A row stays in its table with its id and its name.
LEMMA AfterFact ==
  ASSUME TypeOK, NEW t \in Threads, NEW old, NEW k \in Kinds, NEW r \in rows[k]
  PROVE  /\ After(t, old, k, r) \in Rows
         /\ After(t, old, k, r).id = r.id /\ After(t, old, k, r).name = r.name
  <1>1. r \in Rows
    BY DEF TypeOK
  <1>2. NewRow(t, r) \in Rows /\ NewRow(t, r).id = r.id /\ NewRow(t, r).name = r.name
    BY <1>1, NewRowFact, Zenon
  <1>3. Unlinked(old, r) \in Rows /\ Unlinked(old, r).id = r.id /\ Unlinked(old, r).name = r.name
    BY <1>1, UnlinkedFact, Zenon
  <1> QED
    BY <1>1, <1>2, <1>3 DEF After

-----------------------------------------------------------------------------
\* What a step may do to the tables: change the rows of its call's kind that are in `old`, ...
Changes(t) ==
    \E old \in SUBSET rows[call[t].kind] :
       /\ rows' = Changed(t, old)
       /\ (old # {} /\ call[t].deed = "update" /\ call[t].host # None) => LinkHolds(t)
       /\ UNCHANGED <<tables, loose, lastId>>

\* ... add one, or leave them alone.
LEMMA RowsShape ==
  ASSUME NEW t \in Threads, Step(t), StageOK(t)
  PROVE  \/ rows' = rows /\ lastId' = lastId /\ loose' = loose /\ tables \subseteq tables'
         \/ pc[t] \in {"byName", "byId"} /\ Changes(t)
         \/ Insert(t)
  <1>1. CASE ChangeByName(t)
    <2> DEFINE old == Named(call[t].kind, call[t].name)
    <2>1. old \in SUBSET rows[call[t].kind]
      BY DEF Named
    <2>2. rows' = Changed(t, old) /\ pc[t] = "byName" /\ UNCHANGED <<tables, loose, lastId>>
      BY <1>1 DEF ChangeByName, At
    <2>3. call[t].deed = "update" => call[t].host = None
      BY <2>2 DEF StageOK, Sensible, ById
    <2> HIDE DEF old
    <2> QED
      BY <2>1, <2>2, <2>3 DEF Changes
  <1>2. CASE ChangeById(t)
    <2>1. Mine(t) \in SUBSET rows[call[t].kind]
      BY DEF Mine
    <2>2. rows' = Changed(t, Mine(t)) /\ pc[t] = "byId" /\ UNCHANGED <<tables, loose, lastId>>
      BY <1>2 DEF ChangeById, At
    <2>3. call[t].deed = "update" => LinkHolds(t)
      BY <1>2 DEF ChangeById
    <2> QED
      BY <2>1, <2>2, <2>3 DEF Changes
  <1>3. CASE InitSchema(t)
    BY <1>3 DEF InitSchema
  <1>4. CASE ~ChangeByName(t) /\ ~ChangeById(t) /\ ~InitSchema(t) /\ ~Insert(t)
    <2>1. UNCHANGED db
      BY <1>4 DEF Step, Submit, NoChanges, Resolve, Find, Get, VmsOf, Read, Summary, Select,
                  Backup, Raise, Return
    <2> QED
      BY <2>1 DEF db
  <1> QED
    BY <1>1, <1>2, <1>3, <1>4

\* The row a call inserts.
Inserted(t) == [id |-> lastId + 1, name |-> call[t].name, host |-> host[t], changed |-> FALSE]

LEMMA InsertFact ==
  ASSUME TypeOK, NEW t \in Threads, StageOK(t), Insert(t)
  PROVE  /\ Inserted(t) \in Rows /\ Inserted(t).id = lastId + 1 /\ Inserted(t).name = call[t].name
         /\ Inserted(t).host = host[t] /\ Inserted(t).changed = FALSE
         /\ call[t].kind \in Kinds /\ call[t].deed = "add"
         /\ rows'[call[t].kind] = rows[call[t].kind] \cup {Inserted(t)}
         /\ \A k \in Kinds : k # call[t].kind => rows'[k] = rows[k]
         /\ lastId < MaxId /\ lastId' = lastId + 1 /\ UNCHANGED <<tables, loose>>
         /\ call[t].kind \in tables /\ LinkHolds(t)
         /\ call[t].kind \notin loose => Named(call[t].kind, call[t].name) = {}
  <1>1. /\ call[t].kind \in Kinds /\ host[t] \in 1..MaxId \cup {None} /\ lastId \in 0..MaxId
        /\ rows \in [Kinds -> SUBSET Rows]
    BY DEF TypeOK, Calls
  <1>2. /\ lastId < MaxId /\ lastId' = lastId + 1 /\ UNCHANGED <<tables, loose>>
        /\ call[t].kind \in tables /\ LinkHolds(t) /\ pc[t] = "insert"
        /\ call[t].kind \notin loose => Named(call[t].kind, call[t].name) = {}
    BY DEF Insert, At
  <1>3. rows' = [rows EXCEPT ![call[t].kind] = @ \cup {Inserted(t)}]
    BY <1>2 DEF Insert, Inserted
  <1>4. call[t].deed = "add"
    BY <1>2 DEF StageOK
  <1>5. call[t].name \in AllNames
    BY <1>4, <1>1, NamesFact DEF StageOK, Sensible
  <1>6. /\ Inserted(t) \in Rows /\ Inserted(t).id = lastId + 1 /\ Inserted(t).name = call[t].name
        /\ Inserted(t).host = host[t] /\ Inserted(t).changed = FALSE
    BY <1>1, <1>2, <1>5 DEF Inserted, Rows
  <1>7. /\ rows'[call[t].kind] = rows[call[t].kind] \cup {Inserted(t)}
        /\ \A k \in Kinds : k # call[t].kind => rows'[k] = rows[k]
    BY <1>1, <1>3
  <1> QED
    BY <1>1, <1>2, <1>4, <1>6, <1>7

\* A row has the id and the name of one that was there, or a new id.
LEMMA Grown ==
  ASSUME TypeOK, NEW t \in Threads, StageOK(t), Step(t), NEW k \in Kinds, NEW q \in rows'[k]
  PROVE  /\ q \in Rows
         /\ (\E r \in rows[k] : r.id = q.id /\ r.name = q.name) \/ q.id > lastId
  <1>0. rows[k] \subseteq Rows /\ call[t].kind \in Kinds /\ lastId \in Nat
    BY DEF TypeOK, Calls
  <1>1. CASE rows' = rows
    BY <1>0, <1>1
  <1>2. CASE Changes(t)
    <2>1. PICK old \in SUBSET rows[call[t].kind] : rows' = Changed(t, old)
      BY <1>2 DEF Changes
    <2>2. old \subseteq rows[call[t].kind] /\ q \in Changed(t, old)[k]
      BY <2>1
    <2>3. PICK r \in Kept(t, old, k) : q = After(t, old, k, r)
      BY <2>2, ChangedFact
    <2>4. r \in rows[k]
      BY <2>3 DEF Kept
    <2>5. /\ After(t, old, k, r) \in Rows
          /\ After(t, old, k, r).id = r.id /\ After(t, old, k, r).name = r.name
      BY <2>4, AfterFact
    <2> QED
      BY <2>3, <2>4, <2>5
  <1>3. CASE Insert(t)
    <2>1. /\ Inserted(t) \in Rows /\ Inserted(t).id = lastId + 1
          /\ rows'[call[t].kind] = rows[call[t].kind] \cup {Inserted(t)}
          /\ \A j \in Kinds : j # call[t].kind => rows'[j] = rows[j]
      BY <1>3, InsertFact, Zenon
    <2> QED
      BY <1>0, <2>1
  <1> QED
    BY <1>1, <1>2, <1>3, RowsShape

LEMMA RowsTyped ==
  ASSUME TypeOK, NEW t \in Threads, StageOK(t), Step(t)
  PROVE  /\ tables' \subseteq Kinds \cup {"users"} /\ loose' = loose /\ tables \subseteq tables'
         /\ rows' \in [Kinds -> SUBSET Rows]
         /\ lastId' \in 0..MaxId /\ lastId <= lastId'
  <1>1. call[t].kind \in Kinds /\ lastId \in 0..MaxId /\ rows \in [Kinds -> SUBSET Rows]
    BY DEF TypeOK, Calls
  <1>2. DOMAIN rows' = Kinds /\ rows' = [k \in Kinds |-> rows'[k]]
    <2>1. CASE Changes(t)
      <3>1. PICK old \in SUBSET rows[call[t].kind] : rows' = Changed(t, old)
        BY <2>1 DEF Changes
      <3>2. CASE call[t].deed = "update"
        BY <1>1, <3>1, <3>2 DEF Changed
      <3>3. CASE call[t].deed # "update"
        <4> DEFINE G(j) == CASE j = call[t].kind -> rows[j] \ old
                             [] j = "vms" /\ call[t].kind = "hosts" ->
                                   {Unlinked(old, r) : r \in rows[j]}
                             [] OTHER -> rows[j]
        <4>1. Changed(t, old) = [j \in Kinds |-> G(j)]
          BY <3>3, Zenon DEF Changed, Unlinked
        <4> HIDE DEF G
        <4> QED
          BY <3>1, <4>1
      <3> QED
        BY <3>2, <3>3
    <2>2. CASE Insert(t)
      BY <1>1, <2>2 DEF Insert
    <2>3. CASE rows' = rows
      BY <1>1, <2>3
    <2> QED
      BY <2>1, <2>2, <2>3, RowsShape
  <1>3. \A k \in Kinds : rows'[k] \subseteq Rows
    BY Grown
  <1>4. rows' \in [Kinds -> SUBSET Rows]
    BY <1>2, <1>3
  <1>5. lastId' \in 0..MaxId /\ lastId <= lastId' /\ loose' = loose /\ tables \subseteq tables'
    <2>1. CASE Insert(t)
      <3>1. lastId < MaxId /\ lastId' = lastId + 1 /\ UNCHANGED <<tables, loose>>
        BY <2>1 DEF Insert
      <3> QED
        BY <1>1, <3>1
    <2>2. CASE ~Insert(t)
      <3>1. lastId' = lastId /\ loose' = loose /\ tables \subseteq tables'
        BY <2>2, RowsShape DEF Changes
      <3> QED
        BY <1>1, <3>1
    <2> QED
      BY <2>1, <2>2
  <1>6. tables' = tables \/ tables' = tables \cup {"hosts", "vms", "networks", "users"}
    <2>1. CASE InitSchema(t)
      BY <2>1 DEF InitSchema
    <2>2. CASE ~InitSchema(t)
      BY <2>2 DEF Step, Submit, NoChanges, Resolve, Find, Get, VmsOf, Read, Summary, Select,
                  Backup, Raise, Return, db, Insert, ChangeByName, ChangeById
    <2> QED
      BY <2>1, <2>2
  <1>7. tables \subseteq Kinds \cup {"users"}
    BY DEF TypeOK
  <1> QED
    BY <1>4, <1>5, <1>6, <1>7 DEF Kinds

\* Where a row of a changed table comes from.
LEMMA Source ==
  ASSUME TypeOK, NEW t \in Threads, NEW old, old \subseteq rows[call[t].kind],
         NEW k \in Kinds, NEW q \in Changed(t, old)[k]
  PROVE  \E r \in Kept(t, old, k) :
            /\ r \in rows[k] /\ q = After(t, old, k, r)
            /\ q.id = r.id /\ q.name = r.name
  <1>1. PICK r \in Kept(t, old, k) : q = After(t, old, k, r)
    BY ChangedFact
  <1>2. r \in rows[k]
    BY <1>1 DEF Kept
  <1>3. After(t, old, k, r).id = r.id /\ After(t, old, k, r).name = r.name
    BY <1>2, AfterFact
  <1> QED
    BY <1>1, <1>2, <1>3

\* The part of RowsOK about one table, and the part about the hosts of the VMs.
TableOK(k) ==
    /\ k \notin tables => rows[k] = {}
    /\ \A r, s \in rows[k] : (r.id = s.id \/ (k \notin loose /\ r.name = s.name)) => r = s
    /\ \A r \in rows[k] : r.id <= lastId
Linked == \A r \in rows["vms"] : r.host # None => \E h \in rows["hosts"] : h.id = r.host

LEMMA RowsParts == RowsOK <=> (\A k \in Kinds : TableOK(k)) /\ Linked
  BY DEF RowsOK, TableOK, Linked

LEMMA TableStep ==
  ASSUME TypeOK, RowsOK, NEW t \in Threads, StageOK(t), Step(t), NEW k \in Kinds
  PROVE  TableOK(k)'
  <1>0. TableOK(k) /\ rows[k] \subseteq Rows /\ call[t].kind \in Kinds /\ lastId \in Nat
    BY RowsParts DEF TypeOK, Calls
  <1>1. CASE rows' = rows /\ lastId' = lastId /\ loose' = loose /\ tables \subseteq tables'
    BY <1>0, <1>1 DEF TableOK
  <1>2. CASE Changes(t)
    <2>1. PICK old \in SUBSET rows[call[t].kind] : rows' = Changed(t, old)
      BY <1>2 DEF Changes
    <2>2. UNCHANGED <<tables, loose, lastId>>
      BY <1>2 DEF Changes
    <2>3. ASSUME NEW q \in rows'[k]
          PROVE  \E r \in rows[k] : q = After(t, old, k, r) /\ q.id = r.id /\ q.name = r.name
      <3>1. old \subseteq rows[call[t].kind] /\ q \in Changed(t, old)[k]
        BY <2>1, <2>3
      <3> QED
        BY <3>1, Source
    <2>4. k \notin tables' => rows'[k] = {}
      BY <1>0, <2>2, <2>3 DEF TableOK
    <2>5. \A q \in rows'[k] : q.id <= lastId'
      BY <1>0, <2>2, <2>3 DEF TableOK
    <2>6. ASSUME NEW q \in rows'[k], NEW p \in rows'[k],
                 q.id = p.id \/ (k \notin loose' /\ q.name = p.name)
          PROVE  q = p
      <3>1. PICK r \in rows[k] : q = After(t, old, k, r) /\ q.id = r.id /\ q.name = r.name
        BY <2>3
      <3>2. PICK s \in rows[k] : p = After(t, old, k, s) /\ p.id = s.id /\ p.name = s.name
        BY <2>3
      <3>3. r = s
        BY <1>0, <2>2, <2>6, <3>1, <3>2 DEF TableOK
      <3> QED
        BY <3>1, <3>2, <3>3
    <2> QED
      BY <2>4, <2>5, <2>6 DEF TableOK
  <1>3. CASE Insert(t)
    <2>1. /\ Inserted(t).id = lastId + 1 /\ Inserted(t).name = call[t].name
          /\ rows'[call[t].kind] = rows[call[t].kind] \cup {Inserted(t)}
          /\ \A j \in Kinds : j # call[t].kind => rows'[j] = rows[j]
          /\ lastId' = lastId + 1 /\ UNCHANGED <<tables, loose>> /\ call[t].kind \in tables
          /\ call[t].kind \notin loose => Named(call[t].kind, call[t].name) = {}
      BY <1>3, InsertFact, Zenon
    <2>2. CASE k # call[t].kind
      <3>1. rows'[k] = rows[k]
        BY <2>1, <2>2
      <3>2. \A r \in rows[k] : r.id <= lastId + 1
        BY <1>0 DEF TableOK, Rows
      <3> QED
        BY <1>0, <2>1, <3>1, <3>2 DEF TableOK
    <2>3. CASE k = call[t].kind
      <3>1. rows'[k] = rows[k] \cup {Inserted(t)}
        BY <2>1, <2>3
      <3>2. \A r \in rows[k] : r.id <= lastId /\ r.id \in Nat /\ r.id # Inserted(t).id
        BY <1>0, <2>1 DEF TableOK, Rows
      <3>3. k \notin loose => \A r \in rows[k] : r.name # Inserted(t).name
        BY <2>1, <2>3 DEF Named
      <3>4. \A q \in rows'[k] : q.id <= lastId'
        BY <1>0, <2>1, <3>1, <3>2
      <3>5. \A q, p \in rows'[k] : (q.id = p.id \/ (k \notin loose' /\ q.name = p.name)) => q = p
        BY <1>0, <2>1, <3>1, <3>2, <3>3 DEF TableOK
      <3> QED
        BY <2>1, <2>3, <3>4, <3>5 DEF TableOK
    <2> QED
      BY <2>2, <2>3
  <1> QED
    BY <1>1, <1>2, <1>3, RowsShape

LEMMA LinkedStep ==
  ASSUME TypeOK, RowsOK, NEW t \in Threads, StageOK(t), Step(t)
  PROVE  Linked'
  <1>0. Linked /\ call[t].kind \in Kinds /\ "vms" \in Kinds /\ "hosts" \in Kinds
    BY RowsParts DEF TypeOK, Calls, Kinds
  <1>1. CASE rows' = rows
    BY <1>0, <1>1 DEF Linked
  <1>2. CASE Changes(t)
    <2>1. PICK old \in SUBSET rows[call[t].kind] :
             /\ rows' = Changed(t, old)
             /\ (old # {} /\ call[t].deed = "update" /\ call[t].host # None) => LinkHolds(t)
      BY <1>2 DEF Changes
    <2>2. old \subseteq rows[call[t].kind]
      BY <2>1
    <2>3. SUFFICES ASSUME NEW q \in rows'["vms"], q.host # None
                   PROVE  \E h \in rows'["hosts"] : h.id = q.host
      BY DEF Linked
    <2>4. PICK r \in rows["vms"] : q = After(t, old, "vms", r)
      BY <1>0, <2>1, <2>2, <2>3, Source
    <2>5. r \in Rows
      BY <1>0 DEF TypeOK
    \* A host that stays keeps its id.
    <2>6. ASSUME NEW h \in Kept(t, old, "hosts")
          PROVE  \E g \in rows'["hosts"] : g.id = h.id
      <3>1. h \in rows["hosts"]
        BY <2>6 DEF Kept
      <3>2. After(t, old, "hosts", h) \in Changed(t, old)["hosts"]
        BY <1>0, <2>2, <2>6, ChangedFact
      <3>3. After(t, old, "hosts", h).id = h.id
        BY <1>0, <3>1, AfterFact
      <3> QED
        BY <2>1, <3>2, <3>3
    <2>7. CASE call[t].deed = "update"
      <3>1. Kept(t, old, "hosts") = rows["hosts"]
        BY <2>7 DEF Kept
      <3>2. \E h \in rows["hosts"] : h.id = q.host
        <4>1. CASE q = r
          BY <1>0, <2>3, <4>1 DEF Linked
        <4>2. CASE q # r
          <5>1. q = NewRow(t, r) /\ old # {}
            BY <2>4, <2>7, <4>2 DEF After
          <5>2. q.host = IF call[t].host = None THEN r.host ELSE host[t]
            BY <2>5, <5>1, NewRowFact
          <5>3. CASE call[t].host = None
            BY <1>0, <2>3, <5>2, <5>3 DEF Linked
          <5>4. CASE call[t].host # None
            BY <2>1, <2>3, <2>7, <5>1, <5>2, <5>4 DEF LinkHolds
          <5> QED
            BY <5>3, <5>4
        <4> QED
          BY <4>1, <4>2
      <3> QED
        BY <2>6, <3>1, <3>2
    <2>8. CASE call[t].deed # "update" /\ call[t].kind = "hosts"
      <3>1. q = Unlinked(old, r) /\ Kept(t, old, "hosts") = rows["hosts"] \ old
        BY <2>4, <2>8 DEF After, Kept
      <3>2. q.host = r.host /\ ~ \E s \in old : s.id = r.host
        BY <2>3, <2>5, <3>1, UnlinkedFact
      <3>3. PICK h \in rows["hosts"] : h.id = r.host
        BY <1>0, <2>3, <3>2 DEF Linked
      <3>4. h \in Kept(t, old, "hosts")
        BY <3>1, <3>2, <3>3
      <3> QED
        BY <2>6, <3>2, <3>3, <3>4
    <2>9. CASE call[t].deed # "update" /\ call[t].kind # "hosts"
      <3>1. q = r /\ Kept(t, old, "hosts") = rows["hosts"]
        BY <2>4, <2>9 DEF After, Kept
      <3> QED
        BY <1>0, <2>3, <2>6, <3>1 DEF Linked
    <2> QED
      BY <2>7, <2>8, <2>9
  <1>3. CASE Insert(t)
    <2>1. /\ Inserted(t).host = host[t]
          /\ rows'[call[t].kind] = rows[call[t].kind] \cup {Inserted(t)}
          /\ \A j \in Kinds : j # call[t].kind => rows'[j] = rows[j]
          /\ LinkHolds(t)
      BY <1>3, InsertFact, Zenon
    <2>2. rows["hosts"] \subseteq rows'["hosts"]
      BY <1>0, <2>1
    <2>3. rows'["vms"] \subseteq rows["vms"] \cup {Inserted(t)}
      BY <1>0, <2>1
    <2>4. ASSUME NEW q \in rows'["vms"], q.host # None
          PROVE  \E h \in rows["hosts"] : h.id = q.host
      BY <1>0, <2>1, <2>3, <2>4 DEF Linked, LinkHolds
    <2> QED
      BY <2>2, <2>4 DEF Linked
  <1> QED
    BY <1>1, <1>2, <1>3, RowsShape

-----------------------------------------------------------------------------
\* A step is of one worker: the others stay where they are.
LEMMA Aside ==
  ASSUME TypeOK, NEW t \in Threads, Step(t), NEW u \in Threads, u # t
  PROVE  /\ pc'[u] = pc[u] /\ call'[u] = call[u]
         /\ host'[u] = host[u] /\ row'[u] = row[u] /\ seen'[u] = seen[u]
  <1>1. pc'[u] = pc[u]
    BY DEF TypeOK, Step, Submit, NoChanges, Resolve, Find, Insert, ChangeByName, ChangeById, Get,
           VmsOf, Read, Summary, Select, Backup, InitSchema, Raise, Return, Goto, Answer, Committed
  <1>2. call'[u] = call[u]
    BY DEF TypeOK, Step, Submit, NoChanges, Resolve, Find, Insert, ChangeByName, ChangeById, Get,
           VmsOf, Read, Summary, Select, Backup, InitSchema, Raise, Return, Answer, Committed
  <1>3. host'[u] = host[u]
    BY DEF TypeOK, Step, Submit, NoChanges, Resolve, Find, Insert, ChangeByName, ChangeById, Get,
           VmsOf, Read, Summary, Select, Backup, InitSchema, Raise, Return, Answer, Committed, local
  <1>4. row'[u] = row[u]
    BY DEF TypeOK, Step, Submit, NoChanges, Resolve, Find, Insert, ChangeByName, ChangeById, Get,
           VmsOf, Read, Summary, Select, Backup, InitSchema, Raise, Return, Answer, Committed, local
  <1>5. seen'[u] = seen[u]
    BY DEF TypeOK, Step, Submit, NoChanges, Resolve, Find, Insert, ChangeByName, ChangeById, Get,
           VmsOf, Read, Summary, Select, Backup, InitSchema, Raise, Return, Answer, Committed, local
  <1> QED
    BY <1>1, <1>2, <1>3, <1>4, <1>5

\* What a step does besides: answer, ...
Answering(t) ==
    /\ pc[t] \notin Answers \cup {"idle"}
    /\ \E a \in Answers : pc' = [pc EXCEPT ![t] = a]
    /\ UNCHANGED <<call, local>>

\* ... note the id of a row that is looked for, ...
Finding(t) ==
    /\ pc[t] = "find"
    /\ \E r \in rows[call[t].kind] :
          /\ Named(call[t].kind, call[t].name) = {r}
          /\ row' = [row EXCEPT ![t] = r.id]
    /\ pc' = [pc EXCEPT ![t] = IF call[t].deed = "get" THEN "read" ELSE "byId"]
    /\ UNCHANGED <<db, call, host, seen>>

Getting(t) ==
    /\ pc[t] = "get"
    /\ call[t].kind = "ad_users" => Cardinality(Named(call[t].kind, call[t].name)) = 1
    /\ \E r \in rows[call[t].kind] :
          /\ r \in Named(call[t].kind, call[t].name)
          /\ row' = [row EXCEPT ![t] = r.id]
    /\ pc' = [pc EXCEPT ![t] = IF call[t].kind = "hosts" THEN "vmsOf" ELSE "ok"]
    /\ UNCHANGED <<db, call, host, seen>>

\* ... or one of five things that only one action does.
LEMMA Mover ==
  ASSUME NEW t \in Threads, Step(t)
  PROVE  \/ Answering(t) \/ Finding(t) \/ Getting(t)
         \/ Submit(t) \/ Resolve(t) \/ VmsOf(t) \/ Summary(t) \/ Return(t)
  <1>1. ASSUME Insert(t) \/ ChangeByName(t) \/ ChangeById(t) \/ InitSchema(t)
        PROVE  Answering(t)
    <2>1. pc[t] \in {"insert", "byName", "byId", "init"}
      BY <1>1 DEF Insert, ChangeByName, ChangeById, InitSchema, At
    <2>2. PICK a \in Answers : Committed(t, a)
      BY <1>1 DEF Insert, ChangeByName, ChangeById, InitSchema, Answers
    <2>3. \E b \in Answers : Answer(t, b)
      BY <2>2 DEF Committed, Answers
    <2> QED
      BY <2>1, <2>3 DEF Answering, Answer, Goto, Answers
  <1>2. ASSUME NoChanges(t) \/ Read(t) \/ Select(t) \/ Backup(t) \/ Raise(t)
        PROVE  Answering(t)
    <2>1. pc[t] \notin Answers \cup {"idle"}
      BY <1>2 DEF NoChanges, Read, Select, Backup, Raise, At, Answers
    <2>2. \E b \in Answers : Answer(t, b)
      BY <1>2 DEF NoChanges, Read, Select, Backup, Raise, Answers
    <2> QED
      BY <2>1, <2>2 DEF Answering, Answer, Goto
  <1>3. ASSUME Find(t)
        PROVE  Answering(t) \/ Finding(t)
    <2>1. pc[t] = "find" /\ UNCHANGED db
      BY <1>3 DEF Find, At
    <2>2. CASE Answer(t, "error")
      BY <2>1, <2>2 DEF Answering, Answer, Goto, Answers
    <2>3. CASE ~Answer(t, "error")
      <3>1. /\ \E r \in Named(call[t].kind, call[t].name) :
                  /\ Named(call[t].kind, call[t].name) = {r} /\ row' = [row EXCEPT ![t] = r.id]
            /\ Goto(t, IF call[t].deed = "get" THEN "read" ELSE "byId")
            /\ UNCHANGED <<call, host, seen>>
        BY <1>3, <2>3 DEF Find
      <3> QED
        BY <2>1, <3>1 DEF Finding, Goto, Named
    <2> QED
      BY <2>2, <2>3
  <1>4. ASSUME Get(t)
        PROVE  Answering(t) \/ Getting(t)
    <2>1. pc[t] = "get" /\ UNCHANGED db
      BY <1>4 DEF Get, At
    <2>2. CASE Answer(t, "error")
      BY <2>1, <2>2 DEF Answering, Answer, Goto, Answers
    <2>3. CASE ~Answer(t, "error")
      <3>1. /\ call[t].kind = "ad_users" => Cardinality(Named(call[t].kind, call[t].name)) = 1
            /\ \E r \in Named(call[t].kind, call[t].name) : row' = [row EXCEPT ![t] = r.id]
            /\ Goto(t, IF call[t].kind = "hosts" THEN "vmsOf" ELSE "ok")
            /\ UNCHANGED <<call, host, seen>>
        BY <1>4, <2>3 DEF Get
      <3> QED
        BY <2>1, <3>1 DEF Getting, Goto, Named
    <2> QED
      BY <2>2, <2>3
  <1> QED
    BY <1>1, <1>2, <1>3, <1>4 DEF Step

LEMMA LocalsTyped ==
  ASSUME TypeOK, NEW t \in Threads, StageOK(t), Step(t)
  PROVE  /\ pc' \in [Threads -> Labels] /\ call' \in [Threads -> Calls]
         /\ host' \in [Threads -> 1..MaxId \cup {None}]
         /\ row' \in [Threads -> 1..MaxId \cup {None}]
         /\ DOMAIN seen' = Threads
  <1> USE DEF TypeOK
  <1>0. call[t].kind \in Kinds /\ "hosts" \in Kinds /\ NoCall \in Calls
    BY DEF Calls, Kinds, NoCall, Deeds
  <1>1. CASE Answering(t)
    BY <1>1 DEF Answering, local, Labels
  <1>2. CASE Finding(t) \/ Getting(t)
    <2>1. \A r \in rows[call[t].kind] : r.id \in 1..MaxId
      BY <1>0 DEF Rows
    <2>2. row' \in [Threads -> 1..MaxId \cup {None}]
      BY <1>2, <2>1 DEF Finding, Getting
    <2>3. pc' \in [Threads -> Labels]
      BY <1>2 DEF Finding, Getting, Labels, Answers
    <2> QED
      BY <1>2, <2>2, <2>3 DEF Finding, Getting
  <1>3. CASE Submit(t)
    <2>1. PICK c \in Calls : call' = [call EXCEPT ![t] = c] /\ Goto(t, First(c))
      BY <1>3 DEF Submit
    <2>2. First(c) \in Labels
      BY Zenon DEF First, Calls, Deeds, Labels
    <2> QED
      BY <1>3, <2>1, <2>2 DEF Submit, Goto, local
  <1>4. CASE Resolve(t)
    <2>1. PICK r \in Named("hosts", call[t].host) : host' = [host EXCEPT ![t] = r.id]
      BY <1>4 DEF Resolve
    <2>2. r.id \in 1..MaxId
      BY <1>0, <2>1 DEF Named, Rows
    <2> QED
      BY <1>4, <2>1, <2>2 DEF Resolve, Goto, Labels
  <1>5. CASE VmsOf(t) \/ Summary(t)
    BY <1>5 DEF VmsOf, Summary, Goto, Labels, Answers
  <1>6. CASE Return(t)
    BY <1>0, <1>6 DEF Return, Goto, Labels
  <1> QED
    BY <1>1, <1>2, <1>3, <1>4, <1>5, <1>6, Mover

\* The first statement of a call.
LEMMA FirstFact ==
  ASSUME NEW c \in Calls
  PROVE  \/ First(c) = "resolve" /\ c.deed \in {"add", "update"} /\ c.host # None
         \/ First(c) = "insert" /\ c.deed = "add" /\ c.host = None
         \/ First(c) = "find" /\ c.kind \in ById /\ c.deed = "update" /\ c.host = None
         \/ First(c) = "find" /\ c.kind \in ById /\ c.deed = "delete"
         \/ First(c) = "byName" /\ c.kind \notin ById /\ c.deed \in {"update", "delete"}
         \/ First(c) = "find" /\ c.kind = "vms" /\ c.deed = "get"
         \/ First(c) = "get" /\ c.kind # "vms" /\ c.deed = "get"
         \/ First(c) = c.deed /\ c.deed \in {"list", "summary", "init", "backup"}
  <1>0. c.deed \in Deeds
    BY DEF Calls
  <1>1. CASE c.deed \in {"add", "update"} /\ c.host # None
    <2>1. First(c) = "resolve"
      BY <1>1 DEF First
    <2> QED
      BY <1>1, <2>1
  <1>2. CASE c.deed = "add" /\ c.host = None
    <2>1. First(c) = "insert"
      BY <1>2 DEF First
    <2> QED
      BY <1>2, <2>1
  <1>3. CASE c.deed = "delete" \/ (c.deed = "update" /\ c.host = None)
    <2>1. First(c) = IF c.kind \in ById THEN "find" ELSE "byName"
      BY <1>3 DEF First
    <2> QED
      BY <1>3, <2>1
  <1>4. CASE c.deed = "get"
    <2>1. First(c) = IF c.kind = "vms" THEN "find" ELSE "get"
      BY <1>4 DEF First
    <2> QED
      BY <1>4, <2>1 DEF ById
  <1>5. CASE c.deed \in {"list", "summary", "init", "backup"}
    <2>1. First(c) = c.deed
      BY <1>5 DEF First
    <2> QED
      BY <1>5, <2>1
  <1> QED
    BY <1>0, <1>1, <1>2, <1>3, <1>4, <1>5 DEF Deeds

\* A set of rows of one table is finite, for their ids tell them apart.
LEMMA RowsFinite ==
  ASSUME TypeOK, RowsOK, NEW k \in Kinds
  PROVE  IsFiniteSet(rows[k]) /\ Cardinality(rows[k]) \in Nat
  <1> DEFINE f == [r \in rows[k] |-> r.id]
  <1>1. rows[k] \subseteq Rows
    BY DEF TypeOK
  <1>2. \A r, s \in rows[k] : r.id = s.id => r = s
    BY DEF RowsOK
  <1>3. f \in [rows[k] -> 1..MaxId]
    BY <1>1 DEF Rows
  <1>4. f \in Injection(rows[k], 1..MaxId)
    BY <1>2, <1>3 DEF Injection, IsInjective
  <1>5. IsFiniteSet(1..MaxId)
    BY FS_Interval
  <1> HIDE DEF f
  <1>6. IsFiniteSet(rows[k])
    BY <1>4, <1>5, FS_Injection
  <1> QED
    BY <1>6, FS_CardinalityType

LEMMA StageStep ==
  ASSUME TypeOK, RowsOK, NEW t \in Threads, StageOK(t), Step(t), NEW u \in Threads, StageOK(u)
  PROVE  StageOK(u)'
  <1>1. CASE u # t
    BY <1>1, Aside DEF StageOK
  <1>2. CASE u = t
    <2>0. /\ pc \in [Threads -> Labels] /\ call \in [Threads -> Calls] /\ DOMAIN seen = Threads
          /\ host \in [Threads -> 1..MaxId \cup {None}] /\ DOMAIN row = Threads
      BY DEF TypeOK
    <2>1. CASE Answering(t)
      <3>1. /\ pc'[t] \in {"ok", "error", "raised", "no_changes"} /\ call'[t] = call[t]
            /\ host'[t] = host[t] /\ row'[t] = row[t] /\ seen'[t] = seen[t]
        BY <2>0, <2>1 DEF Answering, local, Answers
      <3> QED
        BY <1>2, <3>1 DEF StageOK
    <2>2. CASE Finding(t)
      <3>1. /\ pc[t] = "find" /\ pc'[t] = IF call[t].deed = "get" THEN "read" ELSE "byId"
            /\ call'[t] = call[t] /\ host'[t] = host[t] /\ seen'[t] = seen[t]
        BY <2>0, <2>2 DEF Finding
      <3>2. /\ Sensible(call[t]) /\ call[t].kind \in ById
            /\ call[t].deed \in {"update", "delete", "get"}
            /\ call[t].deed # "get" /\ call[t].host # None => host[t] # None
        BY <3>1, <1>2 DEF StageOK
      <3>3. call[t].deed = "get" => call[t].kind = "vms"
        BY <3>1, <1>2 DEF StageOK
      <3>4. /\ pc'[t] = "read" => call[t].deed = "get" /\ call[t].kind = "vms"
            /\ pc'[t] = "byId" => call[t].deed \in {"update", "delete"}
            /\ pc'[t] \in {"read", "byId"}
        BY <3>1, <3>2, <3>3
      <3> QED
        BY <1>2, <3>1, <3>2, <3>4 DEF StageOK
    <2>3. CASE Getting(t)
      <3>1. /\ pc[t] = "get" /\ pc'[t] = IF call[t].kind = "hosts" THEN "vmsOf" ELSE "ok"
            /\ call'[t] = call[t] /\ host'[t] = host[t] /\ seen'[t] = seen[t]
        BY <2>0, <2>3 DEF Getting
      <3> QED
        BY <1>2, <3>1 DEF StageOK
    <2>4. CASE Submit(t)
      <3>1. PICK c \in Calls : Sensible(c) /\ call' = [call EXCEPT ![t] = c] /\ Goto(t, First(c))
        BY <2>4 DEF Submit
      <3>2. call'[t] = c /\ pc'[t] = First(c) /\ host'[t] = host[t] /\ seen'[t] = seen[t]
        BY <2>0, <2>4, <3>1 DEF Submit, Goto, local
      <3>3. host[t] = None /\ seen[t] = <<>>
        BY <2>4 DEF Submit, StageOK
      <3>4. <<>> \in Seq(Nat) /\ Len(<<>>) = 0
        OBVIOUS
      <3>5. c.deed # "get" /\ First(c) \in {"find", "insert", "byId"} => c.host = None
        BY <3>1, FirstFact DEF Sensible
      <3>6. First(c) \notin Answers \cup {"idle", "vmsOf", "read", "byId"}
        BY FirstFact DEF Answers
      <3>7. c.host # None => c.deed \in {"add", "update"}
        BY <3>1 DEF Sensible
      <3>8. /\ First(c) = "resolve" => c.host # None /\ c.deed \in {"add", "update"}
            /\ First(c) = "insert" => c.deed = "add"
            /\ First(c) = "find" => c.kind \in ById /\ c.deed \in {"update", "delete", "get"}
            /\ First(c) = "find" /\ c.deed = "get" => c.kind = "vms"
            /\ First(c) = "byName" => c.kind \notin ById /\ c.deed \in {"update", "delete"}
            /\ First(c) = "get" => c.kind # "vms" /\ c.deed = "get"
            /\ First(c) \in {"summary", "list", "init", "backup"} => c.deed = First(c)
        BY FirstFact DEF ById
      <3> QED
        BY <1>2, <3>1, <3>2, <3>3, <3>4, <3>5, <3>6, <3>8 DEF StageOK
    <2>5. CASE Resolve(t)
      <3>1. PICK r \in Named("hosts", call[t].host) : host' = [host EXCEPT ![t] = r.id]
        BY <2>5 DEF Resolve
      <3>2. host'[t] # None
        <4>1. r.id \in 1..MaxId
          BY <3>1 DEF Named, TypeOK, Rows, Kinds
        <4> QED
          BY <2>0, <3>1, <4>1
      <3>3. /\ pc[t] = "resolve" /\ call'[t] = call[t] /\ row'[t] = row[t] /\ seen'[t] = seen[t]
            /\ pc'[t] = IF call[t].deed = "add" THEN "insert" ELSE "find"
        BY <2>0, <2>5 DEF Resolve, At, Goto
      <3>4. call[t].deed \in {"add", "update"} /\ call[t].kind = "vms"
        BY <3>3 DEF StageOK, Sensible
      <3> QED
        BY <1>2, <3>2, <3>3, <3>4 DEF StageOK, ById
    <2>6. CASE VmsOf(t)
      <3>1. pc'[t] = "ok" /\ call'[t] = call[t] /\ host'[t] = host[t] /\ row'[t] = row[t]
        BY <2>0, <2>6 DEF VmsOf, Goto
      <3> QED
        BY <1>2, <3>1 DEF StageOK
    <2>7. CASE Summary(t)
      <3>1. /\ pc[t] = "summary" /\ pc'[t] = IF Len(seen[t]) = 3 THEN "ok" ELSE "summary"
            /\ call'[t] = call[t] /\ host'[t] = host[t] /\ row'[t] = row[t]
        BY <2>0, <2>7 DEF Summary, Goto, At
      <3>2. seen[t] \in Seq(Nat) /\ Len(seen[t]) <= 3 /\ call[t].deed = "summary"
        BY <3>1 DEF StageOK
      <3>3. PICK k \in Kinds : seen'[t] = Append(seen[t], Cardinality(rows[k]))
        BY <2>0, <2>7 DEF Summary, Kinds
      <3>4. Cardinality(rows[k]) \in Nat
        BY RowsFinite
      <3>5. seen'[t] \in Seq(Nat) /\ Len(seen'[t]) = Len(seen[t]) + 1 /\ Len(seen[t]) \in Nat
        BY <3>2, <3>3, <3>4
      <3>6. ASSUME pc'[t] = "summary"
            PROVE  Len(seen'[t]) <= 3
        <4>1. Len(seen[t]) # 3
          BY <3>1, <3>6
        <4>2. Len(seen[t]) + 1 <= 3
          <5> DEFINE n == Len(seen[t])
          <5>1. n \in Nat /\ n <= 3 /\ n # 3
            BY <3>2, <3>5, <4>1
          <5> HIDE DEF n
          <5>2. n + 1 <= 3
            BY <5>1
          <5> QED
            BY <5>2 DEF n
        <4> QED
          BY <3>5, <4>2
      <3>7. pc'[t] \in {"ok", "summary"}
        BY <3>1
      <3> QED
        BY <1>2, <3>1, <3>2, <3>5, <3>6, <3>7 DEF StageOK
    <2>8. CASE Return(t)
      <3>1. /\ pc'[t] = "idle" /\ call'[t] = NoCall /\ host'[t] = None /\ row'[t] = None
            /\ seen'[t] = <<>>
        BY <2>0, <2>8 DEF Return, Goto
      <3> QED
        BY <1>2, <3>1 DEF StageOK, NoCall, Sensible
    <2> QED
      BY <2>1, <2>2, <2>3, <2>4, <2>5, <2>6, <2>7, <2>8, Mover
  <1> QED
    BY <1>1, <1>2

LEMMA LookupsStep ==
  ASSUME TypeOK, RowsOK, NEW t \in Threads, StageOK(t), Step(t),
         NEW u \in Threads, StageOK(u), LookupsOK(u)
  PROVE  LookupsOK(u)'
  <1>0. /\ pc \in [Threads -> Labels] /\ call \in [Threads -> Calls]
        /\ host \in [Threads -> 1..MaxId \cup {None}] /\ row \in [Threads -> 1..MaxId \cup {None}]
        /\ lastId \in Nat /\ lastId' \in Nat /\ lastId <= lastId' /\ "hosts" \in Kinds
    BY RowsTyped DEF TypeOK, Kinds
  <1>1. None \notin Nat
    OBVIOUS
  \* A step that leaves what a call has looked up as it is.
  <1>2. ASSUME call'[u] = call[u], host'[u] = host[u], row'[u] = row[u]
        PROVE  LookupsOK(u)'
    <2>1. ASSUME NEW k \in Kinds, NEW q \in rows'[k], NEW id \in 1..MaxId \cup {None},
                 id # None => id <= lastId, q.id = id
          PROVE  \E r \in rows[k] : r.id = id /\ r.name = q.name
      <3>1. q \in Rows /\ ((\E r \in rows[k] : r.id = q.id /\ r.name = q.name) \/ q.id > lastId)
        BY Grown
      <3>2. q.id \in 1..MaxId
        BY <3>1 DEF Rows
      <3> QED
        BY <1>0, <1>1, <2>1, <3>1, <3>2
    <2>2. call[u].kind \in Kinds /\ host[u] \in 1..MaxId \cup {None} /\ row[u] \in 1..MaxId \cup {None}
      BY <1>0 DEF Calls
    <2>3. \A q \in Mine(u)' : q.name = call'[u].name
      <3>1. SUFFICES ASSUME NEW q \in rows'[call[u].kind], q.id = row[u]
                     PROVE  q.name = call[u].name
        BY <1>2 DEF Mine
      <3>2. \E r \in rows[call[u].kind] : r.id = row[u] /\ r.name = q.name
        <4>1. row[u] # None => row[u] <= lastId
          BY DEF LookupsOK
        <4> QED
          BY <2>1, <2>2, <3>1, <4>1
      <3> QED
        BY <3>2 DEF LookupsOK, Mine
    <2>4. \A q \in rows'["hosts"] : q.id = host'[u] => q.name = call'[u].host
      <3>1. SUFFICES ASSUME NEW q \in rows'["hosts"], q.id = host[u]
                     PROVE  q.name = call[u].host
        BY <1>2
      <3>2. \E r \in rows["hosts"] : r.id = host[u] /\ r.name = q.name
        <4>1. /\ "hosts" \in Kinds /\ host[u] \in 1..MaxId \cup {None} /\ q.id = host[u]
              /\ host[u] # None => host[u] <= lastId
          BY <1>0, <2>2, <3>1 DEF LookupsOK
        <4>2. q \in Rows /\ ((\E r \in rows["hosts"] : r.id = q.id /\ r.name = q.name) \/ q.id > lastId)
          BY <4>1, Grown
        <4>3. q.id \in 1..MaxId
          BY <4>2 DEF Rows
        <4>4. ~(q.id > lastId)
          BY <1>0, <1>1, <4>1, <4>3
        <4> QED
          BY <4>1, <4>2, <4>4
      <3> QED
        BY <3>2 DEF LookupsOK
    <2>5. (host'[u] # None => host'[u] <= lastId') /\ (row'[u] # None => row'[u] <= lastId')
      BY <1>0, <1>2, <2>2 DEF LookupsOK
    <2> QED
      BY <2>3, <2>4, <2>5 DEF LookupsOK
  <1>3. CASE u # t
    BY <1>2, <1>3, Aside
  <1>4. CASE u = t
    <2>1. CASE Answering(t) \/ VmsOf(t) \/ Summary(t)
      BY <1>2, <1>4, <2>1 DEF Answering, local, VmsOf, Summary
    <2>2. CASE Finding(t) \/ Getting(t)
      <3>1. PICK r \in rows[call[t].kind] : /\ r.name = call[t].name
                                            /\ row' = [row EXCEPT ![t] = r.id]
        BY <2>2 DEF Finding, Getting, Named
      <3>2. UNCHANGED <<rows, lastId, call, host>> /\ row'[t] = r.id
        BY <1>0, <2>2, <3>1 DEF Finding, Getting, db
      <3>3. call[t].kind \in Kinds
        BY <1>0 DEF Calls
      <3>4. r.id <= lastId /\ \A q \in rows[call[t].kind] : q.id = r.id => q = r
        BY <3>1, <3>3 DEF RowsOK
      <3> QED
        BY <1>4, <3>1, <3>2, <3>4 DEF LookupsOK, Mine
    <2>3. CASE Resolve(t)
      <3>1. PICK r \in rows["hosts"] : r.name = call[t].host /\ host' = [host EXCEPT ![t] = r.id]
        BY <2>3 DEF Resolve, Named
      <3>2. UNCHANGED <<rows, lastId, call, row>> /\ host'[t] = r.id
        BY <1>0, <2>3, <3>1 DEF Resolve, db
      <3>3. r.id <= lastId /\ \A q \in rows["hosts"] : q.id = r.id => q = r
        BY <1>0, <3>1 DEF RowsOK
      <3> QED
        BY <1>4, <3>1, <3>2, <3>3 DEF LookupsOK, Mine
    <2>4. CASE Submit(t) \/ Return(t)
      <3>1. host'[t] = None /\ row'[t] = None /\ rows' = rows
        <4>1. CASE Submit(t)
          BY <4>1 DEF Submit, StageOK, local, db
        <4>2. CASE Return(t)
          BY <1>0, <4>2 DEF Return, db
        <4> QED
          BY <2>4, <4>1, <4>2
      <3>2. call'[t] \in Calls
        BY LocalsTyped
      <3>3. \A k \in Kinds : \A q \in rows[k] : q.id # None
        BY <1>1 DEF TypeOK, Rows
      <3>4. call'[t].kind \in Kinds
        BY <3>2 DEF Calls
      <3> QED
        BY <1>0, <1>4, <3>1, <3>3, <3>4 DEF LookupsOK, Mine
    <2> QED
      BY <2>1, <2>2, <2>3, <2>4, Mover
  <1> QED
    BY <1>3, <1>4

-----------------------------------------------------------------------------
\* One step, with what it leaves for the answers to be judged by.
HStep(t) ==
    /\ Step(t)
    /\ wrote' = [u \in Threads |-> IF pc'[u] = "idle" THEN {}
                                   ELSE IF u = t THEN wrote[u] \cup Written(call[u].kind)
                                   ELSE wrote[u]]
    /\ alone' = {u \in Threads : \/ pc'[u] = "idle"
                                 \/ u \in alone /\ (u = t \/ <<rows, tables>>' = <<rows, tables>>)}

\* The three actions that change rows, and where they lead.
Writing(t, old) ==
    /\ rows' = Changed(t, old)
    /\ pc[t] \in {"byName", "byId"} /\ call[t].deed \in {"update", "delete"}
    /\ pc'[t] \in {IF old = {} THEN "error" ELSE "ok", "raised"}
    /\ UNCHANGED <<tables, loose, lastId, call, local>>

LEMMA ByNameFact ==
  ASSUME TypeOK, NEW t \in Threads, StageOK(t), ChangeByName(t)
  PROVE  /\ Writing(t, Named(call[t].kind, call[t].name)) /\ pc[t] = "byName"
         /\ call[t].kind \notin ById
  <1>1. pc[t] = "byName" /\ DOMAIN pc = Threads
    BY DEF ChangeByName, At, TypeOK
  <1>2. call[t].deed \in {"update", "delete"} /\ call[t].kind \notin ById
    BY <1>1 DEF StageOK
  <1> QED
    BY <1>1, <1>2 DEF ChangeByName, Writing, Committed, Answer, Goto

LEMMA ByIdFact ==
  ASSUME TypeOK, NEW t \in Threads, StageOK(t), ChangeById(t)
  PROVE  /\ Writing(t, Mine(t)) /\ pc[t] = "byId" /\ call[t].kind \in ById
         /\ call[t].deed = "update" => LinkHolds(t)
  <1>1. pc[t] = "byId" /\ DOMAIN pc = Threads
    BY DEF ChangeById, At, TypeOK
  <1>2. call[t].deed \in {"update", "delete"} /\ call[t].kind \in ById
    BY <1>1 DEF StageOK
  <1> QED
    BY <1>1, <1>2 DEF ChangeById, Writing, Committed, Answer, Goto

\* A step of another kind writes nothing, and does not say it has.
LEMMA QuietFact ==
  ASSUME TypeOK, NEW t \in Threads, StageOK(t), Step(t),
         ~Insert(t), ~ChangeByName(t), ~ChangeById(t)
  PROVE  /\ rows' = rows /\ loose' = loose /\ lastId' = lastId
         /\ pc'[t] = "ok" => call'[t] = call[t] /\ call[t].deed \notin Changing
  <1>1. rows' = rows /\ loose' = loose /\ lastId' = lastId
    BY DEF Step, Submit, NoChanges, Resolve, Find, Get, VmsOf, Read, Summary, Select, Backup,
           InitSchema, Raise, Return, db
  <1>2. ASSUME pc'[t] = "ok"
        PROVE  call'[t] = call[t] /\ call[t].deed \notin Changing
    <2>0. DOMAIN pc = Threads /\ call \in [Threads -> Calls]
      BY DEF TypeOK
    <2>1. CASE NoChanges(t) \/ Find(t) \/ Resolve(t) \/ Raise(t) \/ Return(t)
      BY <1>2, <2>0, <2>1 DEF NoChanges, Find, Resolve, Raise, Return, Answer, Goto
    <2>2. CASE Get(t) \/ VmsOf(t) \/ Read(t)
      <3>1. pc[t] \in {"get", "vmsOf", "read"} /\ call' = call
        BY <2>2 DEF Get, VmsOf, Read, At, Answer
      <3> QED
        BY <3>1 DEF StageOK, Changing
    <2>3. CASE Summary(t) \/ Select(t) \/ Backup(t) \/ InitSchema(t)
      <3>1. pc[t] \in {"summary", "list", "backup", "init"} /\ call' = call
        BY <2>3 DEF Summary, Select, Backup, InitSchema, At, Answer, Committed
      <3> QED
        BY <3>1 DEF StageOK, Changing
    <2>4. CASE Submit(t)
      <3>1. PICK c \in Calls : Goto(t, First(c))
        BY <2>4 DEF Submit
      <3>2. First(c) # "ok"
        BY FirstFact
      <3> QED
        BY <1>2, <2>0, <3>1, <3>2 DEF Goto
    <2> QED
      BY <2>1, <2>2, <2>3, <2>4 DEF Step
  <1> QED
    BY <1>1, <1>2

\* What a change writes are the rows it is for; a deletion writes them all.
LEMMA WrittenFact ==
  ASSUME TypeOK, NEW t \in Threads, NEW old, old \subseteq rows[call[t].kind],
         rows' = Changed(t, old)
  PROVE  /\ \A p \in Written(call[t].kind) : \E r \in old : p = <<r.id, r.name>>
         /\ call[t].deed # "update" /\ old # {} => Written(call[t].kind) # {}
  <1> DEFINE k == call[t].kind
  <1>0. k \in Kinds
    BY DEF TypeOK, Calls
  <1>1. ASSUME NEW q \in (rows[k] \ rows'[k]) \cup (rows'[k] \ rows[k])
        PROVE  \E r \in old : <<q.id, q.name>> = <<r.id, r.name>>
    <2>1. CASE q \in rows[k] /\ q \notin rows'[k]
      <3>1. q \notin Kept(t, old, k) \/ After(t, old, k, q) # q
        BY <1>0, <2>1, ChangedFact
      <3>2. q \in old
        BY <2>1, <3>1 DEF Kept, After
      <3> QED
        BY <3>2
    <2>2. CASE q \in rows'[k] /\ q \notin rows[k]
      <3>1. PICK r \in Kept(t, old, k) :
               r \in rows[k] /\ q = After(t, old, k, r) /\ q.id = r.id /\ q.name = r.name
        BY <1>0, <2>2, Source
      <3>2. r \in old
        BY <2>2, <3>1 DEF After
      <3> QED
        BY <3>1, <3>2
    <2> QED
      BY <1>1, <2>1, <2>2
  <1>2. ASSUME call[t].deed # "update", NEW r \in old
        PROVE  <<r.id, r.name>> \in Written(k)
    <2>1. Kept(t, old, k) = rows[k] \ old /\ \A s : After(t, old, k, s) = s
      BY <1>2 DEF Kept, After
    <2>2. r \in rows[k] /\ r \notin rows'[k]
      BY <1>0, <1>2, <2>1, ChangedFact
    <2> QED
      BY <2>2 DEF Written
  <1>3. \A p \in Written(k) : \E r \in old : p = <<r.id, r.name>>
    BY <1>1 DEF Written
  <1> QED
    BY <1>2, <1>3

LEMMA WroteStep ==
  ASSUME TypeOK, RowsOK, NEW t \in Threads, StageOK(t), LookupsOK(t), WroteOK(t), HStep(t),
         NEW u \in Threads, WroteOK(u)
  PROVE  WroteOK(u)'
  <1>0. Step(t) /\ Cardinality({}) = 0 /\ call[t].kind \in Kinds
    BY FS_EmptySet DEF HStep, TypeOK, Calls
  <1>1. ASSUME wrote'[u] = {}, pc'[u] = "ok" => call'[u].deed \notin {"add", "delete"}
        PROVE  WroteOK(u)'
    BY <1>0, <1>1 DEF WroteOK
  <1>2. CASE u # t
    <2>1. pc'[u] = pc[u] /\ call'[u] = call[u]
      BY <1>0, <1>2, Aside
    <2>2. wrote'[u] = wrote[u]
      <3>1. wrote'[u] = IF pc'[u] = "idle" THEN {} ELSE wrote[u]
        BY <1>2 DEF HStep
      <3>2. pc[u] = "idle" => wrote[u] = {}
        BY DEF WroteOK, Answers
      <3> QED
        BY <2>1, <3>1, <3>2
    <2> QED
      BY <2>1, <2>2 DEF WroteOK
  <1>3. CASE u = t /\ pc'[t] = "idle"
    <2>1. wrote'[u] = {}
      BY <1>3 DEF HStep
    <2> QED
      BY <1>1, <1>3, <2>1
  <1>4. CASE u = t /\ pc'[t] # "idle"
    <2>1. pc[t] \notin Answers
      <3>1. DOMAIN pc = Threads
        BY DEF TypeOK
      <3>2. ~Return(t)
        BY <1>4, <3>1 DEF Return, Goto
      <3> QED
        BY <1>0, <3>2, Mover DEF Answering, Finding, Getting, Submit, Resolve, VmsOf, Summary, At,
                                 Answers
    <2>2. wrote'[t] = Written(call[t].kind)
      <3>1. wrote[t] = {}
        BY <2>1 DEF WroteOK
      <3>2. wrote'[t] = wrote[t] \cup Written(call[t].kind)
        BY <1>4 DEF HStep
      <3> QED
        BY <3>1, <3>2
    <2>3. CASE ~Insert(t) /\ ~ChangeByName(t) /\ ~ChangeById(t)
      <3>1. rows' = rows /\ (pc'[t] = "ok" => call'[t] = call[t] /\ call[t].deed \notin Changing)
        BY <1>0, <2>3, QuietFact
      <3>2. Written(call[t].kind) = {}
        BY <3>1 DEF Written
      <3> QED
        BY <1>1, <1>4, <2>2, <3>1, <3>2 DEF Changing
    <2>4. CASE Insert(t)
      <3>1. /\ Inserted(t).id = lastId + 1 /\ Inserted(t).name = call[t].name
            /\ rows'[call[t].kind] = rows[call[t].kind] \cup {Inserted(t)}
            /\ call[t].deed = "add"
        BY <2>4, InsertFact, Zenon
      <3>2. Inserted(t) \notin rows[call[t].kind]
        <4>1. \A r \in rows[call[t].kind] : r.id <= lastId /\ r.id \in Nat
          BY <1>0 DEF RowsOK, TypeOK, Rows
        <4> QED
          BY <3>1, <4>1 DEF TypeOK
      <3>3. wrote'[t] = {<<lastId + 1, call[t].name>>}
        BY <2>2, <3>1, <3>2 DEF Written
      <3>4. Cardinality(wrote'[t]) = 1
        BY <3>3, FS_Singleton
      <3>5. call' = call /\ pc'[t] \in {"ok", "raised"}
        BY <2>4 DEF Insert, At, Committed, Answer, Goto, TypeOK
      <3>6. /\ pc'[t] \in Answers /\ wrote'[t] # {} /\ Cardinality(wrote'[t]) <= 1
            /\ \A p \in wrote'[t] : p[2] = call'[t].name
            /\ call'[t].deed \in Changing /\ pc'[t] \in {"ok", "raised"}
        BY <3>1, <3>3, <3>4, <3>5 DEF Changing, Answers
      <3> QED
        BY <1>4, <3>6 DEF WroteOK
    <2>5. ASSUME NEW old, Writing(t, old), old \subseteq rows[call[t].kind],
                 \A r \in old : r.name = call[t].name,
                 call[t].kind \in ById => \A r \in old : r.id = row[t]
          PROVE  WroteOK(t)'
      <3>1. /\ \A p \in Written(call[t].kind) : \E r \in old : p = <<r.id, r.name>>
            /\ call[t].deed # "update" /\ old # {} => Written(call[t].kind) # {}
        BY <2>5, WrittenFact DEF Writing
      <3>2. /\ call' = call /\ call[t].deed \in {"update", "delete"}
            /\ pc'[t] \in {IF old = {} THEN "error" ELSE "ok", "raised"}
        BY <2>5 DEF Writing
      <3>3. \A p \in wrote'[t] : p[2] = call[t].name
        BY <2>2, <2>5, <3>1
      <3>4. call[t].kind \in ById => Cardinality(wrote'[t]) <= 1
        <4>1. SUFFICES ASSUME call[t].kind \in ById
                       PROVE  Cardinality(wrote'[t]) <= 1
          OBVIOUS
        <4>2. wrote'[t] \in SUBSET {<<row[t], call[t].name>>}
          BY <2>2, <2>5, <3>1, <4>1
        <4>3. IsFiniteSet({<<row[t], call[t].name>>}) /\ Cardinality({<<row[t], call[t].name>>}) = 1
          BY FS_Singleton
        <4> QED
          BY <4>2, <4>3, FS_Subset
      <3>5. pc'[t] = "error" => wrote'[t] = {}
        BY <2>2, <3>1, <3>2
      <3> QED
        BY <2>2, <3>1, <3>2, <3>3, <3>4, <3>5 DEF WroteOK, Changing, Answers
    <2>6. CASE ChangeByName(t)
      <3>1. /\ Writing(t, Named(call[t].kind, call[t].name)) /\ call[t].kind \notin ById
        BY <2>6, ByNameFact
      <3>2. /\ Named(call[t].kind, call[t].name) \subseteq rows[call[t].kind]
            /\ \A r \in Named(call[t].kind, call[t].name) : r.name = call[t].name
        BY DEF Named
      <3> QED
        BY <1>4, <2>5, <3>1, <3>2
    <2>7. CASE ChangeById(t)
      <3>1. Writing(t, Mine(t))
        BY <2>7, ByIdFact
      <3>2. /\ Mine(t) \subseteq rows[call[t].kind] /\ \A r \in Mine(t) : r.id = row[t]
            /\ \A r \in Mine(t) : r.name = call[t].name
        BY DEF Mine, LookupsOK
      <3> QED
        BY <1>4, <2>5, <3>1, <3>2
    <2> QED
      BY <2>3, <2>4, <2>6, <2>7
  <1> QED
    BY <1>2, <1>3, <1>4

LEMMA FoundStep ==
  ASSUME TypeOK, RowsOK, NEW t \in Threads, StageOK(t), FoundOK(t), Step(t)
  PROVE  FoundOK(t)'
  <1>0. DOMAIN pc = Threads /\ DOMAIN row = Threads /\ DOMAIN seen = Threads
    BY DEF TypeOK
  <1>1. CASE Finding(t)
    <2>1. PICK r \in rows[call[t].kind] :
             Named(call[t].kind, call[t].name) = {r} /\ row' = [row EXCEPT ![t] = r.id]
      BY <1>1 DEF Finding
    <2>2. UNCHANGED <<rows, call>> /\ row'[t] = r.id /\ pc'[t] \in {"read", "byId"}
      BY <1>0, <1>1, <2>1 DEF Finding, db
    <2>3. r \in Mine(t)' /\ Named(call[t].kind, call[t].name)' = {r}
      BY <2>1, <2>2 DEF Mine, Named
    <2> QED
      BY <2>2, <2>3 DEF FoundOK
  <1>2. CASE Submit(t)
    <2>1. PICK c \in Calls : Goto(t, First(c))
      BY <1>2 DEF Submit
    <2>2. pc'[t] \notin {"read", "byId"}
      BY <1>0, <2>1, FirstFact DEF Goto
    <2>3. seen'[t] = <<>>
      BY <1>2 DEF Submit, StageOK, local
    <2>4. 1..Len(<<>>) = {}
      OBVIOUS
    <2> QED
      BY <2>2, <2>3, <2>4 DEF FoundOK
  <1>3. CASE Summary(t)
    <2> DEFINE n == Len(seen[t])
               counted == IF n \in {0, 2} THEN "hosts" ELSE "vms"
    <2>1. /\ pc[t] = "summary" /\ rows' = rows
          /\ seen'[t] = Append(seen[t], Cardinality(rows[counted]))
          /\ pc'[t] \in {"ok", "summary"}
      BY <1>0, <1>3 DEF Summary, At, Goto, db
    <2>2. seen[t] \in Seq(Nat) /\ n <= 3
      BY <2>1 DEF StageOK
    <2>3. n \in Nat
      BY <2>2
    <2>4. Cardinality(rows[counted]) \in Nat
      BY RowsFinite DEF Kinds
    <2>5. /\ Len(seen'[t]) = n + 1 /\ seen'[t][n + 1] = Cardinality(rows[counted])
          /\ \A i \in 1..n : seen'[t][i] = seen[t][i]
      BY <2>1, <2>2, <2>4
    <2>6. \A i \in 1..n : seen[t][i] = Cardinality(rows[IF i \in {1, 3} THEN "hosts" ELSE "vms"])
      BY <2>1 DEF FoundOK
    <2> HIDE DEF n
    <2>7. counted = IF n + 1 \in {1, 3} THEN "hosts" ELSE "vms"
      BY <2>3
    <2> HIDE DEF counted
    <2>8. \A i \in 1..(n + 1) : i = n + 1 \/ i \in 1..n
      BY <2>3
    <2>9. \A i \in 1..Len(seen'[t]) :
             seen'[t][i] = Cardinality(rows'[IF i \in {1, 3} THEN "hosts" ELSE "vms"])
      <3>1. SUFFICES ASSUME NEW i \in 1..(n + 1)
                     PROVE  seen'[t][i] = Cardinality(rows[IF i \in {1, 3} THEN "hosts" ELSE "vms"])
        BY <2>1, <2>5
      <3>2. CASE i = n + 1
        BY <2>5, <2>7, <3>2
      <3>3. CASE i \in 1..n
        BY <2>5, <2>6, <3>3
      <3> QED
        BY <2>8, <3>1, <3>2, <3>3
    <2> QED
      BY <2>1, <2>9 DEF FoundOK
  <1>4. CASE Answering(t) \/ Getting(t) \/ Resolve(t) \/ VmsOf(t) \/ Return(t)
    <2>1. pc'[t] \notin {"byId", "read", "summary"}
      BY <1>0, <1>4 DEF Answering, Getting, Resolve, VmsOf, Return, Goto, Answers
    <2> QED
      BY <2>1 DEF FoundOK
  <1> QED
    BY <1>1, <1>2, <1>3, <1>4, Mover

\* The answer a worker comes to when nobody has disturbed it.
LEMMA OwnAnswer ==
  ASSUME TypeOK, RowsOK, NEW t \in Threads, StageOK(t), LookupsOK(t), FoundOK(t), Step(t)
  PROVE  AnswerHolds(t)'
  <1>0. /\ DOMAIN pc = Threads /\ DOMAIN row = Threads /\ DOMAIN seen = Threads
        /\ call[t].kind \in Kinds /\ call[t].deed \in Deeds /\ call \in [Threads -> Calls]
    BY DEF TypeOK, Calls
  <1>00. Cardinality({}) = 0 /\ \A x : Cardinality({x}) = 1
    BY FS_EmptySet, FS_Singleton
  <1> DEFINE found == Named(call[t].kind, call[t].name)
  <1>1. CASE pc'[t] \notin {"ok", "error"}
    BY <1>1 DEF AnswerHolds
  <1>2. CASE pc'[t] = "error" /\ ~Insert(t) /\ ~ChangeByName(t) /\ ~ChangeById(t)
    <2>1. rows' = rows
      BY <1>2, QuietFact
    <2>2. call' = call
      <3>1. CASE Submit(t)
        <4>1. PICK c \in Calls : Goto(t, First(c))
          BY <3>1 DEF Submit
        <4> QED
          BY <1>0, <1>2, <4>1, FirstFact DEF Goto
      <3>2. CASE Return(t)
        BY <1>0, <1>2, <3>2 DEF Return, Goto
      <3> QED
        BY <3>1, <3>2, Mover DEF Answering, Finding, Getting, Resolve, VmsOf, Summary
    <2>3. ASSUME call[t].deed \in {"update", "delete", "get"}
          PROVE  Cardinality(found) # 1
      <3>1. CASE Find(t) \/ Get(t)
        BY <1>0, <1>00, <1>2, <3>1 DEF Find, Get, Answer, Goto
      <3>2. CASE Read(t)
        <4>1. pc[t] = "read" /\ Mine(t) = {}
          BY <1>0, <1>2, <3>2 DEF Read, At, Answer, Goto
        <4> QED
          BY <4>1 DEF FoundOK
      <3>3. CASE Select(t) \/ Backup(t) \/ InitSchema(t) \/ Summary(t)
        <4>1. pc[t] \in {"list", "backup", "init", "summary"}
          BY <3>3 DEF Select, Backup, InitSchema, Summary, At
        <4> QED
          BY <2>3, <4>1 DEF StageOK
      <3>4. CASE Raise(t)
        <4>1. pc[t] = "init"
          BY <1>0, <1>2, <3>4 DEF Raise, Answer, Goto
        <4> QED
          BY <2>3, <4>1 DEF StageOK
      <3>5. CASE NoChanges(t) \/ Resolve(t) \/ VmsOf(t) \/ Return(t)
        BY <1>0, <1>2, <3>5 DEF NoChanges, Resolve, VmsOf, Return, Answer, Goto
      <3>6. CASE Submit(t)
        <4>1. PICK c \in Calls : Goto(t, First(c))
          BY <3>6 DEF Submit
        <4> QED
          BY <1>0, <1>2, <4>1, FirstFact DEF Goto
      <3> QED
        BY <1>2, <3>1, <3>2, <3>3, <3>4, <3>5, <3>6 DEF Step
    <2> QED
      BY <1>2, <2>1, <2>2, <2>3 DEF AnswerHolds, Named
  <1>3. CASE pc'[t] = "ok" /\ rows' = rows /\ call'[t] = call[t] /\ call[t].deed \notin Changing
    <2>1. CASE Getting(t)
      <3>1. /\ call[t].deed = "get" /\ call[t].kind \notin {"vms", "hosts"}
            /\ call[t].kind = "ad_users" => Cardinality(found) = 1
        BY <1>0, <1>3, <2>1 DEF Getting, StageOK
      <3> QED
        BY <1>3, <3>1 DEF AnswerHolds, Named, Changing, ById
    <2>2. CASE VmsOf(t)
      <3>1. /\ call[t].deed = "get" /\ call[t].kind = "hosts" /\ row'[t] = row[t]
            /\ seen'[t] = <<{r.name : r \in {r \in rows["vms"] : r.host = row[t]}}>>
        BY <1>0, <2>2 DEF VmsOf, At, StageOK
      <3> QED
        BY <1>3, <3>1 DEF AnswerHolds, Named, Changing, ById
    <2>3. CASE Summary(t)
      <3>1. /\ pc[t] = "summary" /\ Len(seen[t]) = 3
            /\ seen'[t] = Append(seen[t], Cardinality(rows["vms"]))
        BY <1>0, <1>3, <2>3 DEF Summary, At, Goto
      <3>2. call[t].deed = "summary" /\ seen[t] \in Seq(Nat)
        BY <3>1 DEF StageOK
      <3>3. Cardinality(rows["vms"]) \in Nat
        BY RowsFinite DEF Kinds
      <3>4. /\ \A i \in 1..Len(seen[t]) : seen'[t][i] = seen[t][i]
            /\ seen'[t][Len(seen[t]) + 1] = Cardinality(rows["vms"])
        <4>1. \A s \in Seq(Nat), e \in Nat : /\ \A i \in 1..Len(s) : Append(s, e)[i] = s[i]
                                             /\ Append(s, e)[Len(s) + 1] = e
          OBVIOUS
        <4>2. seen'[t] = Append(seen[t], Cardinality(rows["vms"]))
          BY <3>1
        <4> QED
          BY <3>2, <3>3, <4>1, <4>2
      <3>5. \A i \in 1..3 : seen[t][i] = Cardinality(rows[IF i \in {1, 3} THEN "hosts" ELSE "vms"])
        BY <3>1 DEF FoundOK
      <3>6. /\ seen[t][1] = Cardinality(rows["hosts"]) /\ seen[t][2] = Cardinality(rows["vms"])
            /\ seen[t][3] = Cardinality(rows["hosts"])
        BY <3>5
      <3>7. seen'[t][1] = seen'[t][3] /\ seen'[t][2] = seen'[t][4]
        BY <3>1, <3>4, <3>6
      <3> QED
        BY <1>3, <3>2, <3>7 DEF AnswerHolds, Changing
    <2>4. CASE Answering(t)
      <3>1. CASE Read(t)
        <4>1. pc[t] = "read"
          BY <3>1 DEF Read, At
        <4>2. call[t].deed = "get" /\ call[t].kind = "vms" /\ Cardinality(found) = 1
          BY <1>00, <4>1 DEF StageOK, FoundOK
        <4> QED
          BY <1>3, <4>2 DEF AnswerHolds, Named, Changing
      <3>2. CASE Select(t) \/ Backup(t) \/ InitSchema(t)
        <4>1. pc[t] \in {"list", "backup", "init"}
          BY <3>2 DEF Select, Backup, InitSchema, At
        <4>2. call[t].deed \in {"list", "backup", "init"}
          BY <4>1 DEF StageOK
        <4> QED
          BY <1>3, <4>2 DEF AnswerHolds
      <3>3. CASE NoChanges(t) \/ Find(t) \/ Raise(t) \/ Resolve(t) \/ Return(t)
        BY <1>0, <1>3, <3>3 DEF NoChanges, Find, Raise, Resolve, Return, Answer, Goto
      <3>4. CASE Get(t)
        <4>1. Answer(t, "error") \/ Getting(t)
          BY <3>4 DEF Get, At, Getting, Goto, Named
        <4> QED
          BY <1>0, <1>3, <2>1, <4>1 DEF Answer, Goto
      <3>5. CASE ChangeByName(t) \/ ChangeById(t) \/ Insert(t)
        <4>1. call[t].deed \in Changing
          BY <3>5, ByNameFact, ByIdFact, InsertFact DEF Writing, Changing
        <4> QED
          BY <1>3, <4>1
      <3>6. CASE Submit(t)
        BY <2>4, <3>6 DEF Answering, Submit
      <3> QED
        BY <2>2, <2>3, <3>1, <3>2, <3>3, <3>4, <3>5, <3>6 DEF Step
    <2>5. CASE Finding(t) \/ Resolve(t) \/ Return(t)
      BY <1>0, <1>3, <2>5 DEF Finding, Resolve, Return, Goto
    <2>6. CASE Submit(t)
      <3>1. PICK c \in Calls : Goto(t, First(c))
        BY <2>6 DEF Submit
      <3> QED
        BY <1>0, <1>3, <3>1, FirstFact DEF Goto
    <2> QED
      BY <2>1, <2>2, <2>3, <2>4, <2>5, <2>6, Mover
  <1>4. CASE pc'[t] = "ok" /\ Insert(t)
    <2>1. /\ Inserted(t).name = call[t].name /\ Inserted(t).host = host[t]
          /\ Inserted(t).changed = FALSE /\ call[t].deed = "add"
          /\ rows'[call[t].kind] = rows[call[t].kind] \cup {Inserted(t)}
      BY <1>4, InsertFact, Zenon
    <2>2. call' = call /\ host' = host
      BY <1>4 DEF Insert, Committed, Answer, local
    <2>3. Inserted(t) \in Named(call[t].kind, call[t].name)'
      BY <2>1, <2>2 DEF Named
    <2> QED
      BY <1>4, <2>1, <2>2, <2>3 DEF AnswerHolds
  <1>5. ASSUME pc'[t] = "ok", NEW old, Writing(t, old), old \subseteq rows[call[t].kind],
               \A r \in old : r.name = call[t].name,
               call[t].deed = "delete" => old = found,
               call[t].kind \in ById => old = found /\ Cardinality(found) = 1,
               call[t].kind \notin ById => call[t].host = None
        PROVE  AnswerHolds(t)'
    <2>1. /\ rows' = Changed(t, old) /\ old # {} /\ call' = call /\ host' = host
          /\ call[t].deed \in {"update", "delete"}
      BY <1>5 DEF Writing, local
    <2>2. ASSUME NEW q, q \in Named(call[t].kind, call[t].name)'
          PROVE  \E r \in Kept(t, old, call[t].kind) :
                    r \in found /\ q = After(t, old, call[t].kind, r)
      <3>1. q \in Changed(t, old)[call[t].kind] /\ q.name = call[t].name
        BY <2>1, <2>2 DEF Named
      <3>2. PICK r \in Kept(t, old, call[t].kind) :
               /\ r \in rows[call[t].kind] /\ q = After(t, old, call[t].kind, r)
               /\ q.name = r.name
        BY <1>0, <1>5, <3>1, Source
      <3> QED
        BY <3>1, <3>2 DEF Named
    <2>3. CASE call[t].deed = "delete"
      <3>1. Kept(t, old, call[t].kind) = rows[call[t].kind] \ found
        BY <1>5, <2>3 DEF Kept
      <3>2. Named(call[t].kind, call[t].name)' = {}
        BY <2>2, <3>1
      <3> QED
        BY <1>5, <2>1, <2>3, <3>2 DEF AnswerHolds
    <2>4. CASE call[t].deed = "update"
      <3>1. PICK r \in old : TRUE
        BY <2>1
      <3>2. r \in rows[call[t].kind] /\ r \in Rows /\ r.name = call[t].name
        BY <1>0, <1>5 DEF TypeOK
      <3>3. /\ NewRow(t, r).name = r.name /\ NewRow(t, r).changed = TRUE
            /\ NewRow(t, r).host = IF call[t].host = None THEN r.host ELSE host[t]
        BY <3>2, NewRowFact
      <3>4. NewRow(t, r) \in rows'[call[t].kind]
        <4>1. r \in Kept(t, old, call[t].kind) /\ After(t, old, call[t].kind, r) = NewRow(t, r)
          BY <2>4, <3>2 DEF Kept, After
        <4> QED
          BY <1>0, <1>5, <2>1, <4>1, ChangedFact
      <3>5. NewRow(t, r) \in Named(call[t].kind, call[t].name)'
        BY <2>1, <3>2, <3>3, <3>4 DEF Named
      <3>6. call[t].host = None \/ NewRow(t, r).host = host[t]
        BY <3>3
      <3>7. ASSUME call[t].kind \in ById
            PROVE  Cardinality(Named(call[t].kind, call[t].name)') = 1
        <4>1. PICK x : found = {x}
          <5>1. IsFiniteSet(found)
            <6>1. found \in SUBSET rows[call[t].kind]
              BY DEF Named
            <6> QED
              BY <1>0, <6>1, RowsFinite, FS_Subset
          <5> QED
            BY <1>5, <3>7, <5>1, FS_Singleton
        <4>2. x = r
          BY <1>5, <3>7, <4>1
        <4>3. \A q \in Named(call[t].kind, call[t].name)' : q = NewRow(t, r)
          BY <2>2, <2>4, <4>1, <4>2 DEF After
        <4>4. Named(call[t].kind, call[t].name)' = {NewRow(t, r)}
          BY <3>5, <4>3
        <4> QED
          BY <1>00, <4>4
      <3> QED
        BY <1>5, <2>1, <2>4, <3>3, <3>5, <3>6, <3>7 DEF AnswerHolds
    <2> QED
      BY <2>1, <2>3, <2>4
  <1>6. CASE pc'[t] = "ok" /\ ChangeByName(t)
    <2>1. Writing(t, found) /\ call[t].kind \notin ById /\ pc[t] = "byName"
      BY <1>6, ByNameFact
    <2>2. call[t].host = None
      BY <2>1 DEF StageOK, Sensible, ById
    <2>3. found \subseteq rows[call[t].kind] /\ \A r \in found : r.name = call[t].name
      BY DEF Named
    <2> QED
      BY <1>5, <1>6, <2>1, <2>2, <2>3
  <1>7. CASE pc'[t] = "ok" /\ ChangeById(t)
    <2>1. Writing(t, Mine(t)) /\ call[t].kind \in ById /\ pc[t] = "byId"
      BY <1>7, ByIdFact
    <2>2. PICK r \in Mine(t) : found = {r}
      BY <2>1 DEF FoundOK
    <2>3. Mine(t) \subseteq rows[call[t].kind] /\ \A s \in Mine(t) : s.id = row[t]
      BY DEF Mine
    <2>4. \A s \in Mine(t) : s = r
      BY <1>0, <2>3 DEF RowsOK
    <2>5. Mine(t) = found
      BY <2>2, <2>4
    <2>6. Cardinality(found) = 1 /\ \A s \in Mine(t) : s.name = call[t].name
      BY <1>00, <2>2 DEF LookupsOK
    <2> QED
      BY <1>5, <1>7, <2>1, <2>3, <2>5, <2>6
  <1>8. CASE ~Insert(t) /\ ~ChangeByName(t) /\ ~ChangeById(t)
    <2>1. rows' = rows /\ (pc'[t] = "ok" => call'[t] = call[t] /\ call[t].deed \notin Changing)
      BY <1>8, QuietFact
    <2> QED
      BY <1>1, <1>2, <1>3, <1>8, <2>1
  <1>9. CASE pc'[t] = "error" /\ ChangeByName(t)
    <2>1. Writing(t, found) /\ found \subseteq rows[call[t].kind]
      BY <1>9, ByNameFact DEF Named
    <2>2. found = {} /\ call' = call /\ rows' = Changed(t, found)
      BY <1>9, <2>1 DEF Writing
    <2>3. ASSUME NEW q, q \in Named(call[t].kind, call[t].name)'
          PROVE  FALSE
      <3>1. q \in Changed(t, found)[call[t].kind] /\ q.name = call[t].name
        BY <2>2, <2>3 DEF Named
      <3>2. \E r \in rows[call[t].kind] : q.name = r.name
        BY <1>0, <2>1, <3>1, Source
      <3> QED
        BY <2>2, <3>1, <3>2 DEF Named
    <2>4. Named(call[t].kind, call[t].name)' = {}
      BY <2>3
    <2> QED
      BY <1>00, <1>9, <2>2, <2>4 DEF AnswerHolds
  <1>10. CASE pc'[t] = "error" /\ (ChangeById(t) \/ Insert(t))
    <2>1. ChangeById(t)
      BY <1>0, <1>10 DEF Insert, At, Committed, Answer, Goto
    <2>2. Writing(t, Mine(t)) /\ pc[t] = "byId"
      BY <2>1, ByIdFact
    <2>3. Mine(t) # {}
      BY <2>2 DEF FoundOK
    <2> QED
      BY <1>10, <2>2, <2>3 DEF Writing
  <1> QED
    BY <1>1, <1>4, <1>6, <1>7, <1>8, <1>9, <1>10

\* A call that nobody has disturbed stays as it is while others do not write.
LEMMA CalmStep ==
  ASSUME TypeOK, NEW t \in Threads, Step(t), NEW u \in Threads, u # t,
         rows' = rows, FoundOK(u), AnswerHolds(u)
  PROVE  FoundOK(u)' /\ AnswerHolds(u)'
  <1>1. /\ pc'[u] = pc[u] /\ call'[u] = call[u]
        /\ host'[u] = host[u] /\ row'[u] = row[u] /\ seen'[u] = seen[u]
    BY Aside
  <1>2. FoundOK(u)'
    BY <1>1 DEF FoundOK, Mine, Named
  <1>3. AnswerHolds(u)'
    BY <1>1 DEF AnswerHolds, Named
  <1> QED
    BY <1>2, <1>3

LEMMA IdleHolds ==
  ASSUME NEW u \in Threads, pc[u] = "idle"
  PROVE  FoundOK(u) /\ AnswerHolds(u)
  BY DEF FoundOK, AnswerHolds

LEMMA InvInit == HInit => IndInv
  <1> SUFFICES ASSUME HInit
               PROVE  IndInv
    OBVIOUS
  <1>0. /\ rows = [k \in Kinds |-> {}] /\ lastId = 0 /\ loose \subseteq tables
        /\ tables \in {{}, Kinds}
        /\ pc = [t \in Threads |-> "idle"] /\ call = [t \in Threads |-> NoCall]
        /\ host = [t \in Threads |-> None] /\ row = [t \in Threads |-> None]
        /\ seen = [t \in Threads |-> <<>>] /\ wrote = [t \in Threads |-> {}] /\ alone = Threads
    BY DEF HInit, Init
  <1>1. NoCall \in Calls /\ Sensible(NoCall)
    BY DEF NoCall, Calls, Deeds, Kinds, Sensible
  <1>2. TypeOK
    BY <1>0, <1>1 DEF TypeOK, Labels
  <1>3. RowsOK
    BY <1>0 DEF RowsOK, Kinds
  <1>4. ASSUME NEW t \in Threads
        PROVE  LookupsOK(t) /\ StageOK(t) /\ WroteOK(t)
    <2>1. Mine(t) = {} /\ rows["hosts"] = {}
      BY <1>0, <1>1 DEF Mine, Kinds, Calls
    <2>2. LookupsOK(t)
      BY <1>0, <2>1 DEF LookupsOK
    <2>3. StageOK(t)
      BY <1>0, <1>1 DEF StageOK
    <2>4. WroteOK(t)
      BY <1>0, FS_EmptySet DEF WroteOK, NoCall
    <2> QED
      BY <2>2, <2>3, <2>4
  <1>5. \A t \in alone : FoundOK(t) /\ AnswerHolds(t)
    BY <1>0, IdleHolds
  <1> QED
    BY <1>2, <1>3, <1>4, <1>5 DEF IndInv

LEMMA InvStutter == IndInv /\ UNCHANGED hvars => IndInv'
  <1> SUFFICES ASSUME IndInv, UNCHANGED hvars
               PROVE  IndInv'
    OBVIOUS
  <1>0. /\ UNCHANGED <<tables, loose, rows, lastId, pc, call, host, row, seen, wrote, alone>>
    BY DEF hvars, vars, db, local
  <1>1. TypeOK' /\ RowsOK'
    BY <1>0 DEF IndInv, TypeOK, RowsOK
  <1>2. \A t \in Threads : LookupsOK(t)' /\ StageOK(t)' /\ WroteOK(t)'
    BY <1>0 DEF IndInv, LookupsOK, Mine, StageOK, WroteOK
  <1>3. \A t \in alone : FoundOK(t)' /\ AnswerHolds(t)'
    BY <1>0 DEF IndInv, FoundOK, AnswerHolds, Mine, Named
  <1> QED
    BY <1>0, <1>1, <1>2, <1>3 DEF IndInv

LEMMA InvStep ==
  ASSUME IndInv, NEW t \in Threads, HStep(t)
  PROVE  IndInv'
  <1>0. Step(t) /\ TypeOK /\ RowsOK /\ StageOK(t) /\ LookupsOK(t) /\ WroteOK(t)
    BY DEF HStep, IndInv
  <1>1. TypeOK'
    <2>1. alone' \subseteq Threads
      BY DEF HStep
    <2>2. loose' \subseteq tables'
      BY <1>0, RowsTyped DEF TypeOK
    <2> QED
      BY <1>0, <2>1, <2>2, RowsTyped, LocalsTyped DEF TypeOK
  <1>2. RowsOK'
    <2>1. \A k \in Kinds : TableOK(k)'
      BY <1>0, TableStep
    <2>2. Linked'
      BY <1>0, LinkedStep
    <2> QED
      BY <2>1, <2>2 DEF RowsOK, TableOK, Linked
  <1>3. ASSUME NEW u \in Threads
        PROVE  LookupsOK(u)' /\ StageOK(u)' /\ WroteOK(u)'
    <2>1. LookupsOK(u) /\ StageOK(u) /\ WroteOK(u)
      BY DEF IndInv
    <2>2. LookupsOK(u)'
      BY <1>0, <2>1, LookupsStep
    <2>3. StageOK(u)'
      BY <1>0, <2>1, StageStep
    <2>4. WroteOK(u)'
      BY <1>0, <2>1, WroteStep
    <2> QED
      BY <2>2, <2>3, <2>4
  <1>4. ASSUME NEW u \in alone'
        PROVE  FoundOK(u)' /\ AnswerHolds(u)'
    <2>1. u \in Threads /\ (pc'[u] = "idle" \/ (u \in alone /\ (u = t \/ rows' = rows)))
      BY <1>4 DEF HStep
    <2>2. CASE pc'[u] = "idle"
      BY <2>1, <2>2 DEF FoundOK, AnswerHolds
    <2>3. CASE u \in alone /\ u = t
      <3>1. FoundOK(t)
        BY <2>3 DEF IndInv
      <3> QED
        BY <1>0, <2>3, <3>1, FoundStep, OwnAnswer
    <2>4. CASE u \in alone /\ u # t /\ rows' = rows
      <3>1. FoundOK(u) /\ AnswerHolds(u)
        BY <2>4 DEF IndInv
      <3> QED
        BY <1>0, <2>1, <2>4, <3>1, CalmStep
    <2> QED
      BY <2>1, <2>2, <2>3, <2>4
  <1> QED
    BY <1>1, <1>2, <1>3, <1>4 DEF IndInv

LEMMA HNextStep == HNext <=> \E t \in Threads : HStep(t)
  BY DEF HNext, HStep

\* The inductive invariant: rows keep their ids and the names the tables demand, links point
\* at hosts, and every call is where its tool leads, with the rows it has looked for.
THEOREM Invariance == HSpec => []IndInv
  <1>1. IndInv /\ [HNext]_hvars => IndInv'
    BY InvStep, InvStutter, HNextStep
  <1> QED
    BY InvInit, <1>1, PTL DEF HSpec

\* Whatever other calls do in between, an answer tells what its call has written.
THEOREM WritesTold == HSpec => []AnswersTellWrites
  <1>1. IndInv => AnswersTellWrites
    BY DEF IndInv, WroteOK, AnswersTellWrites
  <1> QED
    BY Invariance, <1>1, PTL

\* The answer of a call during which nobody else has written holds of the tables.
THEOREM AnswersTrue == HSpec => []AnswersHold
  <1>1. IndInv => AnswersHold
    BY DEF IndInv, AnswersHold
  <1> QED
    BY Invariance, <1>1, PTL

LEMMA RelinksStep ==
  ASSUME IndInv, NEW t \in Threads, HStep(t)
  PROVE  Relinks
  <1>0. Step(t) /\ TypeOK /\ RowsOK /\ StageOK(t) /\ LookupsOK(t)
    BY DEF HStep, IndInv
  <1>1. /\ call[t].kind \in Kinds /\ {"vms", "hosts"} \subseteq Kinds
        /\ rows["vms"] \subseteq Rows /\ rows["hosts"] \subseteq Rows
        /\ DOMAIN pc = Threads
    BY <1>0 DEF TypeOK, Calls, Kinds
  <1>2. SUFFICES ASSUME NEW r \in rows'["vms"],
                        ~ \E s \in rows["vms"] : s.id = r.id /\ s.host = r.host
                 PROVE  IF r.host = None
                        THEN \A s \in rows["vms"] :
                                s.id = r.id => ~ \E h \in rows'["hosts"] : h.id = s.host
                        ELSE \E u \in Threads : PutBy(u, r)
    BY DEF Relinks
  <1>3. r \notin rows["vms"]
    BY <1>2
  \* The host that a call has looked up is the one it names.
  <1>4. ASSUME LinkHolds(t), r.host = host[t], r.host # None, r.name = call[t].name,
               pc[t] \notin Answers, pc'[t] \in Answers
        PROVE  PutBy(t, r)
    <2>1. PICK h \in rows["hosts"] : h.id = host[t]
      BY <1>4 DEF LinkHolds
    <2>2. h.name = call[t].host
      BY <1>0, <2>1 DEF LookupsOK
    <2> QED
      BY <1>4, <2>1, <2>2 DEF PutBy
  <1>5. CASE Insert(t)
    <2>1. /\ Inserted(t).id = lastId + 1 /\ Inserted(t).name = call[t].name
          /\ Inserted(t).host = host[t] /\ LinkHolds(t)
          /\ rows'[call[t].kind] = rows[call[t].kind] \cup {Inserted(t)}
          /\ \A k \in Kinds : k # call[t].kind => rows'[k] = rows[k]
      BY <1>0, <1>5, InsertFact, Zenon
    <2>2. r = Inserted(t)
      BY <1>1, <1>3, <2>1
    <2>3. pc[t] \notin Answers /\ pc'[t] \in Answers
      BY <1>1, <1>5 DEF Insert, At, Committed, Answer, Goto, Answers
    <2>4. ASSUME NEW s \in rows["vms"]
          PROVE  s.id # r.id
      <3>1. s.id <= lastId /\ s.id \in Nat /\ lastId \in Nat
        BY <1>0, <1>1 DEF RowsOK, TypeOK, Rows
      <3> QED
        BY <2>1, <2>2, <3>1
    <2> QED
      BY <1>4, <2>1, <2>2, <2>3, <2>4
  <1>6. ASSUME NEW old, Writing(t, old), old \subseteq rows[call[t].kind],
               call[t].kind = "vms" => \A s \in old : s.name = call[t].name,
               old # {} /\ call[t].kind = "vms" /\ call[t].deed = "update" =>
                  LinkHolds(t) /\ (call[t].host # None => host[t] # None)
        PROVE  IF r.host = None
               THEN \A s \in rows["vms"] :
                       s.id = r.id => ~ \E h \in rows'["hosts"] : h.id = s.host
               ELSE \E u \in Threads : PutBy(u, r)
    <2>1. rows' = Changed(t, old) /\ pc[t] \in {"byName", "byId"} /\ pc'[t] \in {"ok", "error", "raised"}
      BY <1>6 DEF Writing
    <2>2. PICK s \in Kept(t, old, "vms") :
             s \in rows["vms"] /\ r = After(t, old, "vms", s) /\ r.id = s.id /\ r.name = s.name
      BY <1>0, <1>1, <1>2, <1>6, <2>1, Source
    <2>3. r # s /\ s \in Rows /\ r.host # s.host
      BY <1>1, <1>2, <1>3, <2>2
    <2>4. CASE call[t].deed = "update"
      <3>1. call[t].kind = "vms" /\ s \in old /\ r = NewRow(t, s)
        BY <2>2, <2>3, <2>4 DEF After
      <3>2. r.host = IF call[t].host = None THEN s.host ELSE host[t]
        BY <1>0, <2>3, <3>1, NewRowFact
      <3>3. call[t].host # None /\ r.host = host[t]
        BY <2>3, <3>2
      <3>4. LinkHolds(t) /\ r.host # None
        BY <1>6, <2>4, <3>1, <3>3
      <3>5. r.name = call[t].name
        BY <1>6, <2>2, <3>1
      <3>6. pc[t] \notin Answers /\ pc'[t] \in Answers
        BY <2>1 DEF Answers
      <3> QED
        BY <1>4, <3>3, <3>4, <3>5, <3>6
    <2>5. CASE call[t].deed # "update"
      <3>1. call[t].kind = "hosts" /\ r = Unlinked(old, s)
        BY <2>2, <2>3, <2>5 DEF After
      <3>2. r.host = IF \E g \in old : g.id = s.host THEN None ELSE s.host
        BY <2>3, <3>1, UnlinkedFact
      <3>3. PICK g \in old : g.id = s.host
        BY <2>3, <3>2
      <3>4. r.host = None
        BY <2>3, <3>2
      <3>5. ASSUME NEW q \in rows["vms"], q.id = r.id, NEW h \in rows'["hosts"], h.id = q.host
            PROVE  FALSE
        <4>1. q = s
          BY <1>0, <1>1, <2>2, <3>5 DEF RowsOK
        <4>2. PICK f \in Kept(t, old, "hosts") :
                 f \in rows["hosts"] /\ h = After(t, old, "hosts", f) /\ h.id = f.id
          BY <1>0, <1>1, <1>6, <2>1, <3>5, Source
        <4>3. f \notin old
          BY <2>5, <3>1, <4>2 DEF Kept
        <4>4. f.id = g.id /\ g \in rows["hosts"]
          BY <1>6, <3>1, <3>3, <3>5, <4>1, <4>2
        <4>5. f = g
          BY <1>0, <1>1, <4>2, <4>4 DEF RowsOK
        <4> QED
          BY <3>3, <4>3, <4>5
      <3> QED
        BY <3>4, <3>5
    <2> QED
      BY <2>4, <2>5
  <1>7. CASE ChangeByName(t)
    <2>1. Writing(t, Named(call[t].kind, call[t].name)) /\ call[t].kind # "vms"
      BY <1>0, <1>7, ByNameFact DEF ById
    <2>2. Named(call[t].kind, call[t].name) \subseteq rows[call[t].kind]
      BY DEF Named
    <2> QED
      BY <1>6, <2>1, <2>2
  <1>8. CASE ChangeById(t)
    <2>1. /\ Writing(t, Mine(t)) /\ pc[t] = "byId"
          /\ call[t].deed = "update" => LinkHolds(t)
      BY <1>0, <1>8, ByIdFact
    <2>2. Mine(t) \subseteq rows[call[t].kind] /\ \A s \in Mine(t) : s.name = call[t].name
      BY <1>0 DEF Mine, LookupsOK
    <2>3. call[t].deed = "update" => (call[t].host # None => host[t] # None)
      BY <1>0, <2>1 DEF StageOK
    <2> QED
      BY <1>6, <2>1, <2>2, <2>3
  <1>9. CASE ~Insert(t) /\ ~ChangeByName(t) /\ ~ChangeById(t)
    <2>1. rows' = rows
      BY <1>0, <1>9, QuietFact
    <2> QED
      BY <1>2, <1>3, <2>1
  <1> QED
    BY <1>5, <1>7, <1>8, <1>9

\* A VM is put on a host only by a call that names the two, and loses it only with the host.
THEOREM LinksAsNamed == HSpec => LinksNamed
  <1>1. IndInv /\ [HNext]_hvars => [Relinks]_hvars
    BY RelinksStep, HNextStep
  <1> QED
    BY Invariance, <1>1, PTL DEF HSpec, LinksNamed
=============================================================================
