------------------------- MODULE MCInventoryHistory -------------------------
(* Small instances of InventoryHistory for TLC. *)
EXTENDS InventoryHistory, TLC

Symm == Permutations(Threads)

TwoHosts == [k \in Kinds |-> IF k = "hosts" THEN {"n1", "n2"} ELSE {"n1"}]

\* What a call still needs, or its answer is still judged by: its reads only while nobody
\* has disturbed it, and its rows and what it was asked to do only for "ok" and "error".
Judged == {t \in alone : pc[t] # "idle"}
Left(t) ==
    IF pc[t] \in {"idle", "no_changes"} THEN <<>>
    ELSE IF pc[t] = "raised"
         THEN IF wrote[t] = {} THEN <<>> ELSE <<call[t].deed, call[t].kind, call[t].name>>
    ELSE IF pc[t] \notin {"ok", "error"} THEN <<call[t], host[t], row[t]>>
    ELSE IF call[t].deed \notin Changing /\ t \notin Judged THEN <<>>
    ELSE IF call[t].deed \in {"list", "init", "backup"} THEN <<>>
    ELSE IF t \notin Judged THEN <<call[t].deed, call[t].kind, call[t].name>>
    ELSE <<call[t], host[t], row[t]>>
Seen == <<tables \cap Kinds, loose, rows, lastId, pc, wrote, Judged, [t \in Threads |-> Left(t)],
          [t \in Threads |-> IF t \in Judged THEN seen[t] ELSE Len(seen[t])]>>
=============================================================================
