------------------------- MODULE MCDirectoryHistory -------------------------
(* DirectoryHistory for TLC: workers and accounts are interchangeable, and *)
(* the output of an operation is the same state to whoever will not read it. *)
EXTENDS DirectoryHistory, TLC

Symm == Permutations(Threads) \cup Permutations(Users)

\* A search replaces entries and every operation result: between a worker's last
\* look and the next operation, what they hold cannot matter.
Awaited(labels, value) == IF \E t \in Threads : pc[t] \in labels THEN value ELSE None

Seen ==
    <<dir, Awaited({"read", "readMember"}, entries), Awaited({"result"}, result),
      pc, call, local, mixed, changed>>
=============================================================================
