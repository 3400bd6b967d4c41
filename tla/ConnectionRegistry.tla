------------------------- MODULE ConnectionRegistry -------------------------
(***************************************************************************)
(* What the SQL server's connection registry promises, without threads,    *)
(* locks or pool objects: a table from aliases to database configurations. *)
(* An entry changes its configuration only after it stopped serving, and a *)
(* step changes one entry only.                                            *)
(***************************************************************************)
CONSTANTS Aliases, Configs, None

VARIABLE table   \* alias |-> None, or the configuration and whether it serves

Entries == [cfg : Configs, serves : BOOLEAN]

Init == table = [a \in Aliases |-> None]

\* The entry keeps its configuration and stops serving.
Retire(a) == /\ table[a] # None
             /\ table' = [table EXCEPT ![a] = [cfg |-> @.cfg, serves |-> FALSE]]

Install(a, c) == /\ table[a] # None => ~table[a].serves
                 /\ table' = [table EXCEPT ![a] = [cfg |-> c, serves |-> TRUE]]

Remove(a) == table' = [table EXCEPT ![a] = None]

Next == \E a \in Aliases : Retire(a) \/ Remove(a) \/ \E c \in Configs : Install(a, c)

Spec == Init /\ [][Next]_table
=============================================================================
