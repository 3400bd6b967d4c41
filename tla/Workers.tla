------------------------------- MODULE Workers -------------------------------
(***************************************************************************)
(* What the models of the servers share: the tools run in the worker       *)
(* threads of a server's default executor, one call at a time each.        *)
(***************************************************************************)
CONSTANTS
    Threads,  \* the worker threads
    None      \* Python's None, or nothing

VARIABLE pc   \* where each worker is in its call, or the answer to be sent

Goto(t, label) == pc' = [pc EXCEPT ![t] = label]
=============================================================================
