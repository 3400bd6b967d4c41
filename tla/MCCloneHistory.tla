--------------------------- MODULE MCCloneHistory ---------------------------
(* Small instances of CloneHistory for TLC. *)
EXTENDS CloneHistory, TLC

CONSTANTS h1, h2, n1, n2, src

OneHost == {<<h1>>}
TwoHosts == {<<h1, h2>>}
OneVm == <<n1>>
TwoVms == <<n1, n2>>

\* What a call was asked matters until it is done, whether it was disturbed only to those
\* the invariants judge, and whose the credentials are only until that VM is there.
Judged == {t \in alone : pc[t] # "idle" /\ (job[t].tool = "image" \/ Transfers(t))}
Asked(t) == [job[t] EXCEPT !.keep = @ /\ pc[t] \notin {"install", "save", "ok", "raised"},
                           !.skip = FALSE,
                           !.name = IF pc[t] = "raised" THEN None ELSE @,
                           !.tool = IF pc[t] = "raised" THEN "image" ELSE @]
Unmet == creds # None /\ \A h \in Hosts : vm[<<h, creds>>] = None
Seen == <<files, Unmet, pc, [t \in Threads |-> Asked(t)], Judged, taken, scped>>
Symm == Permutations(Threads)
=============================================================================
