-------------------------- MODULE MCCommandHistory --------------------------
(* Small instances of CommandHistory for TLC. *)
EXTENDS CommandHistory, TLC

AllAreas == UNION {{<<server, file>> : file \in DOMAIN Servers[server]} :
                   server \in DOMAIN Servers}
DnsArea == {<<"active_directory", "dns">>}

Symm == Permutations(Threads) \cup Permutations(Values)

\* What the invariants ask of the history: what a call that is judged has changed, and
\* how it began only where a setting must survive.
Judged == alone \ lost
Seen == <<commandVars, Judged,
          [t \in Judged |-> touched[t] \ (IF area[2] = "dns" THEN {} ELSE Prepared)],
          IF smooth /\ area = <<"libvirt", "host_network">> THEN had ELSE None>>
=============================================================================
