-------------------------- MODULE CachedConnections --------------------------
(***************************************************************************)
(* What the connection registries of the libvirt, Active Directory and     *)
(* WinRM servers have in common, without threads, locks or connection      *)
(* objects: for each host a configuration, and at most one connection that *)
(* serves it, made with a configuration the host had.                      *)
(***************************************************************************)
CONSTANTS
    Hosts,
    Configs,
    KeepsConnection,  \* registering a host again keeps its connection (libvirt)
    None

VARIABLES
    config,   \* host |-> its configuration, or None
    serving   \* host |-> the configuration its connection was made with, or None

Init ==
    /\ config \in [Hosts -> Configs \cup {None}]
    /\ serving = [h \in Hosts |-> None]

Register(h, c) ==
    /\ config' = [config EXCEPT ![h] = c]
    /\ serving' = IF KeepsConnection THEN serving ELSE [serving EXCEPT ![h] = None]

Connect(h) ==
    /\ config[h] # None
    /\ serving[h] = None
    /\ serving' = [serving EXCEPT ![h] = config[h]]
    /\ UNCHANGED config

\* The remote end goes away, or the registry forgets a connection that failed.
Lose(h) ==
    /\ serving' = [serving EXCEPT ![h] = None]
    /\ UNCHANGED config

Remove(h) ==
    /\ config' = [config EXCEPT ![h] = None]
    /\ serving' = [serving EXCEPT ![h] = None]

Next == \E h \in Hosts : \/ Connect(h) \/ Lose(h) \/ Remove(h)
                         \/ \E c \in Configs : Register(h, c)

Spec == Init /\ [][Next]_<<config, serving>>
=============================================================================
