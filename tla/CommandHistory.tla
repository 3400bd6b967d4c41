--------------------------- MODULE CommandHistory ---------------------------
(***************************************************************************)
(* CommandTools with what its answers are judged by: which calls nobody    *)
(* else has disturbed, which have lost a command, what each has changed,   *)
(* and whether every call so far has answered "ok".                        *)
(***************************************************************************)
EXTENDS CommandTools

VARIABLES
    alone,    \* calls during which only their own worker has changed the target
    lost,     \* calls that have lost the answer of a command
    touched,  \* the facets each call has changed
    had,      \* the facets that have had a value, until a flush took them with it
    smooth    \* no call has answered anything but "ok"

hvars == <<commandVars, alone, lost, touched, had, smooth>>

HInit == /\ CommandInit
         /\ alone = Threads
         /\ lost = {}
         /\ touched = [t \in Threads |-> {}]
         /\ had = {f \in DOMAIN target : target[f] # {}}
         /\ smooth = TRUE

Changed == {f \in DOMAIN target : target'[f] # target[f]}
Answered(t) == pc[t] \notin {"idle", "run"}

\* `actor` is the worker that acts, or None.
Remember(actor) ==
    /\ alone' = {t \in Threads : \/ pc'[t] = "idle"
                                 \/ t \in alone /\ (t = actor \/ target' = target)}
    /\ touched' = [t \in Threads |-> IF pc'[t] = "idle" THEN {}
                                     ELSE IF t = actor THEN touched[t] \cup Changed
                                     ELSE touched[t]]
    /\ smooth' = (smooth /\ \A t \in Threads : pc'[t] \in {"idle", "run", "ok"})
    /\ had' = (had \cup {f \in DOMAIN target : target'[f] # {}})
               \ {f \in DOMAIN target : Owned(f) /\ target'[Parent[f]] = {}}

HLost(t) == Lost(t) /\ lost' = lost \cup {t}
HSteady(t) == /\ Ask(t) \/ Works(t) \/ Fails(t) \/ Reply(t)
              /\ lost' = {w \in lost : pc'[w] # "idle"}

HNext == \/ Late /\ Remember(None) /\ UNCHANGED lost
         \/ \E t \in Threads : (HLost(t) \/ HSteady(t)) /\ Remember(t)
HSpec == HInit /\ [][HNext]_hvars

-----------------------------------------------------------------------------
\* The statements that the "ok" of a tool says nothing about.
Unchecked == {<<<<"libvirt", "host_network">>, "put", "link">>,
              <<<<"libvirt", "host_packages">>, "put", "index">>,
              <<<<"active_directory", "dns">>, "add", "record">>,
              <<<<"active_directory", "gpo">>, "put", "other">>,
              <<<<"winrm", "users">>, "add", "member">>,
              <<<<"winrm", "system">>, "put", "name">>,
              <<<<"winrm", "system">>, "put", "power">>}

Clears(s) == s.op \in {"drop", "wipe"}
InEffect(s, v) == IF Clears(s) THEN target[s.on] = {} ELSE v \in target[s.on]

\* The last thing a script does to each facet, unless its answer says nothing about it.
Promises(a, s) ==
    {i \in 1..Len(s) :
        /\ Changes(s[i])
        /\ <<a, s[i].op, s[i].on>> \notin Unchecked
        /\ \A j \in i + 1..Len(s) : Changes(s[j]) => s[j].on # s[i].on}
Promised(t) == {script[t][i] : i \in Promises(area, script[t])}

\* An undisturbed call that answers "ok" without having lost a command has put every
\* statement in effect; "partial" means that the user is there without the password.
AnswersHold ==
    \A t \in alone \ lost :
       /\ pc[t] = "ok" => \A s \in Promised(t) : InEffect(s, value[t])
       /\ pc[t] = "partial" => target["user"] # {} /\ "password" \notin touched[t]

\* What a call may have changed that then fails: a setting that is cleared before it is
\* set, and preparations (a package index, a folder).
Prepared == {"address", "route", "link", "record", "index", "other"}

\* An undisturbed call that answers an error has changed nothing else.
ErrorsChangeNothing ==
    \A t \in alone \ lost : pc[t] = "error" => touched[t] \subseteq Prepared

\* set_host_ip and set_default_gateway clear the old setting first, and the flush of
\* the addresses takes the route with it, which set_host_ip does not put back.  However
\* their calls interleave: as long as every one of them answers "ok", a host that has
\* had an address has one when nobody is at work, and one that has had a route since
\* the last flush has a route.
SettingsSurvive ==
    /\ area = <<"libvirt", "host_network">>
    /\ smooth /\ late = None
    /\ \A t \in Threads : pc[t] = "idle"
    => \A f \in had \cap {"address", "route"} : target[f] # {}

-----------------------------------------------------------------------------
\* The tool table: "Update an existing DNS record with a new value (delete + re-add
\* atomically)."  The record that was there is never gone after an update.
UpdatesAreAtomic ==
    \A t \in alone \ lost :
       Answered(t) /\ Len(script[t]) > 1 /\ "record" \in touched[t]
          => (script[t][1] = Must("drop", "record") => target["record"] # {})

-----------------------------------------------------------------------------
(* What makes them inductive: how the scripts are written ... *)

\* What a statement may change: what it clears takes with it what it owns.
Affects(s) == {f \in {s.on} \cup (IF Clears(s) THEN {f \in DOMAIN Parent : Parent[f] = s.on}
                                 ELSE {}) : Changes(s)}

\* A statement that restores a setting, or whose failure is told.
Restores(s, f) == s.op \in {"new", "add"} /\ s.on = f /\ s.fail \in {"must", "judge"}

ScriptOK(a, s) ==
    /\ DOMAIN s = 1..Len(s) /\ Len(s) \in Nat \ {0}
    /\ \A i \in Promises(a, s) : s[i].fail # "try"
    /\ \A i \in 1..Len(s) : s[i].fail = "half" => i = 2 /\ s[1] = Must("new", "user")
    /\ \A i \in 1..Len(s) : \A j \in i + 1..Len(s) :
          /\ Clears(s[j]) /\ Owned(s[i].on) => Parent[s[i].on] # s[j].on
          /\ s[j].fail = "must" => Affects(s[i]) \subseteq Prepared
    /\ (\E i \in 1..Len(s) : s[i].fail = "judge")
          => \A i \in 1..Len(s) : Affects(s[i]) \subseteq Prepared
    /\ a = <<"libvirt", "host_network">>
          => \A i \in 1..Len(s) : Clears(s[i]) =>
                \E j \in i + 1..Len(s) : Restores(s[j], s[i].on)

(* ... and what their runs keep. *)

MachineOK ==
    /\ area \in Areas
    /\ target \in [FacetsOf(area) -> SUBSET (Values \cup {None})]
    /\ \A f \in FacetsOf(area) : Owned(f) /\ target[Parent[f]] = {} => target[f] = {}
    /\ late \in {None} \cup [does : Statements(area), for : Values \cup {None}]

CallsOK ==
    /\ pc \in [Threads -> {"idle", "run", "ok", "partial", "error", "raised"}]
    /\ script \in [Threads -> Scripts(area) \cup {<<>>}]
    /\ at \in [Threads -> Nat]
    /\ value \in [Threads -> Values \cup {None}]
    /\ good \in [Threads -> BOOLEAN]
    /\ \A t \in Threads :
          /\ pc[t] # "idle" => script[t] \in Scripts(area) /\ at[t] \in 1..Len(script[t])
          /\ pc[t] = "ok" => good[t]

\* The statements that a call has gone past.
Past(t) == IF pc[t] = "run" THEN 1..at[t] - 1 ELSE 1..Len(script[t])

\* What the call has to show for its promises so far.
KeptSoFar(t) ==
    t \in alone \ lost /\ pc[t] \in {"run", "ok"} /\ good[t]
       => \A i \in Promises(area, script[t]) \cap Past(t) : InEffect(script[t][i], value[t])

\* Only the statements it is past have changed anything.
TouchedOK(t) ==
    /\ pc[t] = "idle" => touched[t] = {}
    /\ pc[t] # "idle" => touched[t] \subseteq UNION {Affects(script[t][i]) : i \in Past(t)}

\* A call that may still answer "partial" has made the user and nothing else.
HalfOK(t) ==
    /\ t \in alone \ lost /\ pc[t] = "run" /\ script[t][at[t]].fail = "half"
          => target["user"] # {}
    /\ t \in alone \ lost /\ pc[t] = "partial"
          => target["user"] # {} /\ "password" \notin touched[t]

\* A call that answers, or will answer, an error has changed only what is prepared.
FailedOK(t) ==
    /\ pc[t] = "run" /\ ~good[t] => \E i \in 1..Len(script[t]) : script[t][i].fail = "judge"
    /\ pc[t] = "error" => touched[t] \subseteq Prepared

\* A call that will restore the setting, or answer an error.
Restoring(t, f) ==
    /\ pc[t] = "run"
    /\ good[t] => \E i \in at[t]..Len(script[t]) : Restores(script[t][i], f)

SettingsOK ==
    /\ had \subseteq FacetsOf(area)
    /\ area = <<"libvirt", "host_network">> /\ smooth
          => /\ late = None
             /\ \A f \in had \cap {"address", "route"} :
                   target[f] # {} \/ \E t \in Threads : Restoring(t, f)

WorkerOK(t) == KeptSoFar(t) /\ TouchedOK(t) /\ HalfOK(t) /\ FailedOK(t)
CommandInv == /\ MachineOK /\ CallsOK /\ SettingsOK
              /\ alone \subseteq Threads
              /\ \A t \in Threads : WorkerOK(t)
=============================================================================
