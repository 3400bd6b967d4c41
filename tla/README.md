# TLA+ verification of the MCP infrastructure servers

The repository holds five Model Context Protocol servers (libvirt, Active Directory, WinRM, PostgreSQL, bash) that
expose 209 tools. This directory keeps TLA+ models of the parts whose behaviour depends on timing or on failure, the
TLC configurations that check them, and TLAPS proofs of the most important facts. `PROJECT.json` lists components,
runs, mutants, hazards, theorems and, for every definition, the source lines it models.

## 1. Inventory

All five servers share one shape (`*/server.py`, `handle_call_tool`): an asyncio loop looks the tool up and runs the
Python function in the default `ThreadPoolExecutor`. **Tool calls therefore run concurrently**, and the module-level
registries (`pool`) are shared by the worker threads. An exception in a tool becomes an ordinary text answer; nothing is
retried and nothing is rolled back. No server persists anything of its own: what outlives a call is the in-memory
registry and the system behind it (database, hypervisor, directory, Windows host, file system).

| component | state | operations | hard behaviour | what makes it correct |
|---|---|---|---|---|
| SQL registry (`sql_mcp/core/connection.py`, `tools/db.py`) | `_configs`, `_pools`, one `_lock`; psycopg2 pools; a read-only twin `<alias>__ro` of each alias | `connect_db`, `disconnect_db`, `execute_query`, `execute_statement`, start-up | `execute` uses the pool object after the lock is released; two-step tools; the network connect under the lock; a constructor that raises half-way | dictionaries agree; no pool or connection is leaked; the answer tells what happened to the data; queries never run as the primary role; queries and statements of an alias reach the same database |
| SQL inventory (`tools/hosts.py`, `vms.py`, `networks.py`, `users.py`, `schema.py`) | tables `hosts`, `vms`, `networks`, `users` | CRUD by name, `get_summary`, `init_schema`, `backup_db` | name resolved in one transaction, row changed in the next; four independent counts in a summary; `users.py` uses a table that `init_schema` never creates | a change hits the row that was named; references stay valid |
| libvirt host registry (`libvirt_mcp/core/connection.py`, `tools/hosts.py`) | `_configs`, `_connections`, `_lock` | `add_host`, `remove_host`, `get_connection` (used by every tool), bootstrap from the inventory database | lock released and taken again inside `with`; the bootstrap registers *every* database host again; `register_host` keeps a cached connection | at most one open connection per host; a cached connection belongs to the registered configuration |
| VM lifecycle and snapshots (`tools/lifecycle.py`, `snapshots.py`) | libvirt domains, their disks, snapshots, managed save | create, start, stop, force-stop, reboot, delete, snapshot create/revert/delete | state read and acted on in separate library calls; a failure after the destroy step | a VM that ran before a failed revert runs after it; no disk of a running VM is deleted |
| Storage and clone pipeline (`tools/storage.py`, `clone.py`, `creds.py`) | image files on hosts, domains, inventory rows | golden image, copy to host, clone local/remote/to all hosts | six-step jobs, each step can fail or time out; shared intermediate files; check-then-register | a failed job restarts what it stopped and removes what it left; concurrent jobs do not remove each other's input |
| Host OS, network, console tools | addresses and routes of a host | `set_host_ip`, `set_default_gateway`, ... | flush, then add | a host is not left without an address |
| AD pools (`ad_mcp/core/connection.py`, `tools/dc.py`) | two registries (LDAP, WinRM), each with a lock | `add_dc`, `remove_dc`, `get_connection` | changed one after the other; bind under the lock; config and connection read in two steps | both registries name the same DCs; a call uses one DC's configuration and connection together |
| AD objects (`tools/users.py`, `groups.py`, `objects.py`, `computers.py`, `ous.py`) | directory objects; `conn.entries` of the shared ldap3 connection | search, create, modify, enable/disable, move, delete | search result read from a connection other workers search on; read-modify-write of `userAccountControl` | a call changes the object it was asked to change and keeps the other flags |
| AD DNS, DHCP, GPO | records, scopes, GPOs on the DC | one PowerShell command per tool | `update_dns_record` deletes, then adds | a record is not lost when the new one is refused |
| WinRM sessions (`winrm_mcp/core/connection.py`, `tools/hosts.py`) | `_hosts`, `_sessions`, `_lock` | `add_host`, `remove_host`, `run_ps`, `run_cmd` | shared session's timeout set in place; a failed command pops whatever session is registered now | a session serves the configuration registered last |
| WinRM file transfer (`tools/files.py`) | a remote file, a local staging file | upload in chunks, download, delete | first chunk writes, later chunks append, from several workers | a reported upload left exactly the local bytes |
| WinRM, bash and host OS tools of a few commands | none | services, packages, users, processes, disks, network, events | a command whose client has given up goes on; failures that nobody looks at | an answer is true of what was done; an error has left no half-done change behind |
| bash file tools (`bash_mcp/tools/files.py`) | the file system; allowed roots from the environment | read, write, list, delete, copy, move, find | the path is resolved, then used | nothing outside the roots is touched |
| Dispatch (`*/server.py`) | tool tables | unknown tool, executor, error answers | concurrency of everything above | every call is answered |

How they interact: the libvirt server reads the `hosts` and `vms` tables that the SQL server maintains (bootstrap of
remote hosts, clone registration); the AD server runs DNS/DHCP/GPO commands over its own WinRM sessions; otherwise the
servers are separate processes that share nothing.

## 2. How the project is built

| subsystem | modules | abstract specification | run | theorems |
|---|---|---|---|---|
| SQL registry | `SqlPool`, `SqlPoolHistory` | `ConnectionRegistry`, refined | `sql_pool` | inductive invariant, registry, connections, replies, roles, routing, refinement |
| libvirt registry | `LibvirtPool` | `CachedConnections`, refined | `libvirt_pool` | inductive invariant, one connection per host, refinement |
| VMs and snapshots | `VmLifecycle`, `VmHistory` | what each answer claims | `vm_lifecycle` | inductive invariant, a defined VM has its disk, answers |
| directory tools | `DirectoryTools`, `DirectoryHistory` | what each answer claims | `ad_tools`, `ad_unlock` | inductive invariant, where tools write, which flags they keep, answers |
| AD registries | `DomainPools`, `DomainHistory` | `CachedConnections`, refined; what each answer claims | `ad_pools` | inductive invariant, agreement of the registries, current settings, answers, refinement |
| tools of a few commands (libvirt host OS, volumes, networks, consoles; AD DNS, DHCP, GPO; WinRM; bash) | `CommandTables`, `CommandTools`, `CommandHistory` | the effect of each statement | `commands`, `dns_update` | inductive invariant, answers, errors, settings |
| clone pipeline | `ClonePipeline`, `CloneHistory` | what each answer claims | `clone`, `clone_batch` | inductive invariants, disks, torn images, inputs, answers |
| SQL inventory | `SqlInventory`, `InventoryHistory` | what each answer claims | `sql_inventory` | inductive invariant, answers and writes, links, answers |
| WinRM sessions and files | `WinRMSessions`, `WinRMFiles`, `WinRMHistory` | what each answer claims | `winrm` | inductive invariant, current settings, uploads, answers |

Sections 3 to 11 say what each proof rests on. Every safety property and every action property that a run checks, and
each of the three refinements, is also a theorem, for every value of the constants that the named assumptions allow.
Model-checked only are `CallsDrain` of the two registries, where workers wait for one another (liveness under fairness is
beyond the prover), and the three violations of section 12, which TLC shows by a behaviour.

Every proof goes the same way. One lemma for each control helper (`Goto`, `Finish`, `Onward`, ...) says where a step
leads; one for each action that it keeps each part of the invariant it can disturb; "aside" lemmas say that a call keeps
what holds of it while another worker acts. The theorem combines them with the initial states and the stuttering step.

One run asks everything of one instance: the safety properties, the refinement and, where workers wait for one another
(the registries of libvirt and AD), the liveness. A statement of the repository's own texts that the code refutes is a run
of its own.

A history module extends its component's module with variables that no action reads. They remember what a claim about
an answer needs, most of all which calls are `alone`: nobody else has changed, since the call began, what its answer is
about. What the tools say of a host, a directory or a table can only be held against them then; where something must hold
*whatever* the others do, the property says so.

The parts compose at what they share. `VmLifecycle` includes the imaging of `create_golden_image`; `WinRMFiles` extends
`WinRMSessions`, so that every file command runs in the session the registry holds; `SqlInventory`'s statements are
the transactions that `SqlPool` shows to be committed or not as their answers say; `ClonePipeline`'s `Install` leaves out
the registration that `LibvirtPool` models. Everything else is separate processes.

`Workers` holds what all the components share: the worker threads, `None`, and where each worker is (`pc`, `Goto`).
Every component extends it.

Every module has the same layout: constants with named assumptions, one action per stretch of code between two points
where another worker can be seen, the properties, and the facts that make them inductive. None declares a
RECURSIVE operator. Definitions introduced as "Faulty variant" are never used by a specification: each is a plausible
bug of the definition it precedes, and `PROJECT.json` says which property finds it.

## 3. The SQL server: `SqlPool`

### 3.1 Correspondence

| model | code |
|---|---|
| `lock`, `configs`, `pools` | `DBPool._lock`, `_configs`, `_pools` |
| `heap` | the `ThreadedConnectionPool` objects: the configuration each was built from, its idle connection, the workers it lent to. `None` is an object that is closed, or not made yet: both refuse every use |
| `pc`, `call`, `obj`, `snap`, `conn` | a worker, its tool call, and its local variables `pool`, `cfg` and `conn` |
| `applied` | what its transaction did: nothing, committed, or committed with the answer lost |
| `phase` | `main()`: first `connect_db`, then the read-only connection, then serving. One worker stands for the main thread until then |
| `Submit` / `Return` | `handle_call_tool`: the call starts in a worker; the answer or the error text is sent |
| `DropRo`, `Drop` | `remove_connection` of the read-only twin and of the alias: one locked block each |
| `BeginAdd`, `AddOk`, `AddFail` | `add_connection`: it takes the lock, closes the old pool, connects *with the lock held* and stores both entries, or raises |
| `RoLookup`, `RoConfig` | `_ensure_ro_connection`: `get_pool` and `get_config`, two locked reads, before the `add_connection` |
| `GetPool`, `GetConn`, `Run`, `Commit`, `Rollback`, `PutConn` | `DBPool.execute`, step by step, without the lock after `get_pool`; `finally: putconn` is part of both paths |
| `ServerDrop` | the database closes a pool's connections; psycopg2 notices when it uses one |

psycopg2's pool and the database are external: `CloseAll` closes idle and lent connections alike, `getconn` hands out the
idle connection or makes a new one below `maxconn`, `putconn` on a closed pool raises and drops a connection that is known
to be closed. `minconn` is 1, so at most one connection is idle.

`SqlPoolHistory` adds `overlapped`: the aliases whose read-only pool was built while a `connect_db` or `disconnect_db` of
the alias was under way.

### 3.2 Properties

| property | why it could fail |
|---|---|
| `IndInv` | its parts `RegistryConsistent` (a constructor that raises between closing the old pool and storing the new one) and `OpenPoolsRegistered` (two workers building the same read-only pool; a replaced pool left open), and the lock, which an exception must not leave taken |
| `ConnectionsAccounted` | an exception between `getconn` and `putconn`, a pool closed under its users, exhaustion |
| `ReplyMatchesEffect` | `putconn` raises after a commit; a rollback that swallows the error |
| `RolesSeparated` | a failed read-only connect that falls back; the suffix rules |
| `RoFollowsPrimary` | a configuration read before a `connect_db`, used after it |
| `ImplementsRegistry` | an entry reconfigured while it serves |

`ConnectionRegistry` is the abstract specification: a table of entries that are retired before they are reconfigured.
`SqlPool` implements it under the mapping `Registry`, which hides threads, lock and pool objects.

### 3.3 Runs and bounds

| run | instance | shows |
|---|---|---|
| `sql_pool` | 2 workers, one alias and its twin, 2 databases, 4 pool identities, `maxconn` 1 | the safety properties, the facts that make them inductive, and the refinement |

Two workers are enough for every interleaving of two calls, and each property relates at most two calls and one alias;
the theorems cover any number. With `maxconn` 1 two workers are also enough to exhaust a pool, so that `getconn` raises at
the limit. The number of pool identities never stops an `add_connection`: an object that neither a dictionary nor a worker
refers to is used again, and with *w* workers at most *w* objects are held and one is registered per alias, so four leave
one free. Clients that name the read-only alias itself (`connect_db("inv__ro")`) appear in no run: the theorems cover
them. Workers and pool identities are interchangeable, hence the symmetry. No counter grows, so there is no other bound.

No liveness run: a worker waits only for the lock, which its holder keeps for one connect of at most
`connect_timeout=10` seconds. That no failure leaves it taken is a part of `IndInv`.

### 3.4 Proofs

`SqlPoolProofs` proves, for any sets of workers, aliases, targets and pool identities, and
any `MaxConn`, under `AliasAssumption` (the suffix function is injective and never the identity), `ValueAssumption` and
`NoneAssumption`:

- `TypeCorrect`: `TypeOK /\ StageOK`. `StageOK` ties `pc` to the lock and the local variables: only the worker that is
  connecting holds the lock, and one that executes has a pool object.
- `Invariance`: `IndInv`. `RegistryConsistent` alone is not inductive: `AddOk` overwrites an entry, which would lose an
  open pool unless the one it replaces is closed; `ReplacedIsClosed` says that it is, and holds because only the
  holder of the lock can open a pool. `RolesOK` follows the role from the configuration into the pool object a worker
  still holds after its alias was re-registered. `EffectOK` says that nothing is applied before the commit.
- `RegistrySafe`, `RepliesSafe`, `RolesSafe` and `RoutingSafe` are the properties; `RegistryRefinement` is the refinement
  (`ImplementsRegistry`).
- `RoutingSafe` needs `HInv`: without an overlap, a worker that builds a read-only pool still holds the configuration that
  is registered.
- `ConnectionsSafe` (`ConnectionsAccounted`) counts, pool by pool (`AccountedAt`): the connections lent are those of
  exactly the workers between `getconn` and `putconn` on that pool, a finite set, and with the idle one they are at most
  `MaxConn`. `AccountStays` covers the steps that leave a pool's account alone; `GetConnAccounts` and its like for the
  others add or remove one element of a finite set.

### 3.5 Abstractions

- The read filters (`db.py:91-121`) are a free choice to refuse: no property depends on which texts they accept.
- A `Targets` member stands for host, port and database; credentials are reduced to the role.
- `list_connections`, `list_tables` and the other readers change nothing.
- A client may name an alias that ends with the suffix; `connect_db("x__ro")` then drops no `x__ro__ro`. `RolesSeparated`
  and `RoFollowsPrimary` except such aliases, because the client has then configured them itself.
- `main()` logs "DB_DATABASE or DB_USERNAME not set — skipping auto-connect" (`server.py:707`) and then calls
  `connect_db` all the same (line 709), with an empty alias, database and user. The model therefore starts with that
  `connect_db` whatever the environment holds; with nothing set, `DefaultAlias` is the empty name.

## 4. The host registry of the libvirt server: `LibvirtPool`

### 4.1 Correspondence

| model | code |
|---|---|
| `lock`, `configs`, `conns` | `LibvirtConnectionPool._lock`, `_configs`, `_connections` |
| `heap` | the `virConnect` objects: the host and the settings each was opened with. `None` is one that was closed, whose hypervisor is gone, or that does not exist yet: `getVersion()` raises on all of them |
| `pc`, `call`, `obj` | a worker, its tool call, and the connection `get_connection` returned to it |
| `rows`, `todo` | the rows `_bootstrap_remote_hosts` has still to register; the hosts `list_hosts` has still to look at |
| `Init` | import: `localhost` is registered and the bootstrap runs once, on whatever the database lists |
| `Register`, `Remove` | `register_host`, `remove_host`: one locked block each. `Entry` is the refusal to remove a local name |
| `List`, `NextHost` | `list_hosts`: the names are copied under the lock, then each host is connected to; one that fails is reported and skipped. Any subset of the names that keeps `localhost` may be looked at, which stands for the skipping of names of one machine |
| `Get` | the first part of `get_connection`'s `with` block: a local name is registered on the spot; for an unknown remote host the lock is **released inside the block** |
| `Fetch`, `Boot` | the bootstrap: any subset of the inventory is returned (an unreachable database returns none, and rows come and go), and each row is registered in a locked step of its own |
| `Reget` | the lock is taken again; a host that is still unknown raises |
| `Reuse`, `Connect`, `ConnectFails` | the rest of the block, **with the lock held**: a cached connection that answers `getVersion()` is returned, a dead one is dropped, a new one is opened, or `_connect` raises |
| `Use` | what the tool does with the connection, without the lock, as one step |
| `HostLost` | a hypervisor goes away, with every connection to it |

Local names always connect to `qemu:///system`, so the settings of one are never read; `Submit` gives them one value.

### 4.2 Properties

| property | why it could fail |
|---|---|
| `OneConnection` | every live connection is the one cached for its host. Two workers that find no connection, a re-registration that forgets the old one, or a removal under a worker on its way would leak a connection or make a second |
| `IndInv` | its part `CachedIsRegistered`: `get_connection` looks at the configuration, gives the lock away for the bootstrap, and looks again; a `remove_host` in between must not leave a connection behind |
| `CallsDrain` | the bootstrap calls `register_host`, which takes the non-reentrant lock that `get_connection` had: holding on to it stops the server for good |
| `ImplementsRegistry` | the registry connects a host with its *present* configuration and never one it does not know, although configuration and connection are read in two blocks |

`CachedConnections` is the abstract specification: a configuration and at most one connection per host. Registering a host
again keeps its connection (`KeepsConnection`), as `register_host` of this server does; the registries of the AD and WinRM
servers drop it: `DomainPools` (section 11) implements the same specification without `KeepsConnection`. What follows from
`KeepsConnection` is visible to users: `add_host` with other settings tests the connection made with the old ones and
answers `registered_and_connected` with a user name that was never tried (`tools/hosts.py:23-26`).

### 4.3 Run and bounds

`libvirt_pool`: 2 workers, `localhost` and one hypervisor that the inventory may list, 2 settings, 4 connection
identities, fair: 1 180 885 states. It checks the safety properties, the refinement and `CallsDrain`, and therefore uses no
symmetry. Hosts interact only through the bootstrap, which registers one host on behalf of a call for another; here the
same step happens between two calls for the hypervisor, since the rows are any subset of the inventory. Two settings tell
the database's from the caller's. Connection identities are used again once unreferenced: two hosts cache two and two
workers use two more.

Fairness: weak fairness of each worker's steps. `psycopg2.connect` has `connect_timeout=5`, ssh gives up on a dead peer in
the end, and a lock is held for finitely many steps. Clients owe nothing: `CallsDrain` says only that once calls stop
arriving, every call ends. `threading.Lock` promises no fairness among waiters; weak fairness suffices because the
finitely many calls in flight each take the lock finitely often.

### 4.4 Proofs

`HostProofs` (first part), for any workers, hosts, settings and connection objects, under `HostAssumption` and
`NoneAssumption`:

- `Invariance`: `IndInv`. `OneConnection` is not inductive alone: `Connect` overwrites the cached entry, which would
  orphan a live connection unless the entry is known to be dead (the guard) and to belong to *this* host (`CacheOK`); and
  `CachedIsRegistered` needs `StageOK`, by which the worker that connects holds the lock for a host that is registered.
- `ConnectionsSafe`: `OneConnection` and `CachedIsRegistered`. `RegistryRefinement`: the refinement
  (`ImplementsRegistry`).

`CallsDrain` is model-checked only.

## 5. Virtual machines: `VmLifecycle` and `VmHistory`

### 5.1 Correspondence

`VmLifecycle` is one VM name on one host and the ten tools that change it. A tool is a series of library calls on a
domain object; each call is one action, and anything may happen between two.

| model | code |
|---|---|
| `dom`, `disk`, `snap`, `image` | external: the libvirt domain of the name (its state, whether it is persistent, whether it has UEFI variables), its disk file, its snapshot (the state it was taken in), the golden image |
| `imaging` | external: the `qemu-img` that has the disk open |
| `pc`, `call`, `obj` | a worker, its tool and the boolean arguments, its `virDomain` object (a UUID) |
| `was`, `tries` | `was_running` and the loop counter of `create_golden_image` |
| `Install` | `create_vm`: one `virt-install` process, which may fail after making the disk, or time out after making the VM |
| `Lookup`, `ReadState`, `Decide` | `lookupByName`; `domain.state()` and the `if` after it |
| `Start`, `Shutdown`, `Reboot`, `Destroy`, `Undefine`, `SnapshotCreate`, `SnapshotDrop`, `Revert` | one library call each; the next label says which tool goes on, and with what |
| `DeleteVolume` | the second half of `delete_vm`: `storageVolLookupByPath` and `delete`; a failure of either is swallowed |
| `LooksActive`, `Wait`, `ConvertBegin`, `ConvertEnd` | `create_golden_image`: `isActive`, the loop of sixty looks, `qemu-img convert` |
| `Raises` | any library call that raises: the tool ends where it is |
| `GuestOff`, `Pause` | the guest shuts down, or QEMU stops it on an I/O error |

What is assumed of libvirt and QEMU: a domain object names a VM by UUID, so objects of a deleted VM are refused after a
`create_vm` of the same name; a running VM and a `qemu-img` exclude one another by QEMU's image locks; a VM with UEFI
variables is not undefined without a flag; a VM undefined while active goes on as a transient one until it stops;
`revertToSnapshot` restores the state the snapshot was taken in. Everything else that makes a call fail (managed save
images, overlay snapshots, full disks) is the constant `Faults`. A `qemu-img` on a remote host that outlives its killed
ssh is not modelled.

Two history variables in `VmHistory`, which no action reads: `alone` (calls that nobody has disturbed: only their own
worker has changed the host, and the guest has done at most what it was asked) and `raced` (the present VM was made
between the two halves of a `delete_vm`).

### 5.2 Properties

| property | why it could fail |
|---|---|
| `VmHasDisk` | `delete_vm` destroys, undefines and deletes in separate calls, each of which may be refused; a `create_vm` may take the name in between. The one case in which a defined VM does lose its disk is that one, and it is named in the property (`raced`) |
| `DiskOutlivesVm` | a step that deletes the disk while its VM is still defined, whoever else is at work |
| `AnswersHold` | a state read once and acted on in later calls: each undisturbed positive answer must be true of the host (`Claim` says what each answer claims) |

`Claim` of `delete_vm` is deliberately weak (the VM is gone, or active and no longer persistent): the stronger one
fails for a paused VM (section 5.5). `stop_vm` claims nothing, as it only asks.

### 5.3 Run and bounds

`vm_lifecycle`: 2 workers, 2 UUIDs, 2 looks for the shutdown, with faults.

Two UUIDs are enough for two workers: only a worker in the middle of a call keeps the UUID of a deleted VM, and a
`create_vm`, which keeps none, makes the next, so one identity is always free. `Tries` is 60 in the code; two
looks tell the first from the last. There is no liveness run: workers never wait for one another here, every library call
returns, with a refusal if need be, and the one loop is bounded by `tries` (`StageOK`).

### 5.4 Proofs

`VmProofs`, for any number of workers, UUIDs and looks, under `ParameterAssumption` and `NoneAssumption`:

- `TypeCorrect` and `Invariance`: `tries` stays within its bound only because a worker in `wait` has a look left
  (`StageOK`); and a worker at `vol` has an object of a VM that is no longer defined. The latter survives a
  `create_vm` in between because the new VM's UUID is fresh, and a `revert` because reverting does not define.
- `DiskSafe` (`DiskOutlivesVm`) follows from it as an action property.
- `DiskPresent` (`VmHasDisk`): the strengthening `HInv` says that when a disk is about to be deleted, a defined VM is one
  that was made since the undefine, which is what `raced` remembers.
- `Answers` (`AnswersHold`): `AnswerInv` adds where a call can be given its tool (`RouteOK`), and what an undisturbed call
  has done so far (`SoFar`): the VM it has undefined is gone or transient, the image it has converted is there, and a
  revert goes on to start the VM only when its caller asked for it.

### 5.5 Also observed

`delete_vm` destroys a VM only when it is running (`lifecycle.py:228`): a paused one is undefined, loses its disk and goes
on as a transient VM, with the answer "deleted".

`revert_snapshot` starts the VM if it ran before (`snapshots.py:75`), although reverting to a snapshot of a running VM has
started it: the tool has reverted and raises.

`delete_vm` passes no NVRAM flag to `undefineFlags` (`lifecycle.py:230`), without which libvirt refuses a VM that has UEFI
variables, as every VM of `create_vm(uefi=True)` has: such a VM is destroyed and the call fails, every time.

`create_golden_image` raises when `qemu-img` fails or times out (`storage.py:191-193`), before the `create()` of line 200:
the VM that it has shut down for the conversion stays off.

## 6. The directory: `DirectoryTools` and `DirectoryHistory`

### 6.1 Correspondence

`LDAPPool.get_connection` hands every worker the same ldap3 connection of a domain controller. A search leaves its entries
in it, every operation its result; the tools read both in a later step, without a lock.

| model | code |
|---|---|
| `dir` | external: the accounts (computers included) with two bits of `userAccountControl`, or `None` |
| `entries`, `result` | `conn.entries[0]`: the object, whether the search asked for its `distinguishedName`, the flags if it asked for them; `conn.result["result"] == 0` |
| `pc`, `call` | a worker, and the tool with its user and its `enabled` argument |
| `dn`, `member`, `uac` | the local variables `dn` or `group_dn`, `member_dn` and `uac` |
| `Find`, `FindMember` | `conn.search` of the tool, and the second one of `add_group_member` |
| `NothingFound`, `NotInEntry` | `if not conn.entries`; an attribute the entry does not have raises |
| `ReadUser`, `ReadName`, `ReadGroup`, `ReadMember`, `ReadLocked`, `ReadEnabled` | what each tool takes from `conn.entries[0]` |
| `WriteFlags`, `UpdateUser`, `NoChanges`, `ChangeMember`, `DeleteObject` | `conn.modify` and `conn.delete` |
| `Result` | `ok = conn.result["result"] == 0` |
| `CreateUser` | `New-ADUser`, one PowerShell command over a WinRM session of its own; the `Write-Output 'ok'` after it succeeds whatever it did |
| `Raises` | `get_connection` or an operation raises; a write may also raise after it was performed |
| `LockedOut` | failed logons set the lockout bit |

`get_user` stands for every tool that searches and answers from the entries (`search_users`, `get_group`, `get_ou`,
`get_computer`, ...), `add_group_member` for `remove_group_member`. Not modelled: `create_group`, `create_ou`, `move_object`
(one operation, whose effect no other tool depends on; what they do to `entries` and `result`, `delete_object` does, too)
and `reset_password`. The paged search of `list_users` is in `DomainPools` (section 11).

Assumed of ldap3: operations of one connection run one at a time, and whether a write keeps the entries of the last search
is left open (`entries' \in {entries, None}`). A worker that still has a connection the pool has replaced reads its own
entries or raises, which is less mixing, not more. The bit that `unlock_user` clears is taken at the code's word: that a
domain controller ignores it (the lockout is kept in `lockoutTime`) is not in the model.

Two history variables in `DirectoryHistory`, which no action reads: `mixed` (another worker's operation came between a
tool's operation and its look at what that left) and `changed` (the accounts that others have changed since a tool
searched, as far as they matter to it: `Watched`).

### 6.2 Properties

| property | why it could fail |
|---|---|
| `WritesNamed` | the DN of a write comes from an entry that may be another search's, or an older one |
| `FlagsKept` | `userAccountControl` is replaced as a whole, by a value computed from an entry: the other flag must survive, whatever other workers searched for. `unlock_user`, which takes DN and flags from one entry, keeps it even when that entry is not its own; `set_object_enabled`, which does not, is only safe without a mix-up |
| `AnswersHold` | the answer is computed from `conn.result`; an undisturbed positive one must be true of the directory. `create_user`, whose `ok` comes from a later statement, claims nothing |

Each names the condition under which it holds; that the condition can be broken, and what happens then, is the run
`ad_unlock`.

### 6.3 Runs and bounds

| run | instance | shows |
|---|---|---|
| `ad_tools` | 2 workers, 2 accounts, 1 group | the three properties and what makes them inductive |
| `ad_unlock` | the same, without the history | `unlock_user` unlocks an account that another worker searched for (section 12) |

A mix-up takes two workers, and two accounts tell the right one from the wrong one. There is no bound on anything else.
Workers and accounts are interchangeable in `ad_tools`. Its `VIEW` takes the entries and the result on the connection for
equal when no worker is going to look at them: the next operation replaces both. No liveness run: no worker waits for
another, and every operation has a timeout.

### 6.4 Proofs

`DirectoryProofs`, for any workers and accounts, under `NoneAssumption`:

- `Invariance`: `IndInv`, the types and `Stage`: a worker is where its tool leads and writes only what it has read.
- `HistoryInvariance`: `HInv`. `WritesNamed` is not inductive: it needs what the connection holds for a worker that has
  searched and not looked yet (`OwnEntry`), and what the group tool has kept since its first search (`OwnGroup`). Only a
  search changes the entries (`EntriesStep`), and a search of another worker is what `mixed` remembers.
- `NamedWrites` (`WritesNamed`), and `KeptFlags` (`FlagsKept`, an action property): the flags in the connection are those of
  the account since the search (`FreshEntry`), and so are those a tool is going to write back (`FreshFlags`).
- `Answers` (`AnswersHold`): `AnswerInv` says that between an operation and the look at `conn.result` the claim already
  holds if the result is a success, no other worker's operation has come between and nobody has changed the account.

Model-checked only: the violation.

### 6.5 Also observed

`create_user` ("Create a new AD user account (enabled with password set).", `server.py:164`) answers `ok` when `New-ADUser`
has failed (`users.py:196-206`): the name is taken, the OU is wrong or the password is refused, the error does not end the
script, and the exit status is that of `Write-Output 'ok'`. `reset_password` has the same shape (`users.py:212`).

## 7. Tools of a few commands: `CommandTables`, `CommandTools` and `CommandHistory`

### 7.1 Correspondence

Some 110 tools issue one to three commands: over ssh or a local shell (libvirt host OS, bash), as PowerShell over WinRM
(WinRM, AD DNS, DHCP, GPO), or as calls of libvirt (volumes, networks, consoles).

| model | code |
|---|---|
| `CommandTables` | one table for each file of tools: for each tool, the scripts that its options choose from (`flush_existing`, `update_first`, ...). A script is the sequence of its statements, each with its effect (`op`) on a facet of the machine, and what the tool does when it fails (`fail`) |
| `Servers`, `area` | the dispatch tables; the file that the calls of a run come from. Tools of different files share no facet, or only read it |
| `script`, `at`, `value`, `good` | a worker's call: the script it runs, the statement it is at, what it asks for, and whether no judged statement has failed |
| `target` | external: the values that are there, of each facet |
| `Works`, `Fails`, `Lost` | a statement takes effect; is refused; the connection or the time is lost |
| `Parent` | external: what a facet goes away with; Linux drops the routes through an interface with its last address, and `ip addr flush` removes the last |
| `late`, `Late` | ssh, `subprocess` and WinRM kill the client, not what it has started: the command goes on, and ends later, after the tool has answered |
| `TimeoutIsResult` | `_run` of the bash files that answers a time-out as a failed command; everywhere else the exception ends the tool |
| `Deals` | `must`, `judge`, `half`, `try`: the `if` after the command, or its absence |

How a script ends is PowerShell's rule, not the tool's: a failed cmdlet ends a script only under `-ErrorAction Stop`, and
the exit status is that of the last statement or of the terminating error. A listing inside `@(...) | ConvertTo-Json`
therefore never fails, and a later `Write-Output` hides the failure before it.

### 7.2 Properties

| property | why it could fail |
|---|---|
| `AnswersHold` | an answer is computed from the last statement's status; `ok` must be true of *every* statement the tool answers for, and `partial` must mean that the user is there without its password |
| `ErrorsChangeNothing` | a tool of several statements that fails in the middle: an `error` may have cleared a setting or made a preparation (`Prepared` lists them), and nothing else |
| `SettingsSurvive` | `set_host_ip` and `set_default_gateway` clear the old setting before they make the new one, and their calls interleave. As long as all of them answer `ok`, no host that had an address ends without one, and none without a route that it has had since the last flush |

`Unchecked` names the statements whose failure an `ok` hides: the link after `set_host_ip`, the package index, the record
of `add_dns_record`, the GPO backup folder, the group of `add_local_user`, and the name and the power state of a Windows
host (`reboot`, `shutdown` and `set_hostname` answer "initiated" whatever comes of it).

### 7.3 Run and bounds

`commands`: 2 workers, 2 values, every file of every server, one at a time. One command is late at a time. Two values tell
the caller's from another's; the longest script has three statements, so two workers meet every pair of them. The
`VIEW` drops the history of calls that are not judged. No liveness: nobody waits for anybody.

### 7.4 Proofs

`HostProofs` (second part), for any workers and values and any set of the servers' files, under `CommandAssumption` (a
member of `Areas` is a server with one of its files):

- *The tables.* The proofs use no more of a script than `ScriptOK`: a failure that nobody looks at is of a statement that
  the answer does not promise, or that a later one makes good; `half` comes second, after the user was made; before a
  statement that must succeed, and in a script that judges at the end, nothing changes but what is `Prepared`; nothing is
  cleared that owns what was set before; and what `host_network` clears, a later statement restores or tells of.
  `ScriptsOK` proves it of every script of all 26 tables: `SingleOK`, `PairOK` and `TripleOK` reduce it to the
  statements of a script of one, two or three, which are then looked at table by table. A tool added to a table must
  keep `ScriptOK`, or the proof of its table fails.
- *The machine.* `Effect` says what a statement that is not refused has changed (`Affects`) and left as it was. It needs
  that the machine keeps no orphans (`MachineOK`): what belongs to a facet that is gone is gone.
- `CommandsSafe` (`CommandInv`), the inductive invariant: of an undisturbed call that has not failed, every promised
  statement that it is past is in effect (`KeptSoFar`); only statements it is past have changed anything (`TouchedOK`); a
  call at a `half` has made the user (`HalfOK`); a failed one has changed only what is `Prepared` (`FailedOK`); and while
  every answer is "ok", a setting that was there is there, or a call at work will restore it or answer an error
  (`SettingsOK`). What was there is `had` (`HadStep`): a route no longer, once a flush has taken it along.
- `CommandAnswers`, `CommandErrors` and `CommandSettings` are the properties of the run. `SettingsSurvive` is about any
  number of calls: when one clears the setting, the restoring statement ahead of *it* is the witness, however many others
  have cleared or set it meanwhile.

### 7.5 Also observed

`set_host_ip` with its default `flush_existing` removes the interface's last address (`host_os.py:199`), and Linux with it
the routes through the interface, the default route too. The tool adds the address again, not the route, and answers `ok`:
the host has lost its gateway until `set_default_gateway` is called.

`run_script` on a remote host ignores `cwd` (`bash_mcp/tools/exec.py:50`). `get_group` of the AD server answers a
`member_count` of at most one (`groups.py:86-95`).

## 8. The clone pipeline: `ClonePipeline` and `CloneHistory`

### 8.1 Correspondence

| model | code |
|---|---|
| `image`, `disk`, `vm`, `running` | external: the golden image at each place (host and directory), the disk files, the domains and whether they run. `part` is a file that is being written or was cut short, `bad` a disk made from such an image |
| `writers`, `converts` | external: the scp and `qemu-img` processes. A conversion that lost its ssh client is nobody's, and goes on |
| `creds` | the row of `vm_credentials` of the template's user |
| `pc`, `job` | a worker, its tool and arguments; for `clone_to_all_hosts` the hosts and VMs it has still to do |
| `Rsync`, `Scp`, `ScpEnds`, `TransferFails` | `clone_image_to_host`: rsync, and scp when that fails |
| `Convert`, `ConvertEnds`, `ConvertFails`, `ConvertLost` | the `qemu-img convert` of `clone_vm_remote` |
| `Remove`, `Install`, `Save`, `Cleanup`, `VirtClone` | the removal of the image, `virt-install`, `save_credentials`, the cleanup of a host, `virt-clone` |
| `Abort` | an exception: `clone_to_all_hosts` catches it and goes on with the next VM or host |

rsync writes a temporary file and renames it; scp truncates the file that is there and writes it again; QEMU's image locks
keep a conversion from a disk that a VM or another conversion has open. One golden image is modelled, intact on the server;
a clone whose target is the server itself, at the image's own path, would remove it, and is assumed not to be asked for.
The resize of the new disk is not in the model, but for its time-out, which raises.

### 8.2 Properties

| property | why it could fail |
|---|---|
| `VmHasDisk` | a conversion that failed, timed out or still goes on when the VM is defined. The exception, named in the property, is another call for the same VM name |
| `BadFromScp` | a clone in progress whose image is replaced, removed or written again by another transfer: only scp tears it |
| `InputsReady` | an undisturbed batch whose earlier VM failed, or removed the image that the next one needs |
| `AnswersHold` | the VM of an answer exists, a transferred image is whole; saved credentials are those of a VM that was made |
| `PipelineInv` | two conversions of one disk, or one of a running VM's |

### 8.3 Run and bounds

`clone`: 2 workers, one host and directory, 2 VM names, of which single clones give one and a batch both; one conversion
without a client at a time (`MaxOrphans`). Hosts share nothing but the list `clone_to_all_hosts` walks, and the path by
which they go wrong is the directory, which `clone_batch` varies. The `VIEW` forgets what a finished call was asked, the
history of calls that are not judged, and whose credentials were saved once that VM is there. No liveness: a worker waits
only for its own commands, and the two loops are over finite lists.

### 8.4 Proofs

`CloneProofs`, for any workers, hosts, directories and VM names and any `MaxOrphans`, under `CloneAssumption` (there
is a host and a name, so that a call can be made):

- `PipelineSafe` (`PipelineInv`): a disk has one conversion at a time (`OneConversion`), of the worker that waits for it
  or of nobody, and no VM runs on it (`ConversionOK`, `WaitsAt`); only an scp that runs writes into an image, which is
  then incomplete (`WriterOK`). It is inductive as it stands: `Convert` refuses a disk that is open, and the end of a
  conversion, of an scp and of their workers is one step.
- `Invariance` (`HInv`), for the properties that the history judges. `RouteAt` says where a tool leads; `DiskReadyAt`
  that a worker which removes the image or defines the VM has its disk, unless another call took it (`taken`);
  `TornFromScp` that an image cut short, and a conversion misled by one, are scp's; and `FindsAt` what a call that nobody
  disturbs has done so far: it alone writes into images, its image is whole until it removes it, its disk is whole
  before it defines the VM. A batch goes from VM to VM and from host to host, which is why `FindsAt` speaks of the
  place the worker is at (`Here`), not of the one it began with.
- `DisksComplete`, `OnlyScpSpoils`, `InputsFound` and `Answers` are `VmHasDisk`, `BadFromScp`, `InputsReady` and
  `AnswersHold`.

Model-checked only: the violation `clone_batch`.

### 8.5 Also observed

The tool table calls the clones thin overlays; `qemu-img convert` makes full copies. The credentials are keyed by user
name, so that a later clone from the template replaces the row of the earlier one.

## 9. The inventory: `SqlInventory` and `InventoryHistory`

### 9.1 Correspondence

| model | code |
|---|---|
| `tables`, `rows`, `lastId` | external: the tables and the serial ids. A row has its name, its host, and whether an update has changed any other column |
| `loose` | tables that `init_schema` found instead of making them: they need not have a unique name |
| `Resolve`, `Find` | `_resolve_host_id` and the lookup of a unique VM or user id, each in a transaction of its own |
| `Insert`, `ChangeByName`, `ChangeById`, `Get`, `VmsOf`, `Read`, `Select`, `Summary` | the statements of the tools, each in a transaction of its own (`DBPool.execute` commits it) |
| `Committed` | the connection may break between the commit and its answer: the call raises, and the row is there |
| `Backup`, `InitSchema` | `pg_dump`; the one transaction of `schema.py` |

PostgreSQL's constraints, which the tools rely on, are `Insert`'s guards and `Changed`'s second case (`ON DELETE SET NULL`).

### 9.2 Properties

| property | why it could fail |
|---|---|
| `AnswersTellWrites` | the row that was looked up is gone, or no longer of that name, when the next transaction changes it. Whatever the others do: `ok` has written rows of the name that was given, an `error` none |
| `LinksNamed` | a VM is put on a host by an id looked up earlier: only the host the call names |
| `AnswersHold` | several rows of one name; four counts in four transactions. Judged of undisturbed calls |
| `IndInv` | dangling links, double names; an id a worker keeps is never that of another name's row (ids are not used again) |

### 9.3 Run and bounds

`sql_inventory`: 2 workers, two host names and one of everything else, two rows inserted in all (`MaxId`), from an empty
database and from one whose names are not unique. Two rows are what ambiguity needs, and two workers what a lost lookup
needs. The `VIEW` keeps of a call what it still needs or is judged by. No liveness: every statement ends.

### 9.4 Proofs

`InventoryProofs`, for any set of workers, any names and any `MaxId`, under `InventoryAssumption`:

- `Invariance`: `IndInv`. A change makes each row of a table into one row of the same id and name (`ChangedFact`,
  `AfterFact`), or drops it, and a new row has an id above `lastId`. So (`Grown`) a row that has an id some call looked up
  is still the row it named, which is `LookupsOK`; and `RowsOK` is kept, for what PostgreSQL checks (`LinkHolds`, the guard
  on the name) is checked in the transaction that writes. `StageOK` says which statement a tool is at, `FoundOK` what an
  undisturbed call has found or counted.
- `WritesTold`, `LinksAsNamed` and `AnswersTrue` are the properties of the run. `LinksAsNamed` is the one about two
  transactions: the id of the host was looked up in an earlier one, and ids are never used again.

### 9.5 Also observed

The user tools read and write `ad_users` (`users.py:18`), a table `init_schema` never makes: it makes `users`
(`schema.py:21`), which no tool reads. After `init_schema` on an empty database every user tool raises. `get_summary` and
`get_host` of a busy database mix states.

## 10. The WinRM server: `WinRMSessions`, `WinRMFiles` and `WinRMHistory`

### 10.1 Correspondence

| model | code |
|---|---|
| `configs`, `sessions` | `WinRMConnectionPool._configs`, `_sessions` |
| `heap`, `mine` | `winrm.Session` objects: the settings they were made with and the timeout set in them; the one a worker has been given |
| `Register`, `Remove`, `GetSession` | one locked block each, hence one action |
| `SetTimeout`, `Run`, `Forget` | `run_ps` and `run_cmd`: they set the timeout in the shared session, run the command, and pop the session *registered now* if it raises |
| `Names`, `Visit` | `list_hosts` and `add_host` go from host to host |
| `remote`, `staged` | the file on the host and in the staging directory: sequences of chunks |
| `Open`, `FileRun`, `FileRefused`, `FileRaises`, `Stage`, `Write` | the file tools: one command for each chunk |
| `ChunkDropped` | `Write` throws and `Close`, the last statement, succeeds: the command succeeds without its chunk |
| `late`, `LateRun` | a command whose answer was lost is run later |

`read_timeout_sec`, which is set next to the operation timeout, has no effect on a session that exists: pywinrm hands it to
its transport when the session is made. The 8191 characters of a Windows command line are one of the reasons why a
command may be refused.

### 10.2 Properties

| property | why it could fail |
|---|---|
| `CommandsCurrent` | a session outlives the call that made it; `add_host` gives the host other settings while commands are under way, and another worker's timeout is set in the same session. Settings hold whatever the others do; the timeout of undisturbed calls only |
| `UploadsArePrefixes` | a chunk twice, out of order or after a failure. At any moment of an undisturbed upload the file is a prefix |
| `AnswersHold` | an upload that went on after a refused chunk; a re-registered host with its old settings |
| `IndInv` | a removed host's session must not stay; a worker's session must keep its settings although its host has another by now; an upload at work must have a chunk to send, and an undisturbed one must have written what it sent |

`dropped` marks the uploads to which `ChunkDropped` has happened: they answer `ok` and lack a chunk (`files.py:59`).

### 10.3 Run and bounds

`winrm`: 2 workers, one host, 2 settings, 2 timeouts, files of at most two chunks on a disk of three, one late command
(`MaxLate`). A second host shares nothing with the first but the lock. Two chunks tell the first, which replaces, from the
next, which appends; the third place shows a chunk that is there twice. The `VIEW` drops the timeout of a session but for
those about to run in it, and which of the tools that do the same a worker runs. No liveness: the lock is held for a
dictionary access.

### 10.4 Proofs

`WinRMProofs`, for any finite sets of workers and hosts, any settings, timeouts, files and staging paths, a disk of any size
and any `MaxLate`, under `SessionsAssumption` and `FilesAssumption`:

- `Invariance`: `IndInv`. `SessionsOK` (a host's session was made with the settings it has now) gives the command its
  settings when it asks for a session; `HeapStep` (no step changes the settings of a session in anybody's hands) and
  `StageOK` carry them to the command. `DoneBy` says what an undisturbed call has done so far: the session in its hands is
  its host's, the hosts `add_host` has been through have the new settings, and the file of an upload at chunk `n` is its
  first `n - 1` chunks (`ChunkFact`: one more when the next one works).
- `CurrentCommands`, `PrefixUploads` and `TrueAnswers` are the properties of the run.

The proofs hold with any number of hosts in one `add_host` or `list_hosts`, and for files of any length; the run has one
host and two chunks.

### 10.5 Also observed

`list_hosts` answers "connected" of a host that refused its command. An upload of an empty file raises `IndexError`. Two
uploads to one path mix their chunks and both answer `ok`.

## 11. The registries of the AD server: `DomainPools` and `DomainHistory`

### 11.1 Correspondence

| model | code |
|---|---|
| `lock`, `ldap`, `cached` | `LDAPPool._lock`, and `_configs` and `_connections` of one domain controller |
| `heap`, `conn` | the ldap3 connections: settings, bound or not, and the page of users its last search left in it; the one a worker has been given |
| `winrm` | `WinRMPool._configs` of the controller |
| `LdapAdd`, `WinRMAdd`, `LdapRemove`, `WinRMRemove` | `add_dc` and `remove_dc` change the two registries one after the other |
| `Config`, `Get`, `Bind`, `BindFails` | `get_config`; `get_connection`, which binds *with the lock held* |
| `Use`, `UseFails`, `UseRefused` | an operation that works, that raises, and that the controller refuses. ldap3 runs without `raise_exceptions`: a refusal is a result code, no entries and no cookie |
| `SearchPage`, `ReadEntries`, `ReadCookie` | the search, the entries and the cookie of one page of `list_users`, which does not look at the result code |
| `Command` | `run_ps`, with a session of its own |
| `Dies` | the controller or the network drops a connection |

Domain controllers share only the locks, so one is modelled. `WinRMPool`'s lock guards single dictionary accesses and is
part of its actions. `LDAPPool.add_dc` forgets the old connection without unbinding it.

### 11.2 Properties

| property | why it could fail |
|---|---|
| `RegistriesAgree` | an `add_dc` and a `remove_dc` that cross: that is the one exception (`crossed`), after which the controller is in one registry only |
| `OpsCurrent` | a connection of long ago, a registry that changes between the settings and the connection: whatever the others do, a call uses settings the controller has had since it began |
| `AnswersHold` | what `add_dc` or `remove_dc` answers is so; of the pages of an undisturbed list none is left out, except from a page on that the controller has refused (`Lists`) |
| `CallsDrain` | a bind that raises with the lock held; pages whose cookies are another worker's (two lists mix up and may skip or repeat users, but both come to an end) |
| `ImplementsRegistry` | `LDAPPool` implements `CachedConnections`: a connection made with other settings than the present ones, or one that `remove_dc` or `add_dc` leaves behind |
| `IndInv` | its part `PoolsInv`: the lock is held for a bind and for nothing else, and what the registry or a worker holds exists |

### 11.3 Run and bounds

`ad_pools`: 2 workers, 2 settings, 2 pages, one tool of each kind (`Tools`), fair: 991 386 states. Two pages have a first,
a last and a cookie in between. `HFairSpec` is weak fairness of each worker's steps (`HStep`): the pools give ldap3 a
`connect_timeout` and a `receive_timeout` and pywinrm its own, and the lock is free again after each bind. `Submit` is no
such step: no client has to call, and the premise of `CallsDrain` is met by every behaviour in which they stop.

### 11.4 Proofs

`DomainProofs`, for any finite set of workers, any settings, any number of pages and any of the tools, under
`PoolsAssumption` and `NoneAssumption`:

- `PoolsSafe`: types, `StageOK` and `CacheOK`. The heart is `HeapStep`: whatever a step does, an object that a worker or the
  registry goes on holding is there afterwards, with the settings it had.
- `RegistryRefinement` (`ImplementsRegistry`) follows from it.
- `Invariance`: `IndInv`. `OpsCurrent` needs `KnownOK`, which follows a connection from the search for it to its last use;
  `RegistriesAgree` needs `BetweenOK` (unless they crossed, one change is under way, and its first half stands);
  `AnswersHold` needs `DoneBy`, which says what an undisturbed call has done so far, for `list_users` which pages it
  has, and whether the controller has refused the last
  (`PagesFact`).
- `AgreeingRegistries`, `CurrentOps`, `TrueAnswers` are the properties. `CallsDrain` is model-checked only.

### 11.5 Also observed

`list_users` and `search_users` answer a page that the controller refuses (a limit, access rights, a lost cookie) with the
pages before it, as if they were all (`users.py:93-104`, `users.py:290-301`): neither looks at `conn.result["result"]`, and
without a cookie the loop ends.

## 12. Findings

Each is a run that TLC refutes; `PROJECT.json` quotes the text it contradicts.

| run | what happens |
|---|---|
| `ad_unlock` | `unlock_user` takes another worker's entry from the shared connection and unlocks that account, with the answer "ok" for the one that was named |
| `dns_update` | `update_dns_record`, "atomic", loses the record when the new one is refused |
| `clone_batch` | `clone_to_all_hosts` with a golden image outside `/var/lib/libvirt/images` copies it to every host and finds it on none |

Also seen while modelling, each with its place, and excepted by name where a property would otherwise claim the opposite:

- Two queries build the read-only pool at once and the second connect fails: the closed pool stays registered, and no later
  query connects again, although the log says that each one retries (`sql_mcp/tools/db.py:138`).
- A query in flight registers the read-only alias again after `disconnect_db` has answered (`db.py:144`).
- A call for an unknown host runs the bootstrap, which replaces the settings `add_host` gave the others
  (`libvirt_mcp/core/connection.py:184`).
- What sections 5.5, 6.5, 7.5, 8.5, 9.5, 10.5 and 11.5 list.

## 13. Not modelled

`PROJECT.json` lists every component with its status.

- *bash file tools*: a path is resolved against the allowed roots and used in the next system calls. Nothing is kept
  between calls and nothing retried; what could be checked is the resolution of links component by component, which is
  the file system's data and not the program's control.
- *AD object tools* `create_group`, `create_ou`, `move_object` and `reset_password`: one operation or command each,
  whose effect no other tool reads.
- *Dispatch* is `Submit` and `Return` of each module; argument schemas and the formatting of answers are data.
- *Tests, CI, examples, packaging*: no behaviour of the servers.
