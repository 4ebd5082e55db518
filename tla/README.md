# lyndrix-core in TLA+

lyndrix-core is a Python platform whose instances form a cluster around one
MariaDB. This directory holds TLA+ models of the parts where instances, worker
threads and tasks interact, the TLC configurations that check them on small
instances, and the theorems TLAPS proves about them for all instances.

## The system

An instance is one process with one asyncio event loop. Code runs from one
`await` to the next without interruption; calls to the database run in worker
threads (`asyncio.to_thread`), so whatever the event loop does may happen between
a call and its answer, and cancelling the caller does not stop the thread.
Instances share the database and, in some deployments, the plugin directory.
There is no message broker and no protocol for electing a leader, only rows.

```
 operator / browser            providers (chat, mail)
      | REST, SSE                  | webhooks
 +----v----------------------------v-----------------------------+
 | instance: API -> services -> bus -> subscribers (plugins)     |
 |   LeaseKeeper  ClusterBridge  OperationTracker  PluginManager |
 |   MessagingGateway  CorrelationStore  ...                     |
 +----+----------------------------------------------------------+
      | worker threads
 cluster_leases, cluster_events, cluster_kv, cluster_instances,
 plugin_states, plugin_operations, pending_actions, ...
```

### Inventory

Paths are below `src/app/core/components/` unless they say otherwise. `PROJECT.json` lists the
components with their sources, and says for every definition which lines it models.

| component | state | operations | interacts with | hard behaviour | what makes it correct |
|---|---|---|---|---|---|
| lease keeper, lease table (`cluster/logic/leases.py`, `drivers/db.py`) | `_wanted`, `_held` and renewal times, rows of `cluster_leases` | want, forget, release_now, kick, tick, start, stop; try_acquire, release, force_release | cluster service, plugin contexts, event log (`lease_released`) | clocks, late answers, releases outside the keeper's lock, threads that outlive their task | a lease renewed recently has a live row; work runs exactly while the lease is held; somebody takes over |
| event log, bridge (`cluster/logic/bridge.py`, `drivers/db.py`, `core/bus.py`) | `cluster_events`, cursor, attached subscriptions | publish, poll, dispatch, prune, attach, detach | every service that emits a bridged topic | ids visible out of order, reactions on every instance, restarts, pruning | each event once, no replay, one action is not bridged N times |
| operations (`plugins/logic/operations.py`) | `plugin_operations`, `plugin_operation_instances` | start, report, sweep_timeouts | plugin manager of every instance, leader | overlapping transactions, retried ones, instances that leave | announced once, the outcome agrees with the rows, every operation ends |
| messaging (`messaging/logic`) | pending actions in memory and table, retry queues, registered adapters | dispatch, create, resolve, init_db, expire_stale, register, retry worker | providers, plugins (resume topic) | two clicks on two instances, lost answers, caches, full queues | an action is handled once, no click is lost without a reason, every message ends |
| plugin manager, plugin service (`plugins/logic/manager.py`, `plugin_service.py`) | registry, `plugin_states`, plugin directories, retained versions | install, upgrade, rollback, uninstall, toggle, reload, verify, revert, reconcile | bus, event log, operations | three locks, passes between the awaits of a handler, failed versions, crashes | every instance comes to `plugin_states`; only the leader of an action moves the version; nothing is lost |
| boot, database, vault (`boot`, `database`, `vault`, `main.py`) | phase, engine, connection loop, seal state | vault opened, connect, watchdog, load modules | all services through `db:connected`, `iam:ready` | reconnects repeat events, giving up | started once, a lost connection comes back |
| cluster service (`cluster/logic/cluster_service.py`, `drain.py`, `preflight.py`) | started, instances, leader, draining | start and its retries, heartbeat, preflight, drain, restart | all of the above | start races, signals during a drain, restarts that overlap | starts once, somebody is ready, the leadership does not wander |
| membership, assignment (`cluster/logic/assignment.py`) | rows of `cluster_instances`, each one's view and leader | heartbeat, deregister, workers, shard | cluster service, plugins that share work | views differ for seconds, late heartbeats | settled, everybody sees the same and each item has one owner |
| key-value store (`drivers/db.py` 365-433) | `cluster_kv` | set, get, delete, incr, prune | sign-on, login throttle, plugins | expired rows deleted by a reader, statements of several calls | a value set is not lost before it expires; a code is redeemed once |
| log store (`cluster/logic/log_store.py`) | bounded buffer, rows | emit, flush, stop, prune | logging, leader | full buffer, cancelled thread | the newest lines, once and in order |
| bus, plugin context (`core/bus.py`, `plugins/logic/context.py`) | subscribers and their keys, tasks, pending requests, status, windows | subscribe, unsubscribe, request, set_status, dispose | everything | keys of old incarnations, late replies, overlapping warm-ups | nothing of an unloaded plugin runs on; the gate opens again |
| routes (`core/api/router_registry.py`) | routers and stubs in `app.router.routes` | register, unregister, bind, stub | plugin manager | reload, role moves, ids that are prefixes of others | what answers below a prefix is what is loaded |
| streams (`core/api/events_api.py`) | queues | open, publish, generate, close | browser | full queues, drain | a stream that lost events gets nothing more |
| notifications (`notifications/logic`) | entries in memory and in tables, queue of changes | push, dismiss, clear, flush, refresh | every service | the flush of a request beside the flush of a task | a change is written, a dismissal stands |
| notification router (`notification_router/logic`) | rows of endpoints, caches, overrides | hydrate, sync, PATCH, route | messaging, plugins | transactions that overlap on two instances | an instance goes by its own override |
| accounts, rights, grants (`auth/logic/{auth,user,group,identity_link}_service.py`, `role_registry.py`, `access_service.py`) | `users`, `user_identities`, `groups`, `role_grant_ledger`, caches | login, link, create, rename, delete, sync of roles | every instance at boot | check, then write; groups named, not referenced | no second account, no membership that nobody gave, a role taken away stays away |
| sessions, sign-on (`auth/logic/providers`, `api_key_service.py`, `core/api/auth_api.py`) | providers, keys, states, verifiers, handoffs | login, reload of providers, callback, redeem, logout | key-value store, Vault | reloads during a login, callbacks twice or elsewhere | the administrator gets in; one session for one code |
| settings, secrets (`settings/logic/system_config_service.py`, `vault/logic/kv_helper.py`) | secrets, copies in memory | save, hydrate | bridge, plugins | read, change, write as a whole | other fields stay; memories come to agree |
| maintenance (`core/api/maintenance.py`) | schedules, overrides | effective state, list of windows | displays, gate | midnight, touching windows, horizon | the state is what the schedules mean |
| git, marketplace (`git/logic`, `plugins/logic/plugin_service.py`, `custom_repo_service.py`) | repository, remote, clone, listing cache | sync, commit_push, watcher, list | GitHub, plugins that write files | a process that dies, late answers | what is reported pushed is pushed; the listing is current |
| theming, translations, user interface, navigation, logging, monitoring | | | | input and output | not modelled |

## Modules

| module | models |
|---|---|
| LeaseLock | what a lease promises: an abstract specification |
| EventFanout | what the event log promises: an abstract specification |
| EventLog | event log and bridge; instantiates EventFanout for the refinement |
| LeaseKeeper | leases, their table and the work done under them; instantiates LeaseLock for the refinement |
| Operations | operations on a plugin in the cluster |
| Messaging | gateway, retry workers and the pending actions of two tables |
| PluginConvergence | one plugin on every instance: files, rows, tasks and locks |
| CoreBoot | how an instance comes up: Vault, database, IAM, modules, coordinator, readiness |
| Membership | heartbeats, what instances know of each other, who does which work |
| RollingRestart | the restart of a cluster: requests, SIGTERM, drain, the leader lease |
| KeyValue | `cluster_kv` statement by statement, codes and counters |
| LogStore | buffer, shipper, `stop()` and prune of `cluster_logs` |
| Notifications | the bell in memory and in the tables |
| NotificationRouting | an endpoint's row, its copies and override, what is routed by it |
| PluginContext | subscriptions, requests and tasks of a plugin that is loaded again and again |
| PluginRoutes | routers and stubs of plugins in the application |
| PluginStatus | runtime status, maintenance windows, the gate |
| Streams | event streams with bounded queues |
| GitRepo | one repository: sync and commit_push step by step |
| Marketplace | clone, watcher, listing cache, custom repositories |
| Accounts | accounts, identities and what logins and administrators do to them |
| Rights | memberships, roles and permissions of a user; groups by name |
| Grants | baseline roles of a group, their ledger, the cache of permissions |
| Sessions | logins by password down the chain of providers, API keys |
| SignOn | OpenID Connect: states, callbacks, handoffs, codes |
| VaultDocument | one secret that several instances write as a whole, and its copies in memory |
| Maintenance | schedules and overrides; the state computed from them |
| `MCLeaseKeeper`, `MCEventLog`, `MCOperations`, `MCMessaging`, `MCPluginConvergence`, `MCCoreBoot` | constants for TLC, each extends its module |
| `MCServices` | Operations and the nine modules of services that an instance has for itself, side by side |
| `MCPlatform` | the ten modules of tables and secrets that instances share, side by side |
| `LeaseKeeperProofs`, `EventLogProofs`, `OperationsProofs`, `MessagingProofs`, `PluginConvergenceProofs`, `CoreBootProofs` | the theorems about the module of that name |
| `ServicesProofs` | theorems about PluginStatus, PluginRoutes, NotificationRouting, Marketplace, GitRepo, PluginContext, Streams, Membership, Maintenance, LogStore, Notifications |
| `PlatformProofs` | theorems about KeyValue, Sessions, SignOn, Rights, Grants, Accounts, VaultDocument, RollingRestart |

In `MCServices` and `MCPlatform` the variable `part` is chosen in the initial state and never
changes; a behaviour takes the steps of that part's module and leaves the variables of all others
as they were. The components put together there share no state and call each other, if at all, only
where the caller's module has that call as an input, so nothing is lost by looking at one at a time;
each is explored completely, and `PartView` keeps TLC from telling states apart by variables that
stand still. Where a module has several initial states, the conjunct in `ServicesInit` or
`PlatformInit` keeps the choice to the part it is about.

### LeaseLock and LeaseKeeper

`LeaseLock` is what a lease promises its users: it is given while it is free, its owner is sure of it only
later, when it hears so, and it is free before it is another's. Many leases may move in one step. In
`LeaseKeeper` the owner is the holder of a row that lives, and who is sure is a holder whose last renewal,
by its own clock, is recent (`Fresh`); `ImplementsLock` is the refinement. It says nothing of a holder that is
not `Fresh`, and holds while nobody gives a lease back by hand (`NoTakeBack`). That a `Fresh` holder owns a live
row (`FreshIsBacked`) follows from it (`LockBacksHolders`).

A call to the database is three steps: the keeper sends it (`Try`), the statement
commits in its thread (`Commit`, `ReleaseCommit`) or fails (`Unreachable`,
`ReleaseFail`), the event loop reads the answer (`Answer`, `ReleaseDone`). The
callers, the administrator's API, `stop()`, crashes and restarts act in between.
A pass holds the keeper's lock and works through a snapshot of the wanted leases
(`todo`); `forget` and `release_now` do not take the lock. Time is relative: ticks
a row still lives (`left`), ticks since a renewal (`age`), of a flight (`flight`). A
row's expiry is stored in whole seconds, so `TakeRow` leaves a tick open. Restarted
instances keep their id. All callbacks of a lease on an instance count as one owner.

### EventFanout and EventLog

`EventFanout` is a page: an event reaches a member once, if another instance
published it after the member joined. `EventLog` has a publication draw its id
(`Insert`) before it commits, polls in batches, dispatches after an await, prunes,
starts and stops. An action emits a cause; the handlers of the cause, on every
instance, emit a reaction. `ImplementsFanout` is the refinement, with
`published`, `past` and `heard` mapped to pairs of event and origin. `late` remembers the
rows that became visible after one with a larger id: what an instance is owed (`Owed`)
leaves them out, because the cursor may have passed them.

### Operations

`report()` and `sweep_timeouts()` are READ COMMITTED transactions of several steps:
what they read, the row they hold, what they write at the commit, and the event that
follows. `seen` is the list of live instances as of an instance's last heartbeat.
`quiet` and `age` count the ten minutes of silence and the hour. An instance may report
again, or without being a participant; a sweep may run beside a report, and a transaction may be rolled
back and run again. `disturbed` is a history: the operations on which a transaction
committed while another one was under way, and one of the two closes, unless both are the first outcomes of
participants that take each other for alive (`CommitDisturbs`, `SweepDisturbs`), and those a
sweep was going to announce when it was rolled back. Only these may be announced twice, or have an outcome that is not that of the rows.

### Messaging

`create`, `resolve`, `init_db` and `expire_stale` work on the table and on a cache of
each instance; a click is `Incoming`, `Claim` (the conditional UPDATE, whose answer may
get lost), `Answer`. A message is sent to its targets one by one; one that fails goes
to the queue of the provider's retry worker. `register()` of a provider that has one
replaces the worker and lets the old one run.

### PluginConvergence

One plugin; an instance has at most one installation (`fetch`, under
`_install_lock`), one handler of an install event (`handler`, under
`install:<folder>`), one `reload_module` (`reload`, under the module's lock) and one
pass (`pass`, under `__cluster_reconcile__`). A handler goes through the stages of
`_handle_plugin_install`; the activation it awaits ends in a pass that queues for the
reconcile lock like any other, hence `Calls(i, by)` and `Finish`. `setup` holds the
coroutines of setup(), those of an unloaded incarnation (`orphan`) included.
`previous` is `.previous_<repo>`. The row keeps only what decides: whether it is
active, the version, and whether it has a repository. A pass reads the rows (`PassReads`)
and comes to this plugin later, after what it does for others, with what it `read`. `overtaken`
is a history: a pass read before the plugin's row was there, and took the plugin for uninstalled
when the row was. The verification waits some 24 s for setup(); a setup() that takes longer is one of the things that
may happen, and fails it (`Verify`). Versions that the registry cannot load, dependencies and placement
are left out.

### CoreBoot

One instance in cluster mode. A subscriber on the bus is a task, so `vault:opened`
is counted on its way (`opened`), and the bootstraps of IAM under way too (`iam`); what
a subscriber does before its first await belongs to the step that emits. `chain` holds
the connection loops and watchdogs, two slots so that a second one can be seen, and
`current` is `_connection_task`. `starting` has the calls of `_start_once`: two inline
ones, which no field of the service knows, and the retry task. `checks` are the
preflights of `system:boot_complete` and of the heartbeat or a late start; each reads
`started` in one step and stores its answer in another. `health` and `unlock` are the
places in `check_vault_health` and in `handle_init` or `handle_unseal`. `overlap` and
`halted` are histories that the properties excuse by name.

### The modules of MCServices

- **Membership.** An instance beats once per tick, in steps: it writes its row, reads all rows,
  reads who leads and sets it. `calm` counts the ticks since something last started, stopped or
  failed. `stop()` deregisters while a heartbeat's thread may still write (`WritesLate`).
- **Notifications.** A change is made in memory and queued; `flush` has the batches of the task and
  of requests, each written in a transaction of its own, whichever commits first. An instance that gets the database
  (`EnableDb`) reads the tables over what it has in memory, or writes what it has into tables without entries.
- **NotificationRouting.** `sync[s]` goes from collecting what is declared to its commit; `stale`
  marks transactions the database will refuse, as `innodb_snapshot_isolation` does.
- **PluginContext.** `subscribers[k]` counts, for each context, its callbacks in the bus's list under a
  name, `subKeys` has what the bus takes for duplicates. `setups` has the coroutines of setup(), `handlings` the
  tasks of the bus that run a handler: `dispose()` stops neither, and they may subscribe, start tasks and make requests
  with a context that is gone (`left`). A request may be answered more than once, and late.
- **PluginRoutes.** `mounted` is the list of routers by the plugin below whose path they are;
  `Longer` has the pairs of ids where one is a prefix of the other.
- **PluginStatus.** `told` is what the bus heard last; the bus is spared a report that changes
  nothing but progress and comes soon after another.
- **GitRepo.** A request holds the repository's lock and does fetch, reset, add, commit and push one by
  one; contents are sets of changes, so that "pushed" can be compared with the remote. A request may ask for a
  commit without a push; `discarded` has the commits that a later sync resets away.
- **Marketplace.** Commits and states of the table of repositories are numbered; a listing is the
  pair it was made from.
- **Streams.** A connection is in `listeners` until its queue is full or it is closed; its generator
  may go on (`stage`). Queues and what was sent hold the places of the events in `published`.

### The modules of MCPlatform

- **KeyValue.** Each statement of `kv_set`, `kv_get`, `kv_delete`, `kv_incr` is a step, because other
  calls commit between them, and may fail: then the call is rolled back, and a login goes on without having
  read, or without having counted (`StatementFails`). `window` and `counted` are the login throttle.
- **LogStore.** Lines are numbered; a batch is inserted by a thread that `stop()` does not wait for. The prune of the leader
  deletes what is past the retention, and then, for each instance, what is older than its newest `Keep`.
- **Accounts, Rights, Grants.** A login finds its account by the identity, or by a verified mail; one that finds an account without a mail
  gives it its own. A request is the transactions the code opens: reads in some of them,
  the write in the last one, refused when a row it rewrites changed since it was read there. `want`
  and `raced` (Rights), `unchanged` (Grants) are histories that the properties compare with.
- **Sessions.** A login keeps the list of providers it began with; registering providers anew clears
  and fills the registry one by one. The database may fail whenever the local provider, a key or a logout asks it.
- **SignOn.** State, verifier, result and code have a place each: in the store, on a node, in a
  browser. What may become a session is counted against the codes the provider took.
- **VaultDocument.** A save reads the secret, writes it as a whole and tells the others; a hydration
  reads it and sets memory later. An instance takes from the secret what `EDITABLE_SETTINGS` has, its environment has not and
  coerce() reads, and may save any field that its own environment has not; the theme it saves in any case. `late` marks what was read before another's write, `blurred` and
  `excused` the fields whose loss the properties excuse.
- **Maintenance.** A weekday field means what the parser makes of it, steps and ranges included, and with a day of the
  month either of the two will do. The computation is in `Occurrences`, `EffectiveState`, `IntervalsBetween`; the
  property compares it with the meaning of the schedules tick by tick.
- **RollingRestart.** A request gives every host its place (`orders`, a sequence of such lists); each host sleeps for its turn, gets SIGTERM, drains, hands
  over, boots. `regular` says that nothing but one restart, from a complete list, has happened.

## Runs

| run | what happens | what it shows |
|---|---|---|
| lease_rows | 2 instances, 1 lease, TTL 1, two releases under way, force | a live row changes hands only through its own holder or an administrator |
| lease_live | 2 instances, TTL 2, answers up to 1 tick late, crashes, restarts | refinement of LeaseLock, work follows the held set, stale work ends, another instance takes over |
| lease_v_wedged | 1 instance, `release_now` beside a pass | violation: held, renewed and not worked for |
| event_relays | 2 instances, 3 ids, everything may go wrong | refinement of EventFanout, nothing heard twice, no owed row passed over, every one arrives |
| ops_ends | 2 instances, departures, joins, repeated reports, deadlocks | every operation ends |
| ops_v_last_report | 3 instances, nothing disturbs | violation: two overlapping last reports, and nobody closes the operation |
| msg_ends | 2 instances, 1 message, 2 clicks, 2 registrations, queue of 1 | one click is handled, a waiting message is in one place, every message ends, a click on a live action gets it handled |
| plug_converges | 2 instances with a disk each, 2 versions, any two of eight kinds of operations and faults; one beside a pass that is held up, or with a setup() that outlasts the verification | both follow `plugin_states` for good, leaders move versions, nothing is lost but to a pass that was overtaken |
| plug_v_shared_mount | 2 instances, one directory, one upgrade | violation: the peer never loads the upgrade |
| boot_up | 2 retries, any two of eight kinds of failures, Vault in any state | one attendant of the database, modules loaded once, one poll loop; the instance serves, or says why not |
| services_all | an operation with 2 instances: one may leave, reports come again and beside the sweep, transactions are rolled back; 2 bells, 2 entries, 3 changes; 2 syncs, a PATCH and 2 installations of an endpoint; 2 loads of a plugin with two setup()s, a request that is answered twice and a handler that outlives its context; 3 plugins, 4 routers; 2 windows; 2 instances and one that may join, with 2 work items and 2 changes; 3 git requests, an edit, a death; 2 commits and 2 repository changes; 3 events for a stream with a queue of 2 | the safety properties of these ten modules |
| platform_all | 3 calls of the key-value store, which may fail; 4 log lines in a buffer of 2; 3 accounts, 2 logins; 2 groups, 2 requests; 2 transactions on a role; a login, 2 reloads, 2 visits; 2 callbacks on 2 nodes; 3 writers on 2 instances; 21 ticks of schedules, among them one that the parser reads otherwise than cron; 3 hosts with a restart and a SIGTERM | the safety properties of these ten modules |

The type invariants are theorems and need no run. The bounds are the smallest in which the
interesting case occurs: two instances race for a row, and a third adds no new kind of interference
because all of them meet only in the row; a TTL of two with an answer a tick late has both fresh and
stale holders; two clicks are the duplicate; a queue of one is full with one; two installations are
the least that can follow, overtake or undo each other. In CoreBoot two failures are the least that
hit a loop that replaced a watchdog, or a preflight beside a late start; one request to open Vault is
on its way at a time, and two `vault:opened` or bootstraps (`MaxPending`). Three calls of the key-value
store have one commit between two statements of another and a third to see the outcome; three members
are the least whose views can differ in who has a share; three git requests have one that fails, one
that finds its commit left and one that resets. A second answer and a handler under way (`Replies`,
`Handlings`) are the least that comes after a request is done, or after `dispose()`; a plugin has two tasks at a time,
and one once a request has been answered (`FewRunning`); an hour of one tick (`Hard`) is
not shorter than the silence. The two instances of Operations and of Notifications are alike, as are those of lease_rows: these runs use symmetry and check safety only. Most of these bounds do not matter where there is a
theorem: it holds for all. Times are relative and counters capped (`Many`, `MaxId`, `MaxEvents`,
`Scripts`, `MaxTroubles`, `Edits`, `Releases`, `Forwards`, `LastTick` and so on), each named in its
module. `Twice` lets an operator uninstall or reload a plugin only after disabling it; what happens
otherwise is under "Known weaknesses". plug_converges ends with a pass that is overtaken (`NotOvertaken`, a
constraint of the run): `Converges` claims nothing from there on. In VaultDocument one of the three writers of settings has
saved before the behaviour begins, so that two overlap; the theorem holds for any number. One message in msg_ends never meets a full retry queue, the theorem's messages do.

`CHECK_DEADLOCK FALSE` stands where the bound on what may happen, or the end of all
messages, lets the system stop.

### Fairness

Weak fairness of a step says that the event loop goes on, a thread's statement ends
and a periodic task comes again; the code has `while True` loops with a sleep for
each (`_loop`, `_poll_loop`, the retry worker, `_cluster_reconcile_loop`,
`_connection_loop`, `_watchdog`, `_retry_start`, `_heartbeat_loop`). Nothing that
an operator, a provider or a failure does is fair. `SF` is used once, for the
activations that queue for the reconcile lock: `asyncio.Lock` wakes its waiters in
turn. Takeover assumes no fairness of processes: it holds unless they come and go
for ever.

## Proofs

The theorems hold for every value of the constants that the named assumption of the module allows;
TLC evaluates each assumption in a run. Such an assumption types the constants (bounds are natural
numbers, `Home` is an instance, ids are positive) and says nothing of the behaviour. Two say
more: `MembershipAssumption` takes the scores of two instances to differ (they are 64-bit digests; the
code breaks a tie by the order of a list), and `ValuesAssumption` keeps "no row" and "not loaded" apart
from rows and entries. Some theorems have a condition on what may happen, named in their statement: `NoTakeBack` in those of
the leases, `Undisturbed` in `OverlapIsHarmless`. Each property is a conjunct of an inductive invariant, or follows from it for one step; TLC checked each invariant, in a run of its own on the bounds above or larger ones, before
it was proved.

What the invariants add to the properties, and why it is needed:

- `LeaseKeeperProofs`: `FreshHolderOwnsRow`, `WorkFollowsLease` and `KeepersImplementLock` under `NoTakeBack`, `LiveRowIsGivenUp`
  without it. `FreshIsBacked` is not inductive: an answer that has not been read carries the promise
  too, and a release in flight must not be overtaken. `LeaseInv` says that a row outlives its renewal by TTL
  less the flight of the answer, `QuietInv` that releases belong to a keeper that has stopped, `WorkInv`
  that work, held and released leases agree. For `LiveRowIsGivenUp`, `AbsentIsOver`: a row that is not
  there has no time left, else taking it would look like taking a live one. The refinement puts these together: who
  is sure before a step, and after it, owns the row (`FreshIsBacked`); only an answer makes sure, and no answer
  touches the table (`AnAnswerMakesSure`); an owner changes only from or to nobody (`LiveRowStep`).
- `EventLogProofs`: `IdInv` makes ids unique and the cursor that of a published row, `SkipInv` says that
  a batch leaves out nothing between the cursor and its last row, `CursorInv` puts the cursor between what was
  dispatched and what will be, `OnceInv` has an event on its way in one place, `PastInv` keeps what was there
  before a start behind the cursor. `LogImplementsFanout` is the refinement, step by step.
- `OperationsProofs`: whatever happens, for an operation that is not in `disturbed` a call in flight finds it running and
  is going to write an outcome that fits the rows (`CallInv`), a sweep likewise (`SweepInv`), and an announcement is
  owed once (`AnnounceInv`). `OverlapIsHarmless` says when no operation gets there: if instances leave and nothing else
  happens, since a call in flight then is of a living participant whose row is open (`PlainInv`), and who is thought dead
  is dead (`MemberInv`).
- `MessagingProofs`: a row is taken by one click at most and the answers fit it (`ClaimInv`); what is shown
  or waits was sent (`SentInv`); every way to lose a click leaves its reason behind (`DropInv`). For
  `InOnePlace`, what a worker holds is in no queue, and a queue has no message twice.
- `PluginConvergenceProofs`: only a handler of an installation that an operator led has the stages that
  record (`LeadRecords`). For `NothingLost`, a plugin an instance knows has a row and nobody is
  removing it, unless its uninstallation was asked for or a pass was overtaken (`RowInv`, `MayGo`); no condition is put on
  what passes read.
- `CoreBootProofs`: `AttendInv` adds that a loop is the one in `_connection_task`, which is what
  `init_db_connection` looks at; `LoadInv` that loaded modules mean the phase "ready"; `PollInv` that one call of
  `_start_once` runs at a time until the coordinator is started.
- `ServicesProofs`: a blocking phase was reported for a warm-up or a window that goes on (`StatusInv`); what
  runs elsewhere has no router here (`RoutesInv`); a transaction nobody outdated has read the row as
  it is, and where a copy is wrong a sync is under way (`RoutingInv`); the clone never goes back and what the
  watcher saw is there or is fetched (`ShopInv`); one request has the repository, and what it staged is in the
  place its stage says (`GitInv`); only contexts that are registered, or were disposed of
  while one of their setup()s ran, are on the bus, a name that is taken is somebody's there, and every setup()
  is counted (`ContextInv`); what was sent or waits is in order, of what was published since the client
  connected, and nothing due is missing (`StreamsInv`); what each instance knows after 1, 2, ... `Ttl + 2` calm ticks (`MembersInv`); what a
  shipper still has is later than what it stored, and what the counters do not know of was in the batch of a
  shipper that was cancelled (`LineInv`); a queued change of the bell waits in one queue or batch until it is written or lost, and each of them has its changes in order
  (`BellInv`).
- `PlatformProofs`: what a call of the key-value store may still believe between its statements
  (`KvInv`); a login that is walking the chain still has the local provider before it, unless the chain
  changed (`SessionsInv`); the number of places that may become a session is that of codes used
  (`SignOnInv`); what requests looked up (`RightsInv`); what transactions read and caches were filled
  from (`GrantsInv`, `AccountsInv`); whoever is about to set a field of a memory sets what is in the
  secret, was outrun, or is followed by somebody who does (`VaultInv`); every host has a number of ticks
  until it goes, those that have not restarted yet are a stagger apart, and when the leader of the beginning goes the others are back (`RollInv`).
- Maintenance, in `ServicesProofs`, has a state that is simple and a computation that is not: there is
  nothing to strengthen but its types, and `StateIsWhatIsMeant` is proved of every plan, override and time. The
  occurrences of one schedule that end after a time `a` and start by `u` consist of ticks it means, and no such tick from `a` to `u`
  is missing (`Covers`, for each type of schedule: the window of yesterday that goes
  over midnight, the last fire that still runs); asked for from later on, those that start early are the same
  (`Continues`). So the first of them, extended by what overlaps or touches it, is
  the interval that is on or next (`FirstOfIs`, `NextIs`), whatever the schedules and whatever the parser makes of their fields
  (`Understood`); and the coalesced
  list has all and only those ticks, with a gap between any two (`Reached`, `EndsBefore`).

A few proofs need an induction: over the operations of a batch (`StagesRun`), for the largest line of a set, for the
first and the last of the occurrences. It goes by `FiniteLargest`: a finite set of integers has a largest
one, because inclusion of finite sets is well-founded, which the library states without an operator.

Three attempts to prove a property found it, or the model, wrong.

- `SettingsSettle`: with three writers, a hydration that read the secret before its own instance's save, and is
  applied after it, leaves the memory apart from the secret. The code does that; the model did not count such a
  read as outrun. It does now (`SaveWrites`).
- `BellRemembers` said that a dismissal goes only with the entry, by a newer version or by the limit. A flush whose
  batch holds two versions of an entry can also write the older one, have it pushed out by the limit with its
  dismissal, and bring the entry back undismissed with the newer one. `DismissalStands` now says what the code
  guarantees: the version that was pushed out has `Limit` newer ones before it in the table.
- `RestartRolls` was false for a cluster of one, which nobody can keep ready; it now asks for several hosts.

The first two weaknesses are listed below.

### What stays with TLC

- Liveness: `Takeover`, `StaleWorkEnds`, `Delivery`, `EveryOperationEnds`, `EveryMessageEnds`, `ClickIsAnswered`,
  `Converges`, `ComesUp`. TLAPS proves no ENABLED here.
- The three violations.

Every invariant and every action property of a passing run is a theorem.

## Findings

1. `lease_v_wedged` (`leases.py:140`): the lost callback of `release_now` comes after the acquired
   callback of a pass, so the lease is held and renewed and nobody works for it.
2. `ops_v_last_report` (`operations.py:177`): two reports that overlap each see the other's row
   pending; the operation ends by the timeout instead.
3. `plug_v_shared_mount` (`manager.py:1271`): `plugins.md:61` promises that peers load what one
   install wrote; `_reconcile_version` takes the version on disk for a pending load.

## Known weaknesses

States that the models reach, or steps met in the code while they were written. Properties excuse
them by name where they touch one.

- Leases: two instances may work at once between the expiry of a row and the late
  answer of its former holder; `forget()` beside a pass leaves a lease stored that nobody
  wants; the thread of a cancelled pass may insert a row after `stop()`.
- Events: with overlapping inserts a row can become visible behind a cursor, and is
  skipped for good (the rows in `late`).
- Operations: two closing transactions that overlap (a report that is repeated or comes from an instance that joined, a
  sweep beside a report) announce twice, or leave an outcome that the rows do not have; a sweep that is rolled back
  keeps `finished_payloads` and announces again. `ha/building-blocks/plugins.md:37` speaks of one notification.
- Messaging: with the database away twice, both clicks are handled, against
  `correlation.py:155`.
- Plugins: an active plugin that is uninstalled is installed again by a pass between the
  unloading and the deletion of the row, and two instances can go on like that for ever;
  an operator's reload leaves a plugin at "initializing" when a pass loads it in the pause;
  a pass held up by other downloads uses the rows it read before them (`manager.py:1149`, `1203`) and removes a plugin that
  was installed meanwhile, everywhere, against the comment at 1201; instances may then install and remove it in turns;
  a reverted upgrade is fetched with every pass (`manager.py:1287`); with two opposite upgrades and
  a version that fails on one instance for good, verification and retries alternate for ever;
  `_activate_saved_plugins` runs an async setup() twice (`manager.py:899`, `921`).
- Boot: a Vault that goes away during the mount check halts the boot for good, with the database row
  at "pending" although nothing connects; an instance whose Vault a peer opened keeps
  "needs_unseal", because the API refuses to unseal what is open; a database that comes back within
  the first attempt to start the coordinator leads to two poll loops; an error of the
  credentials gives up a connection once had, too.
- Membership: `draining` is practically never published, since `stop()` sets it and cancels the
  heartbeat at once; a draining instance's frozen view keeps itself as a worker; a heartbeat in flight
  at `stop()` inserts the deregistered row again; `_refresh_leader` can set an older holder after
  `_leader_acquired`, until the next heartbeat.
- Drain: `drain.py:10` and `rolling-updates.md:18` say that `/api/ready` answers 503 from the SIGTERM on; the code
  sets `draining` after the drain's sleep (`drain.py:50`, `cluster_service.py:245`), see `DrainAnswers503`.
  `failover-drills.md:59` holds only if a host boots within the 5 s of the stagger. A second SIGTERM forces
  the end, a third ends it without giving leases back; a release that failed is not tried again.
- Login throttle: while the table does not answer, a login is let in unread and its failure is not counted
  (`auth_api.py:55`, `66`).
- Key-value store: the third statement of `kv_set` may find no row and the value is lost; `kv_incr` answers 1 and
  has written nothing in the same case.
- Log store: without a database each batch is dropped as it is drained (`log_store.py:188`), although
  `ha/building-blocks/logs.md:50` has the buffer of 5000 lines bridge an outage; `stop()` writes at most 2000 lines; the batch of a cancelled shipper is counted nowhere.
- Bus and contexts: handlers under way are tasks of the bus (`bus.py:175`), which `dispose()` does not cancel; they may subscribe, start
  tasks and wait for replies in a context that nobody disposes of again. `unsubscribe` frees the key of another context's live callback of the same name; the setup()
  of a disposed context takes a key, and the reloaded plugin is deaf for that name.
- Routes and status: a disabled plugin's routes stay, without a gate; a route is found by the beginning of its
  path (`router_registry.py:202` against the docstring at 190); the end of one window opens the gate while
  another is open; a warm-up task that raises leaves it closed for ever.
- Streams: a stream that overflowed sends keep-alives for ever and `close_all` misses it; the queue of a
  generator that never started stays.
- Notifications: what was dismissed while there was no database is overwritten when the tables are read
  (`notification_service.py:94`); a flush that fails loses its batch; a request's batch can be committed before the older one of the
  task; a refresh replaces memory before pending changes are written; dismissing a deleted entry leaves a
  row; a dismissed entry of which two versions are flushed at once can come back undismissed when the older one is
  pushed out by the limit.
- Notification router: an instance without the plugin deletes its peers' row and override
  (`router_service.py:143` against 229); peers' copies do not hear of a PATCH; an older hydration
  brings an old override back until the next sync; envelopes before the first sync are dropped.
- Marketplace: `_last_known_head` is set although the sync fails; an answer of GitHub asked for before the cache was
  emptied is kept for 15 minutes; peers do not hear of custom repositories.
- Git: a refused push does not raise in GitPython and is reported as "pushed"; after a failed push the retry says
  "no_changes" and the commit stays, until an https sync resets it away; so does it with a commit that was meant to stay local in a repository with a remote
  (`git_service.py:274`, `166`); files in a directory without .git are
  removed before a clone; a kill leaves `index.lock` or a broken clone.
- Settings: `PATCH` takes every field and asks for the environment of its own instance only (`main.py:701`), peers take from the secret
  the editable ones that theirs has not, so instances may go by different values at rest; the theme is saved
  where the environment has one.
- Secrets: a failed read and a write that succeeds erase all other fields; two instances overwrite each other's
  saves; removed settings stay in peers' memories; a hydration that is applied late sets older values,
  after the instance's own save too.
- Rights: users list groups by name, so a group that is created with, or renamed to, a name that was deleted brings its
  old members their rights; `_assign_user_role` reads and writes in two transactions.
- Grants and accounts: a mail that the provider has not verified is written to an account that has none
  (`identity_link_service.py:122`), and a verified one of another identity then finds that account; a PATCH of a group with an older list drops a role the ledger takes for given; two
  identities with one verified address both link to one user; API keys outlive the user.
- Sessions: a login during the reload of providers can be refused, for the administrator too
  (`registry.py:80`); without the database a valid key is answered with 401 like a wrong one (`api_key_service.py:124`,
  `security.py:239`), and so is the local login (`registry.py:109`); two reloads that overlap leave a stale provider; other instances never reload.
- Sign-on: a callback that fails after the verifier was taken cannot be tried again on that node; page handoffs live in
  one node's memory; a result whose state was dropped never expires.
- Maintenance: `*/n`, `0-7`, `0/2` in the weekday field mean only Sundays, `5/2` is refused, `fri-mon/2` ignores the
  step (`maintenance.py:464`, `477`); `override_ended` after `until` brings the
  override back; a window that never ends makes `next_start` name a start inside it.

## Not modelled

`StreamBridge`, parsing and delays of adapters, `unregister()` (nobody calls it); the pins of
`LYNDRIX_PLUGINS_DESIRED`, `auto_update`, announcements of newer versions (`plugin_service.py:83`), dependencies
between plugins, placement, `health()` and the back-off of the reconcile; single mode of the cluster service, the
other checks of the preflight, the key file of Vault and its loss, the flags of `system:maintenance_mode`; tickets
of streams, browser sockets, password hashes, LDAP searches, overrides of permissions; saves of a secret with
`apply_runtime=False` or `persist=False`; months, lists in a field of cron, time zones; everything the inventory calls input and output.
Hazards that no property covers are in `PROJECT.json` with the reason.

## Plan

1. A theorem that RollingRestart implements LeaseLock too, with a clock for the row of a host that is gone.
2. The refinement of PluginConvergence to an abstract "every instance follows the row", without the faults.
