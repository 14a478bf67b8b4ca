# ops-scaffold-framework in TLA+: agent supervision and the web console

The framework has a **Manager** (a web back end with a database) and, on every
node, a **Daemon** that starts, watches and restarts **agents** (processes) and
reports their state to the Manager over gRPC; operators use a **web front end**
(React) on the Manager's HTTP interface. The modules in this directory model the
parts of the three that are concurrent, that fail, and that wait for each other.
Paths below are relative to `src/`; `agent/` stands for
`src/daemon/internal/agent/`, `web/` for `src/web/src/`.

## 1. Inventory

| Component | State | Operations | Hard behaviour | What makes it correct |
|---|---|---|---|---|
| Agent instance: `agent/instance.go`, `registry.go` | `ai.mu`, `process`, `manuallyStopped`; `AgentInfo` (PID, status, restart count, a lock of its own) | `Start`, `Stop`, `Restart`, the waiter goroutine, `periodicRotateCheck` | `Stop` waits with the lock held; a waiter per process clears the fields late; the process is tied to the context of the call that started it | one supervised process; the record tells the truth about it; a manual stop sticks; every call returns; a dead agent comes up again |
| Multi-agent manager: `agent/multi_manager.go` | map of instances, metadata writer, callback | `StartAgent`, `StopAgent`, `RestartAgent`, `StartAll`, `StopAll`, `UpdateAgentStatusWhenProcessExits`, `UpdateHeartbeat`, `Close` | writes status and PID outside `ai.mu`; read-modify-write of records | what it hands on matches what happened |
| Health checker: `agent/multi_health_checker.go` | one goroutine per agent, heartbeat map | round per tick: dead, over a threshold, healthy | acts on what it read several locks ago; backs off for up to 60 s | restarts what died, leaves alone what was stopped by hand |
| Daemon gRPC service: `daemon/internal/grpc/server.go` | none | `OperateAgent`, `ListAgents`, `GetAgentMetrics` | its context ends with the call | calls return |
| Metadata store: `agent/metadata_store.go` | one mutex, a file per agent | `Save`, `Get`, `Update`, `Delete`, `ListAll` | `Update` calls `Save` | calls return; whole records |
| Asynchronous writer: `agent/async_metadata_writer.go` | channel of 100, batch of 10 | `SaveMetadata`, `UpdateMetadata`, `writeLoop`, `Stop` | three flushes and a drain on one batch; full channel | requests in order, once, and none accepted before `Stop` is lost |
| Heartbeat receiver: `agent/heartbeat_receiver.go` | pool of 1000, statistics | `HandleHeartbeat`, workers, `Stop` | a full pool, a stop in the middle of a request | every heartbeat is accounted for; `Stop` returns |
| Resource monitor: `agent/resource_monitor.go` | history per agent | round of goroutines, `Stop` | a save of a copy read earlier | `Stop` returns |
| State syncer: `agent/state_syncer.go`, `daemon/internal/grpc/manager_client.go` | `pendingStates` under `ss.mu` | `OnAgentStateChange`, collection, sync, retry | pending reports override fresh ones, are put back on failure, cleared on success | the Manager's row converges to the agent's state |
| Agent state service of the Manager: `manager/internal/service/agent.go`, `repository/agent.go`, `grpc/daemon_server.go` | rows of the `agents` table | `SyncAgentStates`, `OperateAgent`, `SyncAgentStatesFromDaemon`, queries | three writers of one row; errors that are only logged; a zero PID that `Update` omits | as above |
| Pool of Daemon clients: `manager/internal/grpc/daemon_client.go` | map under `p.mu`; per client a `RWMutex`, a connection, a monitor goroutine | `GetClient`, `ensureConnection`, calls, `Close`, `CloseClient`, `CloseAll` | lock held in `WaitForStateChange`; a client replaced while somebody uses it | one open client per node; a broken connection is rebuilt; nobody blocks the pool |
| Daemon lifecycle: `daemon/internal/daemon/` | the components above, a `WaitGroup` | `Start`, `Stop`, signals | order of shutdown | `Stop` ends |
| Daemon's client for registration, heartbeats, metrics: `daemon/internal/comm/grpc_client.go` | a connection | `Connect`, `Register`, `Heartbeat`, `ReportMetrics` | the connection is replaced without a lock | – |
| Nodes in the Manager: `manager/internal/service/node.go`, `repository/node.go` | rows of `nodes` | `Register`, `Heartbeat`, `CheckOfflineNodes` | check and update are not one transaction; NULL times | a silent node goes offline, a live one does not stay so |
| Log rotation: `agent/log_manager.go` | log files | rotate, clean up | the agent has the file open | – |
| Configuration manager of the agents: `agent/config_manager.go` | files, a watcher | read-merge-write, reload | – | nothing outside its tests constructs it |
| Single-agent mode: `agent/manager.go`, `health.go`, `heartbeat.go` | one process | start, stop, restart, health loop | as the instance, with older code | as the instance |
| Collectors; Manager metrics, tasks, versions, users, handlers; reference agent | | | mostly pure data or SQL | – |
| Web, session: `web/stores/authStore.ts`, `api/interceptors.ts`, `pages/Login`, `router/ProtectedRoute.tsx`, `components/Layout` | user and token in the store of each tab, in `localStorage` twice over | sign-in, logout, refusal, guard, reload | tabs share the storage and not the store; a refusal may answer an older token | what is stored is whole; a live session stays, an expired one ends; nothing ended comes back |
| Web, query cache: TanStack Query under the defaults of `web/App.tsx` | an entry per key: data, error, fetch under way | fetch, refetch, invalidate, mount, pause, reconnect | an answer is older than its arrival; a fetch is joined or given up; offline it waits, with neither data nor error | – |
| Web, agents tab with log dialog and charts: `web/pages/Nodes/Detail.tsx`, `api/agents.ts`, `hooks/useAgentMetrics.ts` | list, operations in flight, message, dialog, selection, range | poll, start, stop, restart, sync, view and export logs, select, choose a range | answers overtaken by operations, dialogs and selections; an error view that replaces them all | what is shown belongs to what was asked for, does not go back, and follows |
| Web, metrics tab: `Detail.tsx`, `hooks/useMetrics.ts`, `TimeRangeSelector.tsx`, `RefreshControl.tsx`, `stores/metricsStore.ts` | latest metrics, histories, range and interval of the store, countdown | poll, timer, countdown, presets, custom range | three timers; dates that are none | charts show the range, cards follow |
| Web, dashboard: `web/pages/Dashboard`, `TopNodesCard.tsx`, `AlertsPanel.tsx`, `utils/alertRules.ts`, `metricsUtils.ts` | overview, interval, sort order | poll, countdown, retry, sort | thresholds in three places; panels that are not told of an error | the worst is not hidden; "normal" is true |
| Web, nodes: `web/pages/Nodes/List.tsx`, the frame of `Detail.tsx`, `hooks/useNodes.ts` | page, size, a query per page; node of the route | page, delete, open, select a tab | deletion against pages in the cache and on their way; total and rows are two statements | a deleted row goes; rows and tabs are those asked for |

How they interact. The Manager's HTTP handlers call `AgentService.OperateAgent`,
which goes through the client pool to the Daemon's gRPC service and from there to
the multi-agent manager and the instance. The instance's waiter goroutine and the
health checker write the same status and PID. Each start, stop and restart hands
a request to the asynchronous writer (a channel) and a notification to the state
syncer (a callback in a goroutine of its own). The syncer reads the metadata
store and the registry and calls the Manager every few seconds; heartbeat workers
and the resource monitor read and write the same store. The Manager's answer to
its own `OperateAgent` writes the same row that the sync writes. The web front end
reads those rows, the metrics and the logs over HTTP, in polls of its own, and
sends the operations; its pages share only the query cache, the metrics store and
the session.

## 2. Modules

A critical section of a lock is one step. A lock is a variable only when somebody
keeps it across steps, that is, while waiting for something else; it then holds
its owner. Accesses outside a lock are steps of their own. A goroutine has a
program counter `pc` whose labels name what it does next.

### `AgentInstance` — one agent on a Daemon

`mu`, `process`, `manuallyStopped` are the instance's fields; `pid`, `status`,
`restartCount` those of `AgentInfo`; `os` is each process's state in the kernel
together with its waiter goroutine (`zombie`: exited; `reaped`: `wait4` has
returned and the waiter wants `ai.mu`; `unused`: the PID is free again); `ctx` is
the goroutine whose context `exec.CommandContext` watches for it.

| Code | Actions |
|---|---|
| `Start`, `startInternal` | `StartClear`, `SpawnAlready`, `SpawnOk`, `SpawnFail` |
| `Stop` (graceful; the only kind used) | `StopNothing`, `StopSignal`, `StopKill`, `StopDone` |
| `Restart`, `calculateBackoff` | `RestartBegin`, `BackoffOver`, `RestartProbe`, then those of `Stop` and `startInternal`; `RestartFailed` |
| `MultiAgentManager` around them | `Publish` (restart count, status handed to the writer) |
| the goroutine behind `cmd.Wait` | `Reap`, `Waiter` |
| `checkAgentHealth`, `UpdateAgentStatusWhenProcessExits` | `Checker…` |
| gRPC, kernel | `ReceiveCall`, `RpcCancelled`, `ContextKill`, `Exit` |

Data left out: binary paths, log files, resource figures (over a threshold or not
is a choice), times (a timer may fire whenever it runs). `restartCount` saturates
at `RestartCountCap`; the code tells only zero from more than zero apart except
for the length of the delay.

`Supervision` is what an instance promises of processes, without goroutines and
locks: a process is launched only while the instance holds no live one; a process
that ends is noted, after which its PID is free again; a stop by hand that knows the
process leaves none. It also says where the promise ends. Noting the end of any
process makes the instance let go of the one it holds, a stop that does not know the
PID leaves the process alone, the checker may take the PID of another process off,
and a start or a restart takes the mark of a stop by hand away at any time.
`AgentInstance` implements it with `process`, `manuallyStopped`, whether a PID is on
record, and `Life`, which makes one "ended" of the three states between the exit of
a process and its waiter's critical section.

### `MetadataPipeline` — the store and everyone who uses it

`queue`, `batch` and `wpc` are the writer's channel, batch and position,
`closing` tells which of its loops it is in; `applied` records which requests
have been handed to the store, in order; `holder` is the store's lock when
`UpdateMetadata` keeps it while calling `SaveMetadata`; `ssmu` is the state
syncer's lock in `OnAgentStateChange`. Heartbeat handlers, workers, the resource
monitor and `StartAgent`'s goroutine read, then save; that goroutine gives up
when it cannot read the record. A handler first looks whether the receiver has
stopped (`Admit`, `Reject`), then counts (`Receive`, stopped meanwhile or not), then
puts the heartbeat into the pool or finds it full (`Offer`, `Refuse`). `StopMonitor`,
`StopReceiver`, `StopWriter` and `Stopped` are the part of `Daemon.Stop` that
ends them. Of the record only its existence is kept, because it decides between
the two paths of `UpdateMetadata`. `MaxRequests` and `MaxBeats` bound how much
arrives.

`RequestLog` is what the writer promises its callers: a log of requests. Each one
accepted is handed to the store once and in order, a stop ends when all that was
accepted before it has been handed over, and nothing is handed over afterwards.
What `MetadataPipeline` has in its batch and its channel waits in the log; taking a
request from the channel, ticking and beginning the drain are stutters of it.

### `StateSync` — how the Manager's row learns an agent's state

The agent changes (`Change`, `FinishChange`: two writes in either order), the
Daemon restarts (`DaemonRestart`), callbacks and collections read status, then
PID (`ReadStatus`, `NotifyRead`, `Collect`), pending reports are stored
(`NotifyStore`), put back (`SyncFail`) or cleared (`SyncOk`). A call is served,
served without effect (`ServeSwallowsError`), refused, retried, or given up while
still on its way (`late`). The Manager also writes after its own operations
(`Operated`, `UpdateRow`, `ClearPID`) and on a manual sync. `MaxChanges` bounds
changes and restarts. `clean` and `settled` only count successful syncs since the
last disturbance, for `TwoSyncsSuffice`.

A callback reads the metadata store with `ss.mu` held. If `UpdateMetadata` has
locked the store for good (finding 3 of section 5) it never gives `ss.mu` back:
`NotifyStuck`. From then on, `SyncerBlocked`, no collection and no later callback
has a step.

### `DaemonClient` — the Manager's connection to one Daemon

`pool` and `entry` are `DaemonClientPool`'s lock and map for the node; each client
object has `wlock` (who waits for or has `c.mu.Lock`; Go keeps new readers out from
the moment a writer waits), its connectivity `conn`, and its monitor `mpc`, `mseen`.
Callers run `GetClient`, `ensureConnection`, an RPC and, after an error,
`CloseClient`; `Closers` run `CloseAll`. Connectivity follows gRPC's `pick_first`;
it goes idle when the Daemon ends an idle or old connection (`daemon.go`,
`keepalive.ServerParameters`). A new channel is `starting` until gRPC leaves idle
(`Starts`); whoever looks before sees it idle (`Seen`). After its wait
`ensureConnection` looks at the state once more (`LookAgain`). `Clients` bounds how
many objects are created.

### The MC modules and the modules of proofs

`MCAgentInstance` gives TLC the symmetry between operators and between processes,
used in the safety run only; `MCWebConsole` the figures a node of the overview may
report. `AgentInstanceProofs`, `MetadataPipelineProofs`,
`StateSyncProofs`, `DaemonClientProofs` and, for the web front end,
`WebSessionProofs`, `WebConsoleProofs`, `WebPagesProofs` and `WebDashboardProofs`
hold the theorems about the modules as they are checked.

### `Session`, `WebSession` — signing in and out, in several tabs

`stored` and `keys` are what `localStorage` holds (zustand's entry and the raw keys
of `storage.ts`), `mem` and `auth` the store of each tab, `logins` and `awaited` the
sign-ins of a tab and the one its form waits for, `flights` the requests under way
with the token they carry, `live` the tokens the Manager still accepts. A handler
runs to its end before the next, so it is one step. A page is `login`, `polling` (a
node's metrics and agents, the dashboard while it is not paused) or `still`. Users
may reload, follow links and go back at any time; a tab that `window.location` is
about to replace runs on until it does (`reloading`).

`Session` is the abstract promise: the browser remembers at most one session, a tab
acts under one it was given by a sign-in of its own or found when it loaded, and no
session is remembered or held again once the browser has forgotten it, except by a
tab that never let go of it. `WebSession` implements it with `stored`, `mem` and the
sessions issued so far.

### `Query` — one entry of the query cache

A record and the operators on it, what TanStack Query does with a key: mounting and
polling join the fetch under way, a refetch gives it up if there are data,
invalidation marks data as out of date and refetches what is watched. `Read` is the
moment the server reads, earlier than `Succeed`, when the answer is applied. While
the browser is offline a fetch is `paused` (`Pause`, `Reconnect`), because `App.tsx`
leaves the network mode at 'online': it is neither loading nor failed. A mutation
that waits for the network is a call in flight not yet served. The
library is external to the repository; the defaults are those of `App.tsx`.

### `AgentsTab`, `AgentLogs`, `AgentCharts`, `RefreshControl`, `MetricsTab`, `Dashboard`, `NodeList`, `NodePage`, `WebConsole` — the pages

| Code | Module | Actions |
|---|---|---|
| `AgentsTabContent`: list, mutations, messages | `AgentsTab` | `Poll`, `Refresh`, `ReadList`, `ListOk`, `ListFails`; `Operate`, `Sync`, `Serve`, `CallOk`, `CallFails`; `TimerFires`, `CloseMessage`; `Leave`, `Return` |
| `AgentLogsDialog` | `AgentLogs` | `ViewLogs`, `Close`, `ToggleAuto`, `Poll`, `Refresh`, `ReadLogs`, `LogsOk`, `LogsFail`, `Hide`, `Unhide` |
| `AgentsTabContent`: selection, range, charts; `useAgentMetricsHistory` | `AgentCharts` | `AutoSelect`, `Select`, `ChoosePreset`, `Retry`, `ReadPoints`, `PointsOk`, `PointsFail`, `ListChanges`, `Remount` |
| `MetricsTabContent`, `TimeRangeSelector`, `useMetrics.ts`, the metrics store | `MetricsTab` | `PollLatest`, `Timer`, `Second`, `Retry`, `ChooseInterval`, `ChoosePreset`, `OpenDialog`, `Confirm`, … |
| `RefreshControl` | `RefreshControl` | operators used by `MetricsTab` and `Dashboard` |
| `Dashboard`, `TopNodesCard`, `AlertsPanel` | `Dashboard` | `Poll`, `Second`, `Retry`, `Choose`, `Sort`, `OverviewOk`, `OverviewFails`, … |
| `NodeList`, `useDeleteNode` | `NodeList` | `ChangePage`, `ChangeSize`, `Refresh`, `Delete`, `Served`, `DeleteOk`, `DeleteFails`, `CountNodes`, `FindPage`, `PageOk`, … |
| `NodeDetailPage` | `NodePage` | `Open`, `SelectTab`, `NodeOk`, `NodeFails`, `Away` |

Every page also has `Pause` and `Reconnect` for its queries (in `MetricsTab`
`PauseLatest` and `PauseHistory`).

`AgentsTab`'s `expected` is the last change known from a call that was answered to a
mounted tab with a list. Of a page's total `NodeList` keeps whether there are more
rows (`more`), counted in `CountNodes`; the rows come in `FindPage`, a statement of
their own. In `AgentLogs` an agent's lines are those it has logged. At this commit the
Manager answers every valid request for logs with "not implemented yet"
(`manager/internal/service/agent.go:436`; `Detail.tsx:1097` expects it), so no line
reaches the screen: `LogsOk` is the dialog's side of an answer that a Manager able to
give one would send, and no fairness asks for it.

`WebConsole` puts the pages side by side. A step of one page neither reads nor
writes another's variables: each has its own keys in the cache and its own
component state. What pages do to each other (leaving and returning, hiding the log
dialog with its tab, changing the refresh interval of the shared store, changing
the list under the charts) each page's module has as an action that may always
happen, so a page alone has at least the behaviours it has among the others. A
behaviour of `WebConsole` therefore follows one page, `focus`, chosen at the start;
interleaving the pages would multiply the states and add nothing to any property,
each of which speaks of one page. `samples`, `lines` and `rows` stand for what
agents, Daemons and Manager change meanwhile.

Data left out: points, log lines (only how many), field values but those that
thresholds compare. The four histories of a tab behave alike; `MetricsTab` has one,
`AgentCharts` a set of them. The dashboard's alerts and ranking are sets that
`Sorted` puts in order by how many of their members come before each, which is what
a stable sort does; the alerts of a node are three at most.

Definitions whose comment says *mutant* are variants of an action with a
plausible mistake; no specification uses them. Each property has one in
`PROJECT.json` with which it fails under its own run's configuration.

## 3. Runs

| Run | Configuration | Shows | States |
|---|---|---|---|
| `agent_safety` | two operators that may give up, boot, checker, two PIDs | `PidTracksProcess`, `RunningHasProcess`, `StopOwnsProcess`; a live process is abandoned only by a stale waiter; the instance implements `Supervision` | 4.5 M |
| `agent_live` | one operator (stop, restart), boot, checker, two PIDs | calls return; a dead agent comes up again | 124 k |
| `metadata` | one of each goroutine, channel and pool of 1, batch of 2, three requests, two heartbeats | the writer implements `RequestLog`: order, exactly once, drained at stop; heartbeats accounted for; stop and callbacks end unless the store is locked for good | 536 k |
| `state_sync` | two changes or restarts, two attempts per call, any row of an earlier Daemon | after the last disturbance two successful syncs suffice | 6.6 M |
| `state_sync_live` | one change or restart, one attempt per call, any row of an earlier Daemon | convergence, unless a stuck callback keeps the syncer out | 642 k |
| `daemon_client` | two callers, `CloseAll`, two client objects | one open client, rebuilt by one goroutine; deadlock only through a monitor's read lock | 5.1 M |
| `web_session` | two tabs, one user, two tokens | what is stored is whole; only the user, a new document or another token's refusal ends a live session; an expired one ends on a page that polls; the tabs implement `Session` | 132 k |
| `web_console` | two agents and two nodes; two changes or calls; one metric, three ranges; two pages of two nodes; overviews of up to two nodes on both sides of every threshold | per page: operations are shown and the list never goes back; logs, charts, rows and tabs are of what was asked for; the worst is shown first and "normal" is true; messages and error views pass; requests for logs are answered, cards follow | 253 k |
| `stop_sticks`, `single_process`, `update_returns`, `reconnect_returns` | as small as the disagreement allows | see section 5 | |

Why the bounds are enough. *Agent*: a hazard is a goroutine acting on what it read
before others moved; with the checker, boot and two operators four goroutines are
under way, one more than any hazard needs, and two PIDs let a new process coexist
with an old waiter and let a PID be handed out again. The liveness run has one
operator, because a second adds only more holders of the same lock. *Metadata*: a
channel of 1 is full after one request, a batch of 2 is filled, flushed by the
ticker and flushed half full at the stop; three requests put one in the store, the
batch and the channel at once. *StateSync*: one change has an old and a new report,
a second one makes reports of three ages; longer histories only add more stale
reports of the same two kinds. The liveness run bounds the retries inside a call to
one because a failed call is repeated by the next round anyway. *DaemonClient*: the
second client object replaces the first while a caller holds it; a third would stand
to the second as the second does to the first. Two callers compete for the write
lock, with the closer third. *WebSession*: two tokens are a session and the one
before or beside it, which is all that a late answer or another tab can confuse; a
second user would differ from the first only in name, which `SetAuthKeepsUser` shows
is not needed to catch a mix-up of user and token. *WebConsole*: two changes or
calls in the agents tab make a list that is older than the last operation and one
that is newer; the properties of a list relate one answer on the screen to one under
way. `AgentsTab` looks at one agent, because the code treats the list as a whole.
Two agents give the log dialog and the charts something to mix up; three ranges are
the first, another and the first length again under a new key. In `NodeList` two
nodes on pages of one or two rows make a page that empties and one that moves up;
`MaxVisited` is two because an entry nobody has visited is empty. On the dashboard
the panel holds two alerts and the ranking one node, so that both cut off. A range
may be too long, empty, backward or have an invalid end. The bounds of the pages are
given in `WebConsole`, those of the dashboard in the configuration, because the
proofs hold for all of them.

Deadlock is checked in the agent and state-sync runs. It is not in `metadata`,
where the system stops by design (and where the self-deadlocked update stops it by
mistake), nor in `daemon_client`, where the lock described in section 5 can leave
nothing to do; there `OnlyMonitorsBlock` states what deadlock checking would, less
the one known cause. It is checked in `web_session` and not in `web_console`, where
a page whose bounds are used up may come to rest.

`TwoSyncsSuffice` and `Converges` use `RowIsCurrent`, which leaves out the PID of
a stopped agent: `repository/agent.go` omits a zero PID from its update, so a row
keeps the last one unless the stop came through the Manager.

### Fairness

Fairness is on steps the program or the kernel takes by itself: goroutines run (Go
is preemptive), tickers and timeouts fire, `SIGKILL` and `wait4` take effect.
Strong fairness on goroutines that want a mutex stands for `sync.Mutex`'s
starvation mode, which hands the lock to a waiter of more than 1 ms, and for the
queueing of `sync.RWMutex`. `select` picks uniformly among ready cases, hence
strong fairness of `BeginDrain` and `WorkerExit`. Nothing makes operators call,
agents exit, heartbeats arrive or spawning succeed. In `StateSync` calls may fail
any number of times in a row but not for ever; without that no row can converge.
A syncer that waits for `ss.mu` behind a stuck callback is not asked to move.
In `DaemonClient` a connection attempt ends, gRPC retries, and no connection
outlives the Daemon's `MaxConnectionAge`.

In the web modules timers fire (`Poll`, `TimerFires`), a tab that set
`window.location` is replaced and a guard redirects. Strong fairness of reading and
answering says that of the requests a page makes again and again one is answered
some time, and in `WebSession` that one is refused; without it no page can follow
anything. For logs an answer is lines or an error, which the timeout of the request
gives if nothing else does. A browser that is offline comes back (weak fairness of
`ResumeStep`), an assumption about its surroundings. Only pages that poll ask by
themselves: an expired session on a page that does not poll stays until the user
acts, and `ExpiredSessionEnds` does not say otherwise. Nobody presses refresh, retry
or close.

## 4. Proofs

`AgentInstanceProofs` proves for every number of operators, checkers and
processes, from `AgentAssumption` alone (goroutine and process names are distinct
from each other's nil, `Boot` is neither operator nor checker, the cap is
positive):

- `TypeCorrect`: `Spec => []TypeOK`. `TypeOK` is inductive; one step per action.
- `Safety`: `Spec => []Inv`, where `Inv` is `PidTracksProcess`,
  `RunningHasProcess`, `HandleIsFresh` and `StopOwnsProcess`. None of them is
  inductive without the others: `PidTracksProcess` survives `StopSignal` because
  the process the PID names is the one held, `HandleIsFresh` survives `StopDone`
  and every step in `Stop`'s wait only because `StopOwnsProcess` says that whoever
  waits has the lock and a process, and this needs that every other writer of
  `process` takes `mu`. Together with `TypeOK` they are.
- `AbandonedByStaleWaiter`: the action property `AbandonedOnlyByStaleWaiter`, from
  `TypeOK` and `Inv` before each step. It is the strongest form of
  "never abandon a live process" that the code satisfies; `SingleProcess`, the form
  its tests expect, fails (below).
- `Refinement`: `Spec => RefinesSupervision`. Most steps stutter; `LifeSteps` says what
  exit, `wait4` and spawning do to `Life`, `HoldsLive` what `Exists` asks before a
  spawn. `Inv` is needed where `Stop` acts on a process it has not looked up itself:
  `StopSignal` stores the process it found by its PID, which `PidTracksProcess` says
  is the one held already, and `StopKill` kills the one held, of which
  `StopOwnsProcess` says that there is one. Where a stop leaves a live process alone
  (`StopNothing` without a PID) `Supervision` says so.

`PidTracked`, `RunningHeld`, `HandleFresh` and `StopOwns` state the four parts of
`Safety` by themselves. `HandleIsFresh` (no handle of a PID that is free again) is
proved and not listed in a run: a step that breaks it is no step of `Supervision`.

`WebSessionProofs` proves for any tabs, users and number of tokens, from
`WebSessionAssumption` (`None` is no user and no token, the bound is a number):

- `TypeCorrect`: `TypeOK` is inductive.
- `Wholeness`: `SessionIsWhole` is inductive given the types: every write of a
  session writes user and token together, to the store and to the storage; a
  sign-in uses a token nobody owns, so no session held elsewhere changes its owner.
- `KeptWhileLive`: `LiveSessionKept`, by cases on the steps; the Manager's refusal
  of a token (`Replies`) is the one fact it needs.
- `Refinement`: `Spec => RefinesSession`. Initial states map to initial states; a
  sign-in, a clearing and a hydration map to a step of `Session`, everything else
  to a stutter.

`WebConsoleProofs` proves for any agents, nodes and `MaxCalls`, with the other
bounds as `WebConsole` sets them, from `WebConsoleAssumption` (`None` and `Invalid`
are no values, the first agent is one, figures are numbers, the panels have room), one
inductive invariant per page, each strengthening the property by what is still under way:

- `OperationsShown`, `ListsGrow` from `Shows`: an answer read for the list is no
  older than the list, no newer than the rows, and, from the moment a success has
  begun a fetch, no older than the operation.
- `LogsOwn` from `Own`: an answer under way under an agent's key is that agent's.
- `ChartsOwn` from `Drawn`: an answer under a key of the present range is of the
  key's agent and metric and of the present preset, and a selection is the pick or
  the first agent.
- `HistoryOwn` from `Plotted`: the range in the store is legal or not real, the
  history has the points of that range or none, and none if the range is not real.
- `DeletedGone` from `Tidy`: a node whose deletion was answered is no longer in the
  Manager's rows, and an answer read for the page shown no longer has it.

`WebPagesProofs` extends it, from the same assumption, by what pages show and by
the types:

- `ShownAsAskedHolds`, from `Routed` and `Paged`. `Routed`: the data under a node's
  key are that node's or none, so what the page mounts is the route's. `Paged`: an
  answer under the key of a page and a size, applied or under way, fits both, also
  between its count and its rows. That an answer fits is a fact about the Manager's
  page (`PageFits`): its rows are nodes with different ranks inside the page's
  interval, so there are no more of them than the interval has numbers.
- `TypeCorrect`, from `Types`: the typing of the queries is kept by each operator of
  `Query`, so each page has one lemma about its queries (`…Queries`) and one step
  per action. The type invariant of `AgentsTab` is not inductive: timers and calls
  are bounded because each belongs to a call once sent (`Counted`); that of
  `MetricsTab` needs that a preset's range is one of the ranges; that of `NodeList`
  needs `Paged`.

`WebDashboardProofs` proves what the dashboard's panels show, from the same
assumption, for overviews of any number of nodes with any figures, any room for
alerts and any length of the ranking:

- The sort needs no induction over lists. If "comes before" orders a finite set (for
  two members, the ones before one are all before the other, and it is too),
  `RankInOrder` counts the members before each and shows that the larger count comes
  later, that no two have the same and that each number below the cardinality is
  one's count; `SortedInOrder` concludes that `Sorted` has every member once, in
  order. `FoundInOrder`, `AlertsInOrder` and `RankedInOrder` show that the order in
  which the code finds alerts, the panel's and the ranking's are such orders.
- `WorstFirstHolds` follows from the type invariant of the page alone, with `Coloured`
  for the two sets of thresholds: whatever overview is there, it is one the Manager
  may give or none.
- `NormalIsTrueHolds` needs `Accounted`, which adds that a query without data is
  being fetched, waits for the network, or has failed: an empty panel means that there
  are no alerts (`NoPlaces`), or no data and an error beside it, or the one exception
  the property names, a first fetch that waits for the network.

`MetadataPipelineProofs` proves for any goroutines, capacities and bounds, from
`MetadataAssumption` (goroutines are distinct, capacities positive, workers and
handlers finite sets, as they are in a running process and as counting them needs),
one invariant for the requests and one for the heartbeats:

- `RequestInv` says, one request at a time, what `AppliedInOrder` says of the
  concatenation: the numbers in store, batch and channel continue each other
  (`InOrder`). It needs what the writer has in hand at each of its labels
  (`WriterShape`: a batch that is being flushed is not empty and one in `select` is
  not full), without which a flush takes the head of nothing, and `DrainShape`: the
  last flush begins only when the channel was found empty after the stop, so that
  store and batch have all that was accepted before it. From it follow
  `AppliedInOrderHolds`, `DrainedAtStopHolds` and, with the lemmas that what waits
  is `Numbers(m, n)`, the step of `Refinement`: `Spec => RefinesLog`.
- `BeatInv` is `BeatsAccounted` with the types of its counters; a worker or handler that
  moves in or out of the sets counted changes their cardinality by one
  (`WorkerBegins`, `HandlerEnds`, …). `BeatsAccountedHolds` follows, and
  `TypeCorrect` from both.
- `FrozenUnderLockHolds`, an action property, by cases on the steps: every step that
  writes a record or hands one over has `holder = None` in its guard; the one that
  keeps the lock cannot do either, because `InnerSave` wants it again.

`StateSyncProofs` proves, from `StateSyncAssumption` (PIDs are positive, the three
kinds of writers distinct, the cap on attempts positive, nil is no report),
`TypeCorrect` and `TwoSyncsSufficeHolds`. `TwoSyncsSuffice` counts successful syncs
since the last disturbance, so its invariant follows the report from the agent to
the row: status and PID agree except between the two writes of a change
(`AgentWhole`); after one clean round only the current report can be pending
(`PendingFresh`) and every round under way is clean (`RoundClean`); a clean round has
read the status the agent has (`ReadFresh`), so the second one sends what is current
(`SentFresh`), and that is what the Manager has written when it answers
(`ServedFresh`). `CallOpen` ties the request to the syncer that waits for it,
`OperationHasRow` an operation of the Manager to the row it changes.

`DaemonClientProofs` proves, from `DaemonClientAssumption` (callers, closers and
clients are distinct from nil, callers from closers), `TypeCorrect`,
`OneOpenClientHolds` and `RebuiltAloneHolds`. The inductive invariant ties each lock
to the label of its holder, in both directions (`LockHeld`, `PoolHeld`): a client is
dialled or closed only under its write lock, the entry replaced only under the
pool's, and the monitor never waits while somebody dials (`DialAlone`), which is what
the read lock in `monitorConnection` buys. `OnlyMonitorsHalt` uses it to prove
`Halted => \E c \in Clients : Stuck(c)`, with `Halted` as a plain formula: no caller,
no closer and no monitor has a step it may take. It follows the waits: a thread that
cannot move waits for a lock, the pool's holder for a client's, and the holder of
that for a monitor that waits on a connection. `HaltIsForEver` adds that it is no
delay, `Spec => [](Halted => []Halted)`: every step of a caller, a monitor or gRPC is
one that `Halted` rules out (`CallersMayMove`, `ConnectionsMayMove`), and a caller
that comes later finds the entry locked (`EntryIsLocked`), since the client the
monitor is stuck with is not closed and so is the entry (`OneOpenClient`).

Only model-checked, and why:

- All liveness properties (`CallsReturn`, `Recovery`, `StopReturns`,
  `CallbackReturns`, `Converges`, `ExpiredSessionEnds`, `NothingSticks`,
  `LogsAnswered`, `CardsFollow`): fairness is out of the prover's reach.
- `OnlyMonitorsBlock` speaks of `ENABLED`; TLC checks that a deadlock is `Halted`,
  and `OnlyMonitorsHalt` and `HaltIsForEver` prove the rest.

No module declares a recursive operator, so all can be proved about.

## 5. Where the code and what the repository says of it differ

1. **`StopSticks`** — `instance.go:33` says `manuallyStopped` keeps the health
   checker from restarting an agent that was stopped by hand. `Restart` clears the
   mark when it starts the process, and the checker reads it before its backoff or,
   over a threshold, not at all; a stop in between is undone.
2. **`SingleProcess`** — the waiter goroutine clears process, PID and status of the
   instance whatever process it holds by now; if `Restart` has started the next one
   it goes on unsupervised and another is started beside it. The test at
   `instance_test.go:662` wants a single process.
3. **`UpdateReturns`** — `UpdateMetadata` of an existing record locks `f.mu`, then
   calls `SaveMetadata`, which locks it again, and never returns. The test at
   `metadata_store_test.go:172` expects it to.
4. **`ReconnectReturns`** — `monitorConnection` keeps `c.mu` read-locked inside
   `WaitForStateChange`; when the connection has gone idle, `ensureConnection`,
   which `daemon_client.go:115` says reconnects it, waits for the lock for ever.

The passing properties are stated around these: `AbandonedOnlyByStaleWaiter` is 2
turned into a bound on the damage, `StopReturns`, `CallbackReturns` and
`FrozenUnderLock` say that nothing but 3 keeps the pipeline from ending, `Converges`
that nothing but 3, through a callback stuck in the locked store, ends the syncs,
`OnlyMonitorsBlock` that nothing but 4 deadlocks the pool.

Noted but not checked: when the agent dies by itself the waiter has usually written
`stopped` before the checker looks, so `UpdateAgentStatusWhenProcessExits` returns
early and nobody is notified; the Manager learns of it from the next round of
`syncLoop` (`StateSync` has no notification it relies on).
`MultiHealthChecker.ReceiveHeartbeat` has no caller, so the verdict for missing
heartbeats does not occur and is not modelled.

In the front end, likewise met while modelling it, kept in the models and named
where a property is stated around them:

- Invalidation gives up neither a first fetch, which has no data yet, nor one of a
  page nobody looks at, and a fetch begun before it takes the mark off again: a
  deleted node, or the list from before an operation, can show once more
  (`useNodes.ts:53`, `Detail.tsx:580`, `:602`). The list of nodes does not poll.
- A refusal ends whatever session the tab has by then, and empties the storage that
  the other tabs load from (`interceptors.ts:45`, `:63`). A wrong password is a 401
  as well: the page reloads and its message is lost. A logout leaves the query cache
  (`MainLayout.tsx:63`). Storage that cannot be read leaves a spinner
  (`authStore.ts:70`); the model's storage can be read.
- The three-second timer of one message also clears the next (`Detail.tsx:589`,
  `:607`); a tab mounted anew enables its buttons while a call is under way; a call
  that is served but whose answer is lost refreshes nothing.
- Time windows are fixed when they are chosen (`metricsStore.ts:18`,
  `Detail.tsx:507`), so an automatic refresh brings no newer points. A pause does
  not stop the poll of the latest metrics (`useMetrics.ts:21`); timer and countdown
  both refresh. A failed history shows as "no data".
- A failed background poll replaces the whole tab, its dialog included; the error of
  the node's page has no retry. Errors of the list of nodes and of a deletion are not
  shown, and the page number stays beyond the end when the last row of the last page
  goes.
- An invalid date passes the checks of the custom range (`TimeRangeSelector.tsx:126`).
- Colours turn red at exactly 80 and 95, where the comments say above
  (`metricsUtils.ts:11`, `:39`). The alerts panel says that all nodes run normally
  when the overview could not be loaded; the error stands above it.
- A fetch that waits for the network is neither loading nor failed
  (`App.tsx:17` leaves the network mode alone). Offline before the first overview the
  alerts panel says that all nodes run normally and no error stands above it
  (`AlertsPanel.tsx:84`), the one exception of `NormalIsTrue`; in the same way the
  list of agents and the log dialog look empty and the node's page finds no node.
- Total and rows of a page of nodes come from two statements without a transaction
  (`manager/internal/repository/node.go:92`): a node that registers between them
  makes a row beyond the total, which `ShownAsAsked` does not deny.
- `useClusterOverview`'s look at 401 (`useMetrics.ts:86`) is never reached: the
  interceptor has replaced the error.

Hazards of less weight than those in `PROJECT.json`, without a property: every start
leaves one more `periodicRotateCheck` goroutine (`instance.go:188`); requests that
reach the asynchronous writer after `Stop` are never written
(`async_metadata_writer.go:151`); a zero PID is left out of an update of the row
(`repository/agent.go:102`); a rotation renames a log the agent has open
(`log_manager.go:124`); the single-agent manager forgets a process it killed on a
timeout (`agent/manager.go:121`).

## 6. Not modelled, and the plan

Not modelled: collectors, metrics queries, the Manager's users and HTTP handlers
(I/O and SQL); in the front end charts, theme and text (values to pixels), and the
calls no page makes (registration, change of password, statistics). Tasks and versions are
constructed in `main.go` and served by no route; the configuration manager is
constructed by nothing. The forced stop is called by tests only.

Written, in this order: `AgentInstance` with its proofs, `MetadataPipeline`
with `RequestLog`, `StateSync`, `DaemonClient`; then `Session`, `WebSession`,
`Query`, the modules of the pages, `WebConsole`; then the proofs of each. Next:

1. `DaemonLifecycle` — `Daemon.Start` and `Stop`: `Stop` waits for the goroutines
   that serve gRPC and HTTP before it shuts those servers down; `StopAll`; the
   `comm` client.
2. `NodeLiveness` — registration, heartbeats and `CheckOfflineNodes` on one row,
   with the NULL time of a node that never sent a heartbeat.
3. The fields of a metadata record: who overwrites whose status, between the
   writer, the heartbeat workers and the resource monitor.
4. `LogRotation` (renaming a file the agent has open; the goroutines every start
   leaves behind), then the single-agent mode, then the clean-up of metrics as a
   pure module of date arithmetic, and `ConfigReload` if it is ever wired in.
5. Proofs: the safety of whatever module comes next. Of the safety properties
   checked now all but `OnlyMonitorsBlock`, for its `ENABLED`, have a theorem.
