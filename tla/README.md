# Formal model of the BACnet bridge

TLA+ specifications of `bacnet-bridge`, the TLC configurations that check them on
small instances, and TLAPS proofs of what must hold for every instance. The code
is the reference: each definition translates the lines that `PROJECT.json`
gives for it under `map` (paths there start with the name of the repository's
directory, `src/`; so `src/src/router_cmd.rs` is the binary's `router_cmd.rs`).

## 1. The system

A bridge joins a building's BACnet/IP network to a remote one, either through a
BACnet/SC hub ("sc") or through a VPN ("tailscale"). One process holds:

| Component | State it keeps | Operations | Talks to |
|---|---|---|---|
| Application state machine (`state.rs`) | one watched value: Stopped, Starting, Running, Stopping | `try_transition`, `current`, `subscribe` | watched by the web gates and the tray |
| Router process (`router_cmd.rs`, `router.rs`, `main.rs`) | the running router, the handle of its BBMD table, the command channel, the embedded hub | launch, initial start, Start, Stop, SwitchTransport, Exit, Ctrl-C | state machine, configuration, channel |
| Web API (`web/api.rs`, `web/mod.rs`) | none of its own; shares the configuration, the channel's sender, the device table, the logs | command handlers with a state gate, `GET`/`PUT /api/config`, hub mode, status, FDT, logs | everything above |
| Tray (`tray.rs`) | icon, menu | sends commands without a gate, shows the state | channel, watch |
| Local BACnet device (`local_device.rs`) | three commandable points, the cache of read answers | ReadProperty, WriteProperty, SubscribeCOV, Who-Is | the router, by two channels |
| Foreign device table (`fdt.rs`) and its task | the copied entries and their ages | `add`, `tick`, `list`; a copy of the BBMD every 2 s | BBMD of the running router, through the handle |
| Configuration (`config.rs`) | the TOML file; the copy in memory behind an `RwLock` | load, override, save | router process, web API |
| Logs (`logbuf.rs`, the socket of `api.rs`) | a ring of 1000 entries | push, recent, send the last 50 every second | dashboard |
| Remote transports (`transport.rs`, `sc_transport.rs`, `bbmd_transport.rs`) | in the BACnet stack | constructed by a start | stack (outside the repository) |
| Hub, serve mode, command line, dashboard page (`hub_cmd.rs`, `serve_cmd.rs`, `cli.rs`, `app.js`) | the dashboard: the configuration it loaded | see section 7 | web API |

What is hard to get right here, and hard to test:

- **Tasks interleave at every await.** A handler checks the state, waits for a
  slot of the channel, and its command is carried out in another state.
- **Starts fail.** What a failed start leaves behind decides whether the bridge
  can be operated at all.
- **Two listeners for one signal** when a hub is embedded.
- **Requests are retried, duplicated and reordered** on their way to the device.
- **A table is copied on a timer** from a router that is stopped and replaced.
- **Handlers are dropped** at whatever await they have come to when a client
  hangs up, with the locks they hold and the changes they have made.
- **Several locks are held at once**, one of them while the network connects.
- **Who watches the state looks at it now and then**, by a channel that keeps the
  last value only, or by requests whose answers are late, lost or overtaken.
- **Saves fail or are cut short**, and the same URL is held in memory, in the
  file and in a variable of the web server.

What makes each component correct: the *lifecycle* never runs two routers, never
forgets one, tells the truth about it and comes back to its loop; the *device*
answers the request in hand, the same way to a retry, with the value the
priority array dictates; the *device table* shows what is registered and forgets
what is gone; *tray and dashboard* come to show a state that stays; the *locks*
let everyone through; the *configuration* gets back what a mode change replaced, and a
writer gets its turn.

## 2. The modules

| Module | Models | Proofs |
|---|---|---|
| `AppStateMachine` | abstract: what watchers of the state may rely on | in the module |
| `RouterLifecycle` | the router process with web gates, channel, tray, Ctrl-C, embedded hub | `RouterLifecycleProofs` |
| `LocalDevice` | the local BACnet device and its requesters | `LocalDeviceProofs` |
| `CachelessDevice` | abstract: what the local device promises its requesters, as if it kept no cache | |
| `FdtSync` | the device table, its task, the BBMD and the routers that come and go | `FdtSyncProofs` |
| `TailscaleFdt` | `FdtSync` with the second BBMD, that of the Tailscale transport | |
| `ConfigStore` | the configuration in memory and in the file, hub mode, dashboards, crashes | `ConfigStoreProofs` |
| `StateWatchers` | the tray's icon and the dashboard's status, watching the state | `StateWatchersProofs` |
| `SharedLocks` | the locks of the main task, the table's task and the web handlers | `SharedLocksProofs` |
| `RouterHandles`, `TaskPhases` | abstract: what the main task does to the handle of the BBMD; what handlers can tell of the main task | |
| `MC...` | instances for TLC | |

**How they compose.** `RouterLifecycle` puts together the state machine, the
loop, the gates, the tray menu and the channel. The other components see a part
of it only, and each part is an abstract module that `RouterLifecycle` is shown,
and proved, to implement:

| Abstract module | Refinement mapping | Built on it |
|---|---|---|
| `AppStateMachine` | `live <- (Live # {})` | `StateWatchers`: `Move` is any step of it |
| `RouterHandles` | `runs`, `handle` are the ids of `Live` and of `bbmdHandle` | `FdtSync`: its `StartRouter`, `Publish`, `StopRouter` are the abstract actions with the BBMD's tables added |
| `TaskPhases` | Stopping counts as Stopped; the phase is `pc` within a start | `ConfigStore`: its main task is the abstract one with the configuration added |

So what those three modules assume of the main task is what the main task does:
no step of the lifecycle falls outside it. And what the abstract machine promises
the lifecycle keeps: `AnnouncedTruly` is the abstract `StateTellsRouter` under the
mapping.

The fourth refinement is within a component. `LocalDevice`, with its cache of
answers by invoke id, implements `CachelessDevice`, which has none and tells every
request from every other. The mapping gives each answer sent to the request it
answers (`Given`), and the last turn's answer to the last request (`Last`). The
abstract device acknowledges a read once, with the value of a moment at which the
request had been made; repeats it to whoever asks again; carries out a write each
time it arrives; and refuses a request each time or never. Which requests are
refused, and that any is answered, are not its business.

**RouterLifecycle.** The main task is one process with a program counter; each
value of `pc` is an await of `run_router`: `select`, a router's `stop()`
(`stopping`), the write guard of a switch (`saving`), the read guard of a start
(`toStart`), `start_router` itself (`starting`), the handle's write guard
(`publish`). Between two of them any other task may move. `TryTransition` is
`try_transition(..).ok()`, which ignores a refusal, and `Advance` is
`try_transition(..)?`, which ends the process; which of the two a line has
matters, and the model keeps it line by line. A handler of the dashboard is two
actions: `Request`, which takes the gate, and `Send`, which waits for a slot.
`Disconnect` drops a handler whose client hung up.

**AppStateMachine** is the abstract specification of the state channel. In the
refinement mappings, `Live` is the router in `running` or in a handler's local
variable.

**LocalDevice.** The device's task handles a request in one step, since it takes
the next one from the channel only after it has answered. `requests` holds every
request ever made and `Handle` may take any of them at any time: that is loss,
duplication and reordering together. A value of a point is a member of `Values`,
an option a set with at most one member. A "garbled" property is an identifier
the decoder refuses; `ok` says whether the value written parses.

**FdtSync.** Time is in seconds; `Second` ages every entry. The task's round is
four actions, because the BBMD's lock is released between the copy and the
additions. The BBMD is external: the model takes from the calls what it does
(`fdt()` purges and returns). `since` and `gone` record how long a device has
been registered or away, for the properties only.

**ConfigStore.** A writer's change and its save are one step, because the write
guard is held throughout; a save may succeed, leave the file, empty it or tear
it. `CrashInSave` kills the process between the truncation and the write.
`left` records the URL embedded mode was entered from, for the properties only.
A hub mode switch is two actions, gate and change, because the handler waits for
the guard between them; `HangUp` drops the handler there, or at its last await
(api.rs:393, 401), when URL and file are changed and the mode is not: `GET
/api/hub/status` takes the mode's lock without the configuration's, so that
await can wait. Lifecycle states are those the hub mode gate distinguishes, so
Stopping is merged with Stopped.

**StateWatchers.** The watch channel is its value and one bit, `unseen`: whether
something was sent since the receiver last looked. `has_changed()` and
`borrow_and_update()` are two steps, and setting the icon a third. A page has
`Requests` status requests under way at a time; each is sent, answered with the
state of that moment, and shown or lost, in any order relative to the others.
The buttons are those `updateTransportButtons` enables, and the `finally` of
`switchTransport`, which enables one without a look at the state.

**SharedLocks.** What a task does is data: a script of the guards it holds at
each await. `Status`, `Put`, `HubMode`, `Round`, ... are the scripts of the
functions they are named after; the actions `Begin`, `Continue`, `Granted`,
`Finish` and `HangUp` run any script under tokio's rules (first come, first
served; readers do not overtake a waiting writer; a dropped future releases what
it holds and leaves the queue). The guards held across a step of a script are
those of both its ends: a guard that Rust keeps alive longer than its statement
(the `if let` over `sync_bbmd.read().await`, the temporaries of a match) is in
the script for as long as it lives. Of the hub URL and the hub mode the module has
the reads and the writes: a switch of the mode sets the URL where it gets the
configuration's guard and the mode where it gets the mode's, a `PUT` sets the URL,
and `Status` reads the mode and then the URL. `fresh` is what a status handler has
read and nobody has written since. The values are left out; that the two a status
shows *belong* together is not claimed, and is not true: a `PUT` sets any URL, and
a client that hangs up at api.rs:393 leaves localhost in cloud mode.

## 3. The runs

Passing runs:

| Run | Instance | Shows |
|---|---|---|
| `lifecycle` | hub, tray, two clients, channel of 1, fairness | `HandleMatchesState`: in `select` the state is Running exactly when a router is up. `OneRouter`: no start begins beside another router. `CleanExit`: neither Exit, Ctrl-C nor a `?` abandons a router. `FreshHandle`: the FDT task reads the table of the running router. `AnnouncedTruly`: at every await, Running and Stopping are announced of a router that is up, and Stopped of none. `OnlyShutdownEnds`: nothing but Exit, Ctrl-C and a hub that cannot bind ends the process; no Stop, Start, Switch or failed start meets a `?` that refuses. `OnlyPutMisreports`: nothing but a `PUT` of the configuration makes `/api/status` report another transport than the router's. `WedgeIsPermanent`: what a failed start leaves is left only by the end of the process or the tray's ungated switch. `RequestsAnswered`, `StopFinishes`, `LoopReturns`. `ImplementsAppStateMachine`, `ImplementsRouterHandles`, `ImplementsTaskPhases`. |
| `watchers` | tray, a page with two requests under way, any life of the state, fairness | `TrayIsCurrent`: the tray loses no state sent between its steps. `IconTellsRouter`: so a green icon has a router behind it. `TrayCatchesUp`, `DashboardCatchesUp`, `ButtonsCatchUp`: a state that stays is shown in the end, and the buttons are those of that state time and again. |
| `locks` | two handlers beside the main task and the table's task, fairness | `NoDeadlock`: no set of tasks wait for one another, in their locks or in the queues. `NoOvertaking`: whoever waits comes to wait for nobody he did not wait for before. `StatusIsSnapshot`: what a status handler has read of the hub mode and the hub URL nobody changes until it answers, and the two are never those of the two sides of a switch under way. `EveryoneFinishes`: no stream of readers or writers starves anybody. |
| `local_device` | a requester, three ids used once each, a point with two priorities, fairness | `AnswerIsForRequest`, `RetrySeesFirstAnswer`, `HighestCommandWins`, `EveryRequestAnswered`, `ImplementsCachelessDevice`. |
| `fdt_sync` | a device, times to live 1 and 2, grace 2, period 2, slack 1 | `RegisteredIsShown`, `TtlIsCurrent`, `GoneIsForgotten`. |
| `config_store` | two clients that may hang up, a dashboard, two transports, a cloud URL, fairness | `EmbeddedIsReversible`, `HubRoundTrip`, `HubModeIsServed`. |

Runs that find the disagreement they look for (`findings`):

| Run | The code | The document |
|---|---|---|
| `idle_operable` | a failed start leaves Starting, where every gate is closed: there is no transition from Starting to Stopped and its refusal is ignored | "Dashboard available for configuration", and the table of FSD 8.5 |
| `interrupt_obeyed` | Ctrl-C while the main task is not in `select!`, in the first start as in a command, stops the hub and not the process | FSD 6.1: block until exit signal |
| `retry_cache` | a reused invoke id is answered from the cache | the comment on the cache: duplicates |
| `cloud_url` | the localhost URL of `--with-hub` is saved with the next transport switch, and read back in cloud mode by a bridge started without it | FSD 13.4: shows the external URL |
| `tray_icon` | the tray's receiver takes the state it was made in for seen, so the icon of a bridge that started well stays red, "Stopped" | FSD 8.3: the color follows the router's state |
| `tailscale_fdt` | `start_router` keeps the BBMD of the LAN and drops that of the Tailscale transport, so what registers with the latter is never in the table | FSD 5.5, 11.3.4: the FDT of Tailscale mode is exposed |

Differences between the code and its documents that have no run: two more ways to
localhost in cloud mode (FSD 13.4), a client that hangs up on a switch to embedded
(api.rs:393) and a second switch to embedded, which remembers localhost as the URL
to go back to (api.rs:387); a hub mode request that passes its gate during a start
and is carried out under the running router (api.rs:379: "Cannot switch hub mode
while router is running"); a switch let
through while Running and overtaken by a Stop is carried out in Stopped (FSD 8.5
has the button disabled there); `/api/status` reports the configured transport,
which a `PUT` changes beneath the router (FSD 7.3: current router status);
`FdtManager::add` resets an entry's age every two seconds, so the remaining time
to live does not fall (FSD 5.5).

**Bounds, and why they are enough.** Channel: 1 slot makes the channel full and
senders wait, and lets one command overtake another, which has passed its gate
and waits; as the tray may send any command at any time, every sequence of
commands reaches the loop (the code has 32 slots, and the proof covers every
capacity). Clients: the second one is what lets a gate be passed while another's
command is under way. Routers: two
consecutive ones differ in a bit, and `OneRouter` says no more are alive.
Watchers: two requests are what lets an answer overtake another; the state's
life is not bounded. Locks: two handlers beside two tasks give every lock a
holder, a waiter and one behind it; the proof covers any number.
Device: two priorities have all the order there is between a higher and a lower
command, two values tell them apart, and the third request is the one that
falls between a request and its retry. The calls `EveryCall` have one member for
each case of each handler; the cfg of the retry cache uses the calls that move
the cache or the array. Time: the constants keep the order of the code's (slack
< period, slack <= grace), and `Never`, the cap of the two histories, is larger than the
largest bound a property mentions. Configuration: a second cloud URL adds
nothing the first and the default do not tell apart; crashes, restarts and
failed saves are not bounded at all. `cloud_url` leaves out the hub
mode requests, so that its shortest trace is the one of the finding and not that
of a hang-up. Symmetry is not used.

`CHECK_DEADLOCK FALSE` is set for the local device, whose requesters may have
used every id and need not retry, and for the watchers, where the process and the
tray thread end. The lifecycle's ended process is the action `Terminated`.

Each property of a passing run has a fault (`mutants`), seeded in the definition
it names, that makes TLC find it violated; the faulty definitions stand before
the right ones and say what they get wrong.

## 4. Fairness

- `WF(LoopStep)`: the runtime schedules the main task, and a router's `stop()`
  returns. Ctrl-C and commands are inputs and get none.
- `WF(StartReturns)`: `start_router` resolves. This is an assumption about the
  network, not about the code: the connection to the hub has no timeout of its
  own. Without it `LoopReturns` and `HubModeIsServed` do not hold.
- `SF(Send(c))`: tokio's channel queues its waiting senders in order, so a
  sender that could be served again and again is served.
- `SF(SwitchHubMode(c))`: tokio's `RwLock` is fair in the same way to a waiting
  writer.
- `WF(TrayStep)`, and for each page `WF` of asking again and `SF` of an answer and
  of showing one: the loop and the timer go round, the network does not lose
  every answer. The state itself owes nothing.
- `WF(RunOn(t))` of every task of `SharedLocks`: the runtime polls a future that
  can go on. `WF(StartReturns)` is the assumption about the network again.
- Local device: `WF` of handling each id's request. The device's task runs, and
  requesters repeat a request until they are answered.
- Users, clients, signals, crashes and restarts owe nothing.

## 5. What is proved

`tlapm` checks every leaf. The assumptions are those the modules name:
`QueueCapAssumption`, `FlagsAssumption`; `PriorityAssumption`,
`ValueAssumption`, `PointAssumption`, `CallsAssumption`; `TimeAssumption`,
`TTLAssumption`; `DefaultAssumption`; `HandlersAssumption`. Nothing is assumed about the size of any
set.

- **RouterLifecycleProofs** (any clients, capacity, flags): type correctness,
  the four safety properties, `OnlyPutMisreports`, `OnlyShutdownEnds`, the
  refinements of `AppStateMachine`, `RouterHandles` and `TaskPhases`, and
  `WedgeIsPermanent`. The properties speak of `select` and of the exit; to be
  inductive the invariant `LoopInv` says, for each await, what the state is and
  who holds a router. The part for `saving` is where the switch path is decided:
  it starts from Stopped *or* from Starting and holds no router in either. The
  refinements have one lemma per group of steps; that of the handles needs
  `IdInv` (the next router's id is not the one the handle still leads to).
  `WedgeIsPermanent` follows from `Stuck`, which each step but the end of the
  process keeps. For `OnlyShutdownEnds` each `?` of `run_router` is an `Advance`:
  `LoopInv` says that those of the first start, of Stop and of a finished stop
  cannot be refused, and those of Exit and Ctrl-C only where there is no router.
- **AppStateMachine**: `AnnouncedIsTrue`, an invariant of the abstract machine.
  `StateTellsTruth` carries it over to the lifecycle by the refinement alone, with
  no second look at the loop; `BridgeTellsRouter` does so for the watchers.
- **LocalDeviceProofs** (any requesters, calls, points, values, number of
  priorities): types; `RetrySeesFirstAnswer` from `CacheInv` (an acknowledged
  answer is the one in the cache, for ever); `AnswerIsForRequest` from
  `OnceInv`, under `UniqueIds`, which is exactly what `retry_cache` shows to be
  needed; `HighestCommandWins` from a lemma about the first priority given. The
  refinement of `CachelessDevice`, under `UniqueIds` too, needs `SentInv`: what is
  sent or cached is for a request that was made, and of the kind that follows from
  its call (`KindFor`). Then an answer from the cache is a repetition; a read that
  is not in the cache and not refused was never answered (`UncachedIsUnanswered`);
  and any other answer is given to its request and to no other (`GivenGrows`).
- **FdtSyncProofs** (any devices and times): types and the three bounds. The
  invariants follow the time of a round: `AgeInv` and `GoneInv` bound how old a
  copy may be while its device is away, `PublishInv`, `ShownInv` and `TtlInv`
  relate what is registered to the copy in the task's hands, the table, and the
  handle that is about to change.
- **ConfigStoreProofs** (any clients, dashboards, transports, URLs): types,
  `EmbeddedIsReversible` and `HubRoundTrip`. The invariant adds `LeftIsSaved`:
  while a URL is left to return to, it is the one the handler saved. `HangUpInv`
  is the case of the abandoned switch. `left` is empty after a second switch to
  embedded and after a hang-up, so `HubRoundTrip` says nothing of those.
- **StateWatchersProofs** (any pages and requests): types, `TrayIsCurrent`, whose
  invariant says of the value taken and not yet shown that it is the state or that
  something is unseen, and `IconTellsRouter` from it and the abstract machine.
- **SharedLocksProofs** (any number of connections): types,
  `StatusIsSnapshot` (guards that exclude one another are never both held; a
  status answer in the making has one that excludes every writer of the URL, and
  every switch between its URL and its mode), `NoDeadlock` and
  `NoOvertaking`. For `NoDeadlock`, `LockOrder` says that whoever waits with a guard
  in hand has one of an outer lock (configuration, handle) and waits for an inner
  one (mode, table). Of a set of tasks that wait for one another, take those that
  wait for an inner lock, or all if there are none: the one of them that asked
  first waits for nobody in the set. For `NoOvertaking`, `NobodyPasses` says what a
  step of x may not do to t, which waits: get before t in the queue
  (`QueuedLast`, `DequeuedInOrder`), or take a lock t wants unless x had asked for
  it first. A lock that is free is given to nobody while t waits for it, and one
  that is handed on goes to the first.

**Only model-checked:** the liveness properties, which need fairness and ENABLED
(`RequestsAnswered`, `StopFinishes`, `LoopReturns`, `EveryRequestAnswered`,
`HubModeIsServed`, `TrayCatchesUp`, `DashboardCatchesUp`, `ButtonsCatchUp`,
`EveryoneFinishes`), and the violations. Of some of them the safety half is proved,
and what is left is that a step which can be taken is taken: `LoopMovesOn` (each
await of the main task is nearer to its select than the last, so `LoopReturns` is a
matter of seven awaits at most), `StoppingIsAwaited` (nothing but the router's
`stop()` stands between Stopping and Stopped), `NobodyIsOvertaken` with
`NoTasksDeadlock` (whom a task waits for is a set that only shrinks, and never has
a cycle).

## 6. Abstractions to know of

- `start_router` is one step that succeeds or fails; what its transports do
  afterwards belongs to the BACnet stack.
- Of the configuration, the lifecycle has `router.transport` and `ConfigStore` also
  the hub URL: the two fields the bridge itself rewrites.
- Encodings of the device are left out; a property's value is the sequence of
  options it encodes. Who-Is announces the device and answers no id.
- The boot of the hub is one step; it may fail and end the process.
- Time in `FdtSync` is discrete, and a round of the task is assumed to end
  within `Slack` (it takes locks for moments and awaits nothing else).

## 7. Not modelled, and why

- **Logs** (`logbuf.rs`, `/api/logs` and its socket): nothing in the bridge writes
  to the ring, `push` has no caller outside its tests, so the stream the socket
  repeats is empty.
- **Transports' protocols and the hub** (`sc_transport.rs`, `bbmd_transport.rs`,
  `hub_cmd.rs`): thin wrappers of the stack, which is not in the repository.
- **Serve mode** (`serve_cmd.rs`): its state never changes and nobody reads its
  channel. The handlers are those of the router process; the one thing that can
  happen is a start that waits for ever for a slot, the hazard at line 29.
- **Pure conversions**: `epoch_to_iso`, the environment overrides of fields the
  bridge does not rewrite, the device's encodings. They have no state and no
  order of steps, and the tests of the repository call them directly.
- **The panels of the dashboard that only render, argument parsing, simulators,
  examples, Docker**: no state the bridge depends on.
- **Hazards no property covers**: that start; a crash in a save loses the settings
  (`config.rs:50`), a dashboard overwrites what another changed (`app.js:333`), a
  `PUT` that could not be saved stays in use (`api.rs:297`), and one between the
  save of a transport switch and its start decides the transport
  (`router_cmd.rs:269`). All of these happen in `ConfigStore` and
  `RouterLifecycle`, and no document excludes them. Two more happen in
  `ConfigStore` and section 3 lists them among the differences that have no run: a
  second switch to embedded (`api.rs:387`) and the hub mode gate (`api.rs:375`). The boundary of the expiry
  (`ttl + 30`, fdt.rs:114) is within the slack of the bounds on the device table.

## 8. Plan

1. *Done:* lifecycle, abstract machines and refinements; local device and its
   abstract device; device table; configuration store; watchers; locks; the proof of
   every safety property and refinement that a run checks.
2. If the ring gets a writer: `LogStream`, ring and socket with the last 50
   entries a second against a stream without loss or repetition (FSD 7.4).
3. Pure algorithms against reference definitions over bounded inputs:
   `epoch_to_iso` (civil dates), environment overrides.
4. A local device that lives across restarts of the router: a request under way
   when `stop()` aborts the device's task, and the cache that starts empty.
5. Two processes at one configuration file: `serve` beside the router.
6. The safety half of the remaining liveness properties: a handler that waits for
   the configuration's guard and the starts that may still come before it.
