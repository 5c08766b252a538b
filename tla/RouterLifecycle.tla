---------------------------- MODULE RouterLifecycle ----------------------------
(***************************************************************************)
(* The life of the router process started by `bacnet-bridge` (router_cmd.rs*)
(* with state.rs): the initial start, the select loop that serves the      *)
(* command channel and Ctrl-C, the web handlers that gate and enqueue      *)
(* commands (web/api.rs), the tray menu (tray.rs) and the embedded hub's   *)
(* own Ctrl-C listener.                                                    *)
(*                                                                         *)
(* The loop is one task: between two of its awaits every other task may    *)
(* run, so each await is a value of pc.  An Option is a set with at most   *)
(* one element.  The command SwitchTransport(m) is represented by m.       *)
(***************************************************************************)
EXTENDS Integers, Sequences

CONSTANTS
    Clients,      \* connections to the dashboard, one request at a time each
    QueueCap,     \* capacity of the command channel (32 in the code)
    WithHub,      \* the --with-hub flag
    TrayEnabled   \* the windows-tray feature

ASSUME QueueCapAssumption == QueueCap \in Nat \ {0}
ASSUME FlagsAssumption == WithHub \in BOOLEAN /\ TrayEnabled \in BOOLEAN

Modes == {"sc", "tailscale"}
Transports == Modes \cup {"other"}      \* router.transport is not validated
AppStates == {"Stopped", "Starting", "Running", "Stopping"}
Commands == {"Stop", "Start", "Exit"} \cup Modes

\* A started router.  Two consecutive routers differ in id, and no more than
\* one is ever up, so one bit tells a router from its predecessor.
Instances == [mode : Modes, id : {0, 1}]

VARIABLES
    appState,       \* the state watch channel
    pc,             \* where the main task is
    cmd,            \* the command it is handling
    running,        \* its `running: Option<RunningRouter>`
    local,          \* the router a handler holds in a local variable
    nextId,
    bbmdHandle,     \* id of the router whose BBMD table the FDT task reads
    cfgTransport,   \* router.transport of the shared in-memory configuration
    file,           \* router.transport in the configuration file
    queue,          \* the command channel
    pending,        \* [Clients -> the command a handler has let through its gate]
    hub,            \* the embedded hub
    exit            \* how the process ended

routerVars == <<running, local, nextId, bbmdHandle>>
configVars == <<cfgTransport, file>>
vars == <<appState, pc, cmd, routerVars, configVars, queue, pending, hub, exit>>

PCs == {"launch", "boot", "select", "stopping", "saving", "toStart",
        "starting", "publish", "exited"}

TypeOK ==
    /\ appState \in AppStates
    /\ pc \in PCs
    /\ cmd \in Commands \cup {"none", "Interrupt"}
    /\ running \in SUBSET Instances
    /\ local \in SUBSET Instances
    /\ nextId \in {0, 1}
    /\ bbmdHandle \in SUBSET {0, 1}
    /\ cfgTransport \in Transports
    /\ file \in Transports
    /\ queue \in Seq(Commands)
    /\ Len(queue) <= QueueCap
    /\ pending \in [Clients -> SUBSET Commands]
    /\ hub \in {"absent", "up", "down"}
    /\ exit \in {"none", "ok", "error", "killed"}

-----------------------------------------------------------------------------
(* The state machine of state.rs. *)

\* Seeded fault: the row Starting -> Running is forgotten.
LegalRowForgotten(from, to) ==
    <<from, to>> \in { <<"Stopped", "Starting">>,
                       <<"Running", "Stopping">>, <<"Stopping", "Stopped">> }

Legal(from, to) ==
    <<from, to>> \in { <<"Stopped", "Starting">>, <<"Starting", "Running">>,
                       <<"Running", "Stopping">>, <<"Stopping", "Stopped">> }

\* Seeded fault: the state is sent without consulting the table.
TryTransitionUnchecked(to) == appState' = to

\* state.try_transition(to).ok()
TryTransition(to) == appState' = IF Legal(appState, to) THEN to ELSE appState

\* state.try_transition(to)? -- an illegal transition ends the process.
Advance(to, next, outcome) ==
    IF Legal(appState, to)
    THEN appState' = to /\ pc' = next /\ exit' = outcome
    ELSE UNCHANGED appState /\ pc' = "exited" /\ exit' = "error"

-----------------------------------------------------------------------------
(* Initial start. *)

\* The file was loaded; --transport may have replaced the in-memory value.
Init ==
    /\ appState = "Stopped"
    /\ pc = "launch"
    /\ cmd = "none"
    /\ running = {} /\ local = {} /\ nextId = 0 /\ bbmdHandle = {}
    /\ file \in Transports
    /\ cfgTransport \in {file} \cup Modes
    /\ queue = <<>>
    /\ pending = [c \in Clients |-> {}]
    /\ hub = "absent"
    /\ exit = "none"

\* Starting is announced before the embedded hub, whose bind may fail.
Launch ==
    /\ pc = "launch"
    /\ TryTransition("Starting")
    /\ \/ /\ pc' = "boot"
          /\ hub' = IF WithHub THEN "up" ELSE "absent"
          /\ UNCHANGED exit
       \/ /\ WithHub
          /\ pc' = "exited" /\ exit' = "error"
          /\ UNCHANGED hub
    /\ UNCHANGED <<cmd, routerVars, configVars, queue, pending>>

NewRouter == [mode |-> cfgTransport, id |-> nextId]

BootOk ==
    /\ pc = "boot"
    /\ cfgTransport \in Modes
    /\ running' = {NewRouter}
    /\ nextId' = 1 - nextId
    /\ bbmdHandle' = {nextId}
    /\ Advance("Running", "select", "none")
    /\ UNCHANGED <<cmd, local, configVars, queue, pending, hub>>

BootErr ==
    /\ pc = "boot"
    /\ TryTransition("Stopped")
    /\ pc' = "select"
    /\ UNCHANGED <<cmd, routerVars, configVars, queue, pending, hub, exit>>

-----------------------------------------------------------------------------
(* The select loop and its command handlers. *)

\* Seeded fault: the command is looked at and left in the channel.
ReceivePeek(k) ==
    /\ pc = "select"
    /\ queue # <<>>
    /\ Head(queue) = k
    /\ UNCHANGED queue

Receive(k) ==
    /\ pc = "select"
    /\ queue # <<>>
    /\ Head(queue) = k
    /\ queue' = Tail(queue)

\* running.take(), to be stopped.
TakeRunning ==
    /\ local' = running
    /\ running' = {}

HandleStop ==
    /\ Receive("Stop")
    /\ IF appState = "Running"
       THEN /\ Advance("Stopping", "stopping", "none")
            /\ TakeRunning
            /\ cmd' = "Stop"
       ELSE UNCHANGED <<appState, pc, cmd, running, local, exit>>
    /\ UNCHANGED <<nextId, bbmdHandle, configVars, pending, hub>>

\* Seeded fault: the loop is left without waiting for stop().
ShutDownAbrupt(k) ==
    /\ Advance("Stopping", "exited", "ok")
    /\ UNCHANGED <<cmd, routerVars, configVars, pending>>

\* Shared by Exit and Ctrl-C: neither looks at the state first.
ShutDown(k) ==
    /\ Advance("Stopping", "stopping", "none")
    /\ IF Legal(appState, "Stopping")
       THEN TakeRunning /\ cmd' = k
       ELSE UNCHANGED <<running, local, cmd>>
    /\ UNCHANGED <<nextId, bbmdHandle, configVars, pending>>

HandleExit ==
    /\ Receive("Exit")
    /\ ShutDown("Exit")
    /\ UNCHANGED hub

\* Seeded fault: the handler does not check that the bridge is Stopped.
HandleStartUngated ==
    /\ Receive("Start")
    /\ TryTransition("Starting")
    /\ pc' = "toStart"
    /\ cmd' = "Start"
    /\ UNCHANGED <<routerVars, configVars, pending, hub, exit>>

HandleStart ==
    /\ Receive("Start")
    /\ IF appState = "Stopped"
       THEN /\ TryTransition("Starting")
            /\ pc' = "toStart"
            /\ cmd' = "Start"
       ELSE UNCHANGED <<appState, pc, cmd>>
    /\ UNCHANGED <<routerVars, configVars, pending, hub, exit>>

\* Seeded fault: the mode is set before the old router is stopped.
HandleSwitchSetsFirst ==
    /\ \E m \in Modes : Receive(m) /\ cmd' = m /\ cfgTransport' = m
    /\ IF running # {}
       THEN /\ TryTransition("Stopping")
            /\ TakeRunning
            /\ pc' = "stopping"
       ELSE /\ pc' = "saving"
            /\ UNCHANGED <<appState, running, local>>
    /\ UNCHANGED <<nextId, bbmdHandle, file, pending, hub, exit>>

HandleSwitch ==
    /\ \E m \in Modes : Receive(m) /\ cmd' = m
    /\ IF running # {}
       THEN /\ TryTransition("Stopping")
            /\ TakeRunning
            /\ pc' = "stopping"
       ELSE /\ pc' = "saving"
            /\ UNCHANGED <<appState, running, local>>
    /\ UNCHANGED <<nextId, bbmdHandle, configVars, pending, hub, exit>>

\* r.stop().await returned.
RouterStopped ==
    /\ pc = "stopping"
    /\ local' = {}
    /\ UNCHANGED <<running, nextId, bbmdHandle, configVars, queue, pending, hub>>

StopDone ==
    /\ RouterStopped
    /\ cmd = "Stop"
    /\ Advance("Stopped", "select", "none")
    /\ cmd' = "none"

ShutDownDone ==
    /\ RouterStopped
    /\ cmd \in {"Exit", "Interrupt"}
    /\ Advance("Stopped", "exited", "ok")
    /\ UNCHANGED cmd

\* Seeded fault: the switch does not announce that the old router stopped.
SwitchStopDoneSilent ==
    /\ RouterStopped
    /\ cmd \in Modes
    /\ pc' = "saving"
    /\ UNCHANGED <<appState, cmd, exit>>

SwitchStopDone ==
    /\ RouterStopped
    /\ cmd \in Modes
    /\ TryTransition("Stopped")
    /\ pc' = "saving"
    /\ UNCHANGED <<cmd, exit>>

\* The write guard: set the mode, save (a failure is ignored).
SaveTransport ==
    /\ pc = "saving"
    /\ cfgTransport' = cmd
    /\ file' \in {file, cmd}
    /\ TryTransition("Starting")
    /\ pc' = "toStart"
    /\ UNCHANGED <<cmd, routerVars, queue, pending, hub, exit>>

\* config.read().await: held until start_router returns.
ReadConfig ==
    /\ pc = "toStart"
    /\ pc' = "starting"
    /\ UNCHANGED <<appState, cmd, routerVars, configVars, queue, pending, hub, exit>>

StartOk ==
    /\ pc = "starting"
    /\ cfgTransport \in Modes
    /\ local' = {NewRouter}
    /\ nextId' = 1 - nextId
    /\ pc' = "publish"
    /\ UNCHANGED <<appState, cmd, running, bbmdHandle, configVars, queue, pending, hub, exit>>

\* Seeded fault: a failed start is retried without going back to select.
StartErrRetries ==
    /\ pc = "starting"
    /\ pc' = "toStart"
    /\ UNCHANGED <<appState, cmd, routerVars, configVars, queue, pending, hub, exit>>

StartErr ==
    /\ pc = "starting"
    /\ TryTransition("Stopped")
    /\ pc' = "select"
    /\ cmd' = "none"
    /\ UNCHANGED <<routerVars, configVars, queue, pending, hub, exit>>

\* Seeded fault: the handle is not replaced.
HandleKept == bbmdHandle

HandleAfterStart == {r.id : r \in local}

\* bbmd_handle.write().await, then running = Some(r) and Running.
Publish ==
    /\ pc = "publish"
    /\ bbmdHandle' = HandleAfterStart
    /\ running' = local
    /\ local' = {}
    /\ TryTransition("Running")
    /\ pc' = "select"
    /\ cmd' = "none"
    /\ UNCHANGED <<nextId, configVars, queue, pending, hub, exit>>

\* start_router returns.
StartReturns == BootOk \/ BootErr \/ StartOk \/ StartErr

LoopStep ==
    \/ Launch
    \/ HandleStop \/ HandleExit \/ HandleStart \/ HandleSwitch
    \/ StopDone \/ ShutDownDone \/ SwitchStopDone
    \/ SaveTransport \/ ReadConfig \/ Publish

-----------------------------------------------------------------------------
(* Ctrl-C.  The hub's task takes the signal and stops the hub.  The main    *)
(* task listens only while it waits in select!; a signal that comes while   *)
(* it handles a command is swallowed by the installed handler.  Until the   *)
(* first listener exists the signal kills the process.                      *)

HubAfterSignal == IF hub = "up" THEN "down" ELSE hub

Interrupt ==
    /\ pc # "exited"
    /\ \/ /\ pc = "select"
          /\ ShutDown("Interrupt")
          /\ UNCHANGED queue
       \/ /\ pc \in {"launch", "boot"} /\ hub = "absent"
          /\ pc' = "exited" /\ exit' = "killed"
          /\ UNCHANGED <<appState, cmd, routerVars, configVars, queue, pending>>
       \/ /\ pc # "select" /\ ~(pc \in {"launch", "boot"} /\ hub = "absent")
          /\ UNCHANGED <<appState, pc, cmd, routerVars, configVars, queue, pending, exit>>
    /\ hub' = HubAfterSignal

-----------------------------------------------------------------------------
(* Web handlers and tray: other tasks and threads, up after the first start.*)

Serving == pc \notin {"launch", "boot", "exited"}

\* Seeded fault: the switch handler has no gate.
GateWithoutSwitch(k) ==
    \/ k \in Modes
    \/ k = "Stop" /\ appState = "Running"
    \/ k = "Start" /\ appState = "Stopped"

\* The 409 gates.
Gate(k) == IF k = "Start" THEN appState = "Stopped" ELSE appState = "Running"

\* A handler reads the watched state and passes its gate ...
Request(c) ==
    /\ Serving
    /\ pending[c] = {}
    /\ \E k \in Commands \ {"Exit"} :
          Gate(k) /\ pending' = [pending EXCEPT ![c] = {k}]
    /\ UNCHANGED <<appState, pc, cmd, routerVars, configVars, queue, hub, exit>>

\* Seeded fault: the channel has no bound.
SendUnbounded(c) ==
    /\ Serving
    /\ \E k \in pending[c] : queue' = Append(queue, k)
    /\ pending' = [pending EXCEPT ![c] = {}]
    /\ Len(queue) <= QueueCap
    /\ UNCHANGED <<appState, pc, cmd, routerVars, configVars, hub, exit>>

\* ... and, later, gets a slot of the channel and answers 200.
Send(c) ==
    /\ Serving
    /\ Len(queue) < QueueCap
    /\ \E k \in pending[c] : queue' = Append(queue, k)
    /\ pending' = [pending EXCEPT ![c] = {}]
    /\ UNCHANGED <<appState, pc, cmd, routerVars, configVars, hub, exit>>

\* A client that hangs up while its handler waits for a slot drops the handler.
Disconnect(c) ==
    /\ pending[c] # {}
    /\ pending' = [pending EXCEPT ![c] = {}]
    /\ UNCHANGED <<appState, pc, cmd, routerVars, configVars, queue, hub, exit>>

\* PUT /api/config replaces the whole configuration under the write guard, in
\* memory first; the save may fail (500).  It restarts nothing.
PutConfig ==
    /\ Serving
    /\ pc # "starting"
    /\ cfgTransport' \in Transports
    /\ file' \in {file, cfgTransport'}
    /\ UNCHANGED <<appState, pc, cmd, routerVars, queue, pending, hub, exit>>

\* A menu item: try_send, dropped when the channel is full, in any state.
TrayClick ==
    /\ TrayEnabled
    /\ Serving
    /\ Len(queue) < QueueCap
    /\ \E k \in Commands : queue' = Append(queue, k)
    /\ UNCHANGED <<appState, pc, cmd, routerVars, configVars, pending, hub, exit>>

Terminated == pc = "exited" /\ UNCHANGED vars

Next ==
    \/ LoopStep
    \/ StartReturns
    \/ Interrupt
    \/ \E c \in Clients : Request(c) \/ Send(c) \/ Disconnect(c)
    \/ PutConfig
    \/ TrayClick
    \/ Terminated

Spec == Init /\ [][Next]_vars

\* The runtime schedules the main task whenever it can move, and stop() returns.
TaskFairness == WF_vars(LoopStep)

\* start_router resolves one way or the other.  This is an assumption about the
\* network: the connection to the hub has no timeout of its own.
StartResolves == WF_vars(StartReturns)

\* The channel's semaphore queues its waiters, so no handler is overtaken for ever.
SenderFairness == \A c \in Clients : SF_vars(Send(c))

\* Users, clients and signals owe nothing.
Fairness == TaskFairness /\ StartResolves /\ SenderFairness

LiveSpec == Spec /\ Fairness

-----------------------------------------------------------------------------
(* Safety. *)

Live == running \cup local

\* Between two commands the announced state tells whether a router is up: what
\* every gate and every shutdown path relies on, over any history of starts,
\* failed starts, switches and stops (router_cmd.rs, the whole loop).
HandleMatchesState ==
    pc = "select" => (running # {} <=> appState = "Running")

\* A start never begins while an earlier router still holds the LAN socket:
\* the start paths of Start and Switch rely on different guards for it.
OneRouter ==
    /\ pc \in {"boot", "toStart", "starting"} => Live = {}
    /\ running = {} \/ local = {}

\* However run_router returns, by Exit, by Ctrl-C or through one of its `?`,
\* no started router is dropped without its stop().
CleanExit == exit \in {"ok", "error"} => Live = {}

\* The FDT task never reads the BBMD table of a predecessor while a router is
\* running: each of the three start paths replaces the handle.
FreshHandle == running # {} => bbmdHandle = {r.id : r \in running}

\* /api/status reports the transport of the configuration (api.rs:54) ...
Misreported == \E r \in Live : r.mode # cfgTransport

\* ... which is that of the router that is up, or about to be, until a PUT of the
\* configuration changes it beneath that router: no start, failed start, switch
\* or stop parts the two, in whatever order their commands come.
OnlyPutMisreports ==
    [][Misreported' /\ ~Misreported =>
          cfgTransport' # cfgTransport /\ UNCHANGED <<pc, cmd, Live>>]_vars

\* The lifecycle implements the state machine the watchers rely on.
ASM == INSTANCE AppStateMachine WITH live <- (Live # {})
ImplementsAppStateMachine == ASM!Spec

\* At whatever await the main task is, who reads the state (/api/status, a gate,
\* the tray) and finds it Running or Stopping reads it of a router that is up, and
\* none is in Stopped: the switch, the start paths and the shutdowns each say so.
AnnouncedTruly == ASM!StateTellsRouter

\* The id in a set of at most one; 2 stands for none.
IdIn(ids) == IF 0 \in ids THEN 0 ELSE IF 1 \in ids THEN 1 ELSE 2

\* ... and what FdtSync takes for granted of bbmd_handle: no start path leaves
\* the handle behind or makes a router in its place, over any history.
RH == INSTANCE RouterHandles WITH Slots <- {0, 1}, NoBbmd <- 2,
        runs <- IdIn({r.id : r \in Live}), handle <- IdIn(bbmdHandle)
ImplementsRouterHandles == RH!Spec

\* ... and what ConfigStore takes for granted of the lock of the configuration:
\* it is held in `starting` alone, and a switch saves with its router stopped.
Phases == INSTANCE TaskPhases WITH
    up <- Serving,
    state <- IF ~Serving \/ appState = "Stopping" THEN "Stopped" ELSE appState,
    phase <- IF pc \in {"toStart", "starting", "publish"} THEN pc ELSE "select"
ImplementsTaskPhases == Phases!Spec

\* A failed start leaves the loop idle in Starting.
Wedged == pc = "select" /\ appState = "Starting"

SwitchUnderway ==
    \/ \E m \in Modes, i \in 1..Len(queue) : queue[i] = m
    \/ \E c \in Clients : pending[c] \cap Modes # {}

\* With no switch already let through, no request of the dashboard moves the
\* bridge on from a failed start, nor do the tray's Start and Stop: it stays in
\* Starting until the process ends, or the tray, which has no gate, asks for a switch.
WedgeIsPermanent ==
    [][Wedged /\ ~SwitchUnderway =>
          \/ pc' = "exited"
          \/ Wedged' /\ (SwitchUnderway' => pending' = pending)]_vars

\* The process ends where it was asked to, and nowhere else: an Exit or a Ctrl-C
\* that finds a router stops it and returns Ok, one that finds none returns the
\* error of its `?`.  No Stop, Start or Switch and no failed start, in whatever
\* order they come, meets a `?` that refuses (router_cmd.rs, the whole of run_router).
OnlyShutdownEnds ==
    [][pc # "exited" /\ pc' = "exited" =>
          \/ pc = "launch"
          \/ exit' = "killed"
          \/ pc = "stopping" /\ cmd \in {"Exit", "Interrupt"} /\ exit' = "ok"
          \/ /\ pc = "select" /\ running = {} /\ exit' = "error"
             /\ queue' = queue \/ Head(queue) = "Exit"]_vars

-----------------------------------------------------------------------------
(* Liveness. *)

\* A request let through its gate is answered, or its client hangs up, or the
\* process ends: nobody waits for a slot for ever.
RequestsAnswered ==
    \A c \in Clients : pending[c] # {} ~> (pending[c] = {} \/ pc = "exited")

\* A begun stop is announced as finished.
StopFinishes == appState = "Stopping" ~> appState = "Stopped"

\* The main task always gets back to its select, where commands and Ctrl-C
\* are served, or ends: no sequence of commands makes it spin or park.
LoopReturns == []<>(pc \in {"select", "exited"})

-----------------------------------------------------------------------------
(* What the documents say and the code does not do. *)

\* FSD 8.5 and the warning of a failed first start: an idle bridge can be
\* operated from the dashboard, so it is Stopped or Running.
IdleIsOperable == pc = "select" => appState \in {"Stopped", "Running"}

\* FSD, router command: the process blocks until the exit signal.  A signal that stopped
\* the embedded hub ends the process too.
InterruptObeyed == hub = "down" ~> pc = "exited"

=============================================================================
