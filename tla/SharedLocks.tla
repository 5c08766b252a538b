------------------------------ MODULE SharedLocks ------------------------------
(***************************************************************************)
(* The locks that the main task, the task that copies the foreign device   *)
(* table (router_cmd.rs) and the web handlers (web/api.rs) share: the      *)
(* configuration and bbmd_handle are RwLocks, the others Mutexes, all of   *)
(* tokio.  Such a lock serves those who wait for it in their order, so a   *)
(* reader waits behind a writer that waits.  A Mutex that one kind of task *)
(* alone takes, for a moment, is left out: start_time, cloud_hub_url, the  *)
(* BBMD's, hub_spoke_count, and state_rx, taken with nothing else held.    *)
(*                                                                         *)
(* What a task does is a script: the guards it holds, await by await.      *)
(* Going from one point of the script to the next it first drops the       *)
(* guards the next one does not have, and then waits for the new one.  A   *)
(* handler whose client hangs up is dropped where it is, with its guards.  *)
(*                                                                         *)
(* Of the hub URL and the hub mode the values do not matter, but who reads *)
(* and writes them when: a status answer gives the two, a PUT sets the one *)
(* and a switch of the hub mode the one and then the other.                *)
(***************************************************************************)
EXTENDS Integers, Sequences

CONSTANT Handlers     \* connections to the web server, one request at a time each

Main == "main"
Sync == "sync"

ASSUME HandlersAssumption == Main \notin Handlers /\ Sync \notin Handlers

Tasks == Handlers \cup {Main, Sync}

Read(l) == [lock |-> l, mode |-> "read"]
Write(l) == [lock |-> l, mode |-> "write"]

\* Two guards of a lock exclude one another unless both read.
Excludes(g, h) == g.lock = h.lock /\ ~(g.mode = "read" /\ h.mode = "read")

-----------------------------------------------------------------------------
(* The scripts.                                                              *)

\* RouterCommand::Start: the guard of the configuration while the network
\* connects, then the new handle.
Start == << {Read("config")}, {Write("bbmdHandle")} >>

\* RouterCommand::SwitchTransport saves first.
Switch == << {Write("config")}, {Read("config")}, {Write("bbmdHandle")} >>

\* A round of the FDT task; without a router ever started there is no BBMD.
Round ==
    << {Read("bbmdHandle")},
       {Read("bbmdHandle"), Write("fdt")},
       {},
       {Write("fdt")} >>
RoundWithoutBbmd == << {Read("bbmdHandle")}, {Write("fdt")} >>

Status == << {Read("config")}, {Read("config"), Write("embedded")}, {Read("config")} >>

\* get_config, router_info and interfaces; get_fdt outside Tailscale mode.
Get == << {Read("config")} >>

GetFdt == << {Read("config")}, {Write("fdt")} >>

Put == << {Write("config")} >>

HubStatus == << {Write("embedded")} >>

\* Seeded fault: the mode's lock is taken before the configuration's.
HubModeEmbeddedFirst == << {Write("embedded")}, {Write("embedded"), Write("config")} >>

\* Seeded fault: the configuration's guard is dropped before the mode changes.
HubModeReleased == << {Write("config")}, {}, {Write("embedded")} >>

HubMode == << {Write("config")}, {Write("config"), Write("embedded")} >>

Script ==
    [idle |-> << >>, start |-> Start, switch |-> Switch,
     round |-> Round, roundWithoutBbmd |-> RoundWithoutBbmd,
     status |-> Status, get |-> Get, getFdt |-> GetFdt, put |-> Put, hubStatus |-> HubStatus,
     hubMode |-> HubMode]

Jobs(t) ==
    CASE t = Main -> {"start", "switch"}
      [] t = Sync -> {"round", "roundWithoutBbmd"}
      [] OTHER    -> {"status", "get", "getFdt", "put", "hubStatus", "hubMode"}

\* Before the first point no guard is held, nor after the last.
Guards(j, i) == IF i \in 1..Len(Script[j]) THEN Script[j][i] ELSE {}

\* What is new at the point after i.
News(j, i) == Guards(j, i + 1) \ Guards(j, i)

SameLock(W, X) == \E w \in W, x \in X : w.lock = x.lock

-----------------------------------------------------------------------------

VARIABLES
    job,        \* [Tasks -> what the task does]
    at,         \* [Tasks -> the point of its script it has come to]
    waiting,    \* the tasks that wait for a lock, in the order in which they asked
    fresh       \* [Handlers -> what of the hub URL and mode a status handler
                \*  has read and nobody has written since]

vars == <<job, at, waiting, fresh>>

TypeOK ==
    /\ job \in [Tasks -> DOMAIN Script]
    /\ \A t \in Tasks : job[t] \in Jobs(t) \cup {"idle"}
    /\ at \in [Tasks -> Nat]
    /\ \A t \in Tasks : at[t] <= Len(Script[job[t]])
    /\ waiting \in Seq(Tasks)
    /\ \A i, k \in 1..Len(waiting) : waiting[i] = waiting[k] => i = k
    /\ fresh \in [Handlers -> SUBSET {"url", "mode"}]

Init ==
    /\ job = [t \in Tasks |-> "idle"]
    /\ at = [t \in Tasks |-> 0]
    /\ waiting = <<>>
    /\ fresh = [h \in Handlers |-> {}]

Waits(t) == \E i \in 1..Len(waiting) : waiting[i] = t

Wanted(t) == News(job[t], at[t])

\* A task that waits has dropped what the next point does not have.
Held(t) ==
    IF Waits(t) THEN Guards(job[t], at[t]) \cap Guards(job[t], at[t] + 1)
                ELSE Guards(job[t], at[t])

\* u holds a guard that excludes one of W.
Keeps(u, W) == \E g \in Held(u), w \in W : Excludes(g, w)

\* u asked for t's lock before t did.
Ahead(u, t) ==
    /\ SameLock(Wanted(u), Wanted(t))
    /\ \E i, j \in 1..Len(waiting) : i < j /\ waiting[i] = u /\ waiting[j] = t

-----------------------------------------------------------------------------

TakesConfig(j, i) == Write("config") \in News(j, i - 1)
TakesMode(j, i) == Write("embedded") \in News(j, i - 1)

\* A PUT sets the URL, and a switch with the first of its guards; the mode with
\* the second.
Writes(j, i) ==
    {x \in {"url", "mode"} :
        \/ x = "url" /\ j \in {"put", "hubMode"} /\ TakesConfig(j, i)
        \/ x = "mode" /\ j = "hubMode" /\ TakesMode(j, i)}

\* A status handler reads the mode, and at its last point the URL.
Reads(j, i) ==
    {x \in {"url", "mode"} :
        \/ x = "mode" /\ j = "status" /\ TakesMode(j, i)
        \/ x = "url" /\ j = "status" /\ i = Len(Script[j])}

\* t comes to point i of j, and does there what j does.
Arrive(t, j, i) ==
    /\ at' = [at EXCEPT ![t] = i]
    /\ fresh' = [h \in Handlers |-> IF h = t THEN fresh[h] \cup Reads(j, i)
                                              ELSE fresh[h] \ Writes(j, i)]

\* Seeded fault: a lock that readers get past a writer who waits.
FreeToReaders(t, W) == \A u \in Tasks \ {t} : ~Keeps(u, W)

\* Can t have the guards W at once?
Free(t, W) ==
    \A u \in Tasks \ {t} : ~Keeps(u, W) /\ ~(Waits(u) /\ SameLock(Wanted(u), W))

\* t leaves point i of j for the next, or waits for what it takes.
Leave(t, j, i) ==
    \/ /\ Free(t, News(j, i))
       /\ Arrive(t, j, i + 1)
       /\ UNCHANGED waiting
    \/ /\ ~Free(t, News(j, i))
       /\ waiting' = Append(waiting, t)
       /\ at' = [at EXCEPT ![t] = i]
       /\ UNCHANGED fresh

Begin(t) ==
    /\ job[t] = "idle"
    /\ \E j \in Jobs(t) : job' = [job EXCEPT ![t] = j] /\ Leave(t, j, 0)

AtEnd(t) == at[t] = Len(Script[job[t]])

Continue(t) ==
    /\ job[t] # "idle" /\ ~Waits(t) /\ ~AtEnd(t)
    /\ Leave(t, job[t], at[t])
    /\ UNCHANGED job

StopWaiting(t) ==
    \E i \in 1..Len(waiting) :
        /\ waiting[i] = t
        /\ waiting' = [k \in 1..(Len(waiting) - 1) |-> IF k < i THEN waiting[k] ELSE waiting[k + 1]]

\* The lock is handed to the first of those who wait for it.
Granted(t) ==
    /\ \A u \in Tasks \ {t} : ~Keeps(u, Wanted(t)) /\ ~Ahead(u, t)
    /\ StopWaiting(t)
    /\ Arrive(t, job[t], at[t] + 1)
    /\ UNCHANGED job

Done(t) ==
    /\ job' = [job EXCEPT ![t] = "idle"]
    /\ at' = [at EXCEPT ![t] = 0]
    /\ fresh' = [h \in Handlers |-> IF h = t THEN {} ELSE fresh[h]]

Finish(t) ==
    /\ job[t] # "idle" /\ AtEnd(t)
    /\ Done(t)
    /\ UNCHANGED waiting

\* Seeded fault: a handler that is dropped stays in the queue it waits in.
HangUpQueued(h) ==
    /\ job[h] # "idle"
    /\ Done(h)
    /\ UNCHANGED waiting

\* The handler's future is dropped at the await it has come to.
HangUp(h) ==
    /\ job[h] # "idle"
    /\ IF Waits(h) THEN StopWaiting(h) ELSE UNCHANGED waiting
    /\ Done(h)

\* The network decides when the main task's start returns.
Connecting(t) == t = Main /\ Read("config") \in Guards(job[t], at[t])

Proceed(t) == Continue(t) \/ Granted(t) \/ Finish(t)
RunOn(t) == ~Connecting(t) /\ Proceed(t)
StartReturns == Connecting(Main) /\ Proceed(Main)

Next ==
    \/ \E t \in Tasks : Begin(t) \/ RunOn(t)
    \/ StartReturns
    \/ \E h \in Handlers : HangUp(h)

Spec == Init /\ [][Next]_vars

\* The runtime runs every task that can go on, and start_router returns.
\* Commands, requests and the timer of the FDT task owe nothing.
LiveSpec == Spec /\ WF_vars(StartReturns) /\ \A t \in Tasks : WF_vars(RunOn(t))

-----------------------------------------------------------------------------

Waiters == {t \in Tasks : Waits(t)}

\* t cannot go on before u does.
WaitsFor(t, u) ==
    /\ Waits(t) /\ u # t
    /\ Keeps(u, Wanted(t)) \/ Ahead(u, t)

\* No set of tasks wait for one another, whatever the requests and wherever
\* handlers are dropped: the scripts take the locks in one order, and no task
\* asks for the configuration twice, behind a writer that waits.
NoDeadlock ==
    \A S \in SUBSET Waiters :
        (\A t \in S : \E u \in S : WaitsFor(t, u)) => S = {}

\* Whoever waits for a lock has fewer and fewer tasks to wait for: none that asks
\* after it, for this lock or for another, comes to stand in its way.
NoOvertaking ==
    [][\A t \in Waiters, u \in Tasks : WaitsFor(t, u)' => WaitsFor(t, u)]_vars

\* The hub URL is that of the mode asked for, the mode is not yet.
HalfSwitched(h) ==
    job[h] = "hubMode" /\ at[h] \in 1..(Len(Script["hubMode"]) - 1)

HasRead(h) == UNION {Reads(job[h], i) : i \in 1..at[h]}

\* What a status handler has read of the hub mode and the hub URL is still so
\* when it answers, and no switch of the mode is half done meanwhile: it never
\* shows the URL of one side of a switch under way with the mode of the other
\* (api.rs:41-60, status against hub_mode_switch and update_config).  Whether the
\* two belong together is another matter: a PUT sets any URL, and a switch whose
\* client hung up has left the URL changed and the mode not.
StatusIsSnapshot ==
    \A h \in Handlers :
        /\ HasRead(h) \subseteq fresh[h]
        /\ HasRead(h) # {} => \A k \in Handlers : ~HalfSwitched(k)

\* Every task comes to the end of what it does: no stream of other requests
\* keeps it from a lock for ever.
EveryoneFinishes == \A t \in Tasks : []<>(job[t] = "idle")

=============================================================================
