------------------------------ MODULE ConfigStore ------------------------------
(***************************************************************************)
(* The configuration of the bridge (config.rs): loaded from a file at each *)
(* start and overridden by the environment and the command line, kept in   *)
(* memory behind a lock, and rewritten there and in the file by PUT        *)
(* /api/config and POST /api/hub/mode (web/api.rs), by a transport switch  *)
(* and by --with-hub (router_cmd.rs).                                      *)
(*                                                                         *)
(* A save truncates the file and then writes it, with the write guard      *)
(* held.  The process may be killed at any time.  A dashboard edits the    *)
(* configuration it loaded last and puts all of it back (app.js).          *)
(*                                                                         *)
(* Of the fields, the model keeps the transport and the hub URL, the two   *)
(* that the bridge rewrites itself.  Of the main task it keeps what        *)
(* TaskPhases says, which RouterLifecycle implements.                      *)
(***************************************************************************)
EXTENDS FiniteSets

CONSTANTS
    Clients,        \* of POST /api/hub/mode
    Pages,          \* dashboards that show the configuration
    Transports,
    CloudUrls,      \* URLs of hubs elsewhere
    Local,          \* wss://localhost:8443
    Default         \* BridgeConfig::default()

Urls == CloudUrls \cup {Local, Default.url}
Configs == [transport : Transports, url : Urls]

ASSUME DefaultAssumption ==
    Default \in Configs /\ Default.url # Local /\ Local \notin CloudUrls

HubModes == {"cloud", "embedded"}

\* A file that is cut short is empty or does not parse.
Whole(c) == [kind |-> "whole", config |-> c]
Cut(k) == [kind |-> k, config |-> Default]
Files == {Whole(c) : c \in Configs} \cup {Cut(k) : k \in {"absent", "empty", "torn"}}

VARIABLES
    up,         \* does the process run?
    state,      \* of the lifecycle, while it does
    phase,      \* where the main task is in a start
    mem,        \* the configuration in memory
    file,
    saved,      \* cloud_hub_url, if there is one
    embedded,   \* is_embedded_hub
    asked,      \* [Clients -> the hub mode a handler has let through its gate]
    view,       \* [Pages -> the configuration the dashboard shows]
    left        \* the URL embedded mode was entered from, if nothing else set one

storeVars == <<mem, file>>
hubVars == <<saved, embedded, left>>
lifeVars == <<up, state, phase>>
vars == <<lifeVars, storeVars, hubVars, asked, view>>

TypeOK ==
    /\ up \in BOOLEAN
    /\ state \in {"Stopped", "Starting", "Running"}
    /\ phase \in {"select", "toStart", "starting", "publish"}
    /\ mem \in Configs
    /\ file \in Files
    /\ saved \in SUBSET Urls
    /\ embedded \in BOOLEAN
    /\ asked \in [Clients -> SUBSET HubModes]
    /\ view \in [Pages -> SUBSET Configs]
    /\ left \in SUBSET Urls

Task == INSTANCE TaskPhases

Nobody == [c \in Clients |-> {}]
Blank == [p \in Pages |-> {}]

\* A file somebody wrote, or none yet.
Init ==
    /\ Task!Init
    /\ mem = Default
    /\ file \in {Cut("absent")} \cup {Whole(c) : c \in {d \in Configs : d.url # Local}}
    /\ saved = {} /\ embedded = FALSE /\ left = {}
    /\ asked = Nobody /\ view = Blank

-----------------------------------------------------------------------------
(* Start and end of the process. *)

\* BridgeConfig::load: a missing file is made, an empty one has every default.
\* The environment may override the hub URL.
Overridden(c) == {c} \cup {[c EXCEPT !.url = u] : u \in CloudUrls}

\* A file that does not parse ends the process at once; so does a default
\* configuration that cannot be saved.  The router starts or stays in Starting.
Boot(withHub, transport) ==
    /\ Task!Boot
    /\ file.kind # "torn"
    /\ file' = IF file.kind = "absent" THEN Whole(Default) ELSE file
    /\ \E loaded \in Overridden(file.config) :
          LET c == [loaded EXCEPT !.transport = transport]
          IN  IF withHub
              THEN /\ mem' = [c EXCEPT !.url = Local]
                   /\ saved' = {c.url} /\ embedded' = TRUE /\ left' = {c.url}
              ELSE mem' = c /\ saved' = {} /\ embedded' = FALSE /\ left' = {}
    /\ UNCHANGED <<asked, view>>

\* What the process had in memory is lost; the dashboards' pages stay open.
Crash ==
    /\ Task!End
    /\ asked' = Nobody
    /\ UNCHANGED <<storeVars, hubVars, view>>

\* Killed between the two steps of a save, or unable to save at the first start.
CrashInSave ==
    /\ \/ Task!End /\ phase # "starting" /\ file' = Cut("empty")
       \/ ~up /\ UNCHANGED lifeVars /\ file.kind = "absent" /\ file' \in {Cut("empty"), Cut("torn")}
    /\ asked' = Nobody
    /\ UNCHANGED <<mem, hubVars, view>>

\* Somebody removes a file that does not parse.
Repair ==
    /\ ~up
    /\ file.kind = "torn"
    /\ file' = Cut("absent")
    /\ UNCHANGED <<lifeVars, mem, hubVars, asked, view>>

-----------------------------------------------------------------------------
(* The main task, as the handlers see it. *)

TaskStep ==
    /\ Task!StopRouter \/ Task!BeginStart \/ Task!Announce
    /\ UNCHANGED <<storeVars, hubVars, asked, view>>

ReadConfig ==
    /\ Task!ReadConfig
    /\ UNCHANGED <<storeVars, hubVars, asked, view>>

StartReturns ==
    /\ Task!StartReturns
    /\ UNCHANGED <<storeVars, hubVars, asked, view>>

-----------------------------------------------------------------------------
(* Writers.  Each has the write guard from its change in memory to the end   *)
(* of its save; while a router is being started there is none to be had.    *)

\* Seeded fault: the read guard lives as long as the router it started.
CanWriteWithoutRouter == up /\ phase # "starting" /\ state # "Running"

CanWrite == up /\ phase # "starting"

\* cfg.save(path), of what the guard protects.
SaveDone == file' = Whole(mem')
SaveFails == file' \in {file, Cut("empty"), Cut("torn")}

\* A switch ignores a save that fails.
SwitchTransport(t) ==
    /\ CanWrite /\ Task!BeginSwitch
    /\ mem' = [mem EXCEPT !.transport = t]
    /\ SaveDone \/ SaveFails
    /\ UNCHANGED <<hubVars, asked, view>>

\* GET /api/config.
LoadConfig(p) ==
    /\ up
    /\ view' = [view EXCEPT ![p] = {mem}]
    /\ UNCHANGED <<lifeVars, storeVars, hubVars, asked>>

\* What saveConfig puts: the page's configuration, with what the user changed.
Edits(v) ==
    {v} \cup {[v EXCEPT !.transport = t] : t \in Transports}
        \cup {[v EXCEPT !.url = u] : u \in CloudUrls}

\* PUT /api/config: 500 when the save fails, with the change made in memory.
PutConfig(p) ==
    /\ CanWrite
    /\ \E v \in view[p] : \E body \in Edits(v) :
          /\ mem' = body
          /\ \/ SaveDone /\ view' = [view EXCEPT ![p] = {body}]
             \/ SaveFails /\ UNCHANGED view
    /\ left' = IF mem'.url = mem.url THEN left ELSE {}
    /\ UNCHANGED <<lifeVars, saved, embedded, asked>>

\* Seeded fault: the mode that is asked for is not validated.
AskAnyHubMode(c) ==
    /\ up /\ state # "Running"
    /\ asked[c] = {}
    /\ \E m \in HubModes \cup {"auto"} : asked' = [asked EXCEPT ![c] = {m}]
    /\ UNCHANGED <<lifeVars, storeVars, hubVars, view>>

\* POST /api/hub/mode: the gate ...
AskHubMode(c) ==
    /\ up /\ state # "Running"
    /\ asked[c] = {}
    /\ \E m \in HubModes : asked' = [asked EXCEPT ![c] = {m}]
    /\ UNCHANGED <<lifeVars, storeVars, hubVars, view>>

\* Seeded fault: the URL to return to is read after it was replaced.
EnterEmbeddedLate ==
    /\ mem' = [mem EXCEPT !.url = Local]
    /\ saved' = {mem'.url}
    /\ embedded' = TRUE
    /\ left' = IF embedded THEN {} ELSE {mem.url}

\* The URL goes to memory and file, and cloud_hub_url keeps the one before it.
TakeLocalUrl ==
    /\ mem' = [mem EXCEPT !.url = Local]
    /\ saved' = {mem.url}

EnterEmbedded ==
    /\ TakeLocalUrl
    /\ embedded' = TRUE
    /\ left' = IF embedded THEN {} ELSE {mem.url}

GiveUrlBack ==
    /\ mem' = IF saved = {} THEN mem ELSE [mem EXCEPT !.url = CHOOSE u \in saved : TRUE]
    /\ UNCHANGED saved

EnterCloud ==
    /\ GiveUrlBack
    /\ embedded' = FALSE
    /\ left' = {}

\* ... and the change, once the handler has the write guard.  A save that
\* fails is not reported.
SwitchHubMode(c) ==
    /\ CanWrite
    /\ \/ "embedded" \in asked[c] /\ EnterEmbedded
       \/ "cloud" \in asked[c] /\ EnterCloud
    /\ SaveDone \/ SaveFails
    /\ asked' = [asked EXCEPT ![c] = {}]
    /\ UNCHANGED <<lifeVars, view>>

\* Seeded fault: the mode is set before the URL it replaces is remembered.
CutOffModeFirst(c) ==
    \/ /\ "embedded" \in asked[c]
       /\ mem' = [mem EXCEPT !.url = Local] /\ embedded' = TRUE
       /\ left' = {}
       /\ UNCHANGED saved
    \/ /\ "cloud" \in asked[c]
       /\ GiveUrlBack
       /\ UNCHANGED <<embedded, left>>

\* All but the mode, whose lock /api/hub/status may hold.
CutOff(c) ==
    \/ /\ "embedded" \in asked[c]
       /\ TakeLocalUrl
       /\ left' = {}
       /\ UNCHANGED embedded
    \/ /\ "cloud" \in asked[c]
       /\ GiveUrlBack
       /\ UNCHANGED <<embedded, left>>

\* A client that hangs up drops the handler where it waits: for the guard, or,
\* with everything else done and saved, for the mode's lock.
HangUp(c) ==
    /\ asked[c] # {}
    /\ asked' = [asked EXCEPT ![c] = {}]
    /\ \/ UNCHANGED <<storeVars, hubVars>>
       \/ CanWrite /\ CutOff(c) /\ (SaveDone \/ SaveFails)
    /\ UNCHANGED <<lifeVars, view>>

Next ==
    \/ \E withHub \in BOOLEAN, t \in Transports : Boot(withHub, t)
    \/ Crash \/ CrashInSave \/ Repair
    \/ TaskStep \/ ReadConfig \/ StartReturns
    \/ \E t \in Transports : SwitchTransport(t)
    \/ \E p \in Pages : LoadConfig(p) \/ PutConfig(p)
    \/ \E c \in Clients : AskHubMode(c) \/ SwitchHubMode(c) \/ HangUp(c)

Spec == Init /\ [][Next]_vars

\* The main task runs on, start_router returns, and the lock serves those who
\* wait for it in their order.  Users, crashes and restarts owe nothing.
LiveSpec ==
    Spec /\ WF_vars(ReadConfig) /\ WF_vars(StartReturns)
         /\ \A c \in Clients : SF_vars(SwitchHubMode(c))

-----------------------------------------------------------------------------

\* Whichever way the bridge came to embedded mode, a hub URL to leave it with is
\* remembered: by the boot with a hub as by the handler, and wherever a client
\* hangs up on that.  Which URL that is, is another matter: after a second
\* switch to embedded it is localhost.
EmbeddedIsReversible == up /\ embedded => saved # {}

\* Leaving embedded mode brings back the hub URL it was entered from, through
\* switches, saves and failed saves, unless the URL was set in between, embedded
\* mode entered a second time, or a switch to it hung up on: left is empty then.
HubRoundTrip ==
    [][up /\ embedded /\ left # {} /\ ~embedded' /\ up' => mem'.url \in left]_vars

\* A hub mode let through its gate is carried out, or the process ends: no
\* number of starts keeps a handler from the write guard for ever.
HubModeIsServed ==
    \A c \in Clients : asked[c] # {} ~> asked[c] = {}

\* FSD 13.4: "Hub Mode: Cloud" shows the external hub's URL.
CloudShowsExternalUrl == up /\ ~embedded => mem.url # Local

=============================================================================
