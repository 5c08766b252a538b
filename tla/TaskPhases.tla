------------------------------ MODULE TaskPhases ------------------------------
(***************************************************************************)
(* What the web handlers can tell of the main task: whether the process    *)
(* runs, the announced state (a router that is being stopped counts as     *)
(* Stopped), and where the task is in a start, as it holds the guard of    *)
(* the configuration from there until start_router has returned.           *)
(*                                                                         *)
(* RouterLifecycle implements this module, ConfigStore is built on it.     *)
(***************************************************************************)
VARIABLES
    up,         \* the process runs, and its first start has returned
    state,      \* of the lifecycle, while it does
    phase       \* where the main task is in a start

vars == <<up, state, phase>>

Init == up = FALSE /\ state = "Stopped" /\ phase = "select"

\* The first start has come to an end: well, or in Starting.
Boot ==
    /\ ~up
    /\ up' = TRUE
    /\ state' \in {"Running", "Starting"}
    /\ UNCHANGED phase

\* The process ends, in whatever way.
End ==
    /\ up
    /\ up' = FALSE /\ state' = "Stopped" /\ phase' = "select"

StopRouter ==
    /\ up /\ phase = "select" /\ state = "Running"
    /\ state' = "Stopped"
    /\ UNCHANGED <<up, phase>>

BeginStart ==
    /\ up /\ phase = "select" /\ state = "Stopped"
    /\ state' = "Starting" /\ phase' = "toStart"
    /\ UNCHANGED up

\* The router, if there was one, is stopped, and the transport is saved.
BeginSwitch ==
    /\ up /\ phase = "select" /\ state # "Running"
    /\ state' = "Starting" /\ phase' = "toStart"
    /\ UNCHANGED up

\* From here the main task holds the read guard.
ReadConfig ==
    /\ up /\ phase = "toStart"
    /\ phase' = "starting"
    /\ UNCHANGED <<up, state>>

\* The guard is dropped; a good start is announced when the handle is replaced.
StartReturns ==
    /\ up /\ phase = "starting"
    /\ phase' \in {"publish", "select"}
    /\ UNCHANGED <<up, state>>

Announce ==
    /\ up /\ phase = "publish"
    /\ phase' = "select" /\ state' = "Running"
    /\ UNCHANGED up

Next ==
    \/ Boot \/ End
    \/ StopRouter \/ BeginStart \/ BeginSwitch
    \/ ReadConfig \/ StartReturns \/ Announce

Spec == Init /\ [][Next]_vars

=============================================================================
