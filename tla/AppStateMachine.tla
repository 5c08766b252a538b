---------------------------- MODULE AppStateMachine ----------------------------
(***************************************************************************)
(* What the bridge promises the watchers of its application state (the     *)
(* tray icon, /api/status, the gates of the web handlers): the watched     *)
(* value moves round one cycle, and says whether a router is up.           *)
(*                                                                         *)
(*    Stopped -> Starting -> Running -> Stopping -> Stopped                *)
(*                                                                         *)
(* A router exists all through Running and Stopping, never in Stopped, and *)
(* in Starting only once its start has succeeded.  There is no step from   *)
(* Starting back to Stopped: the state machine of state.rs has none.       *)
(***************************************************************************)
EXTENDS TLAPS

VARIABLES
    appState,   \* the value of the state watch channel
    live        \* a started, not yet stopped router exists

vars == <<appState, live>>

Init ==
    /\ appState = "Stopped"
    /\ live = FALSE

BeginStart ==
    /\ appState = "Stopped"
    /\ appState' = "Starting"
    /\ UNCHANGED live

\* The start succeeded; the state is not yet announced.
RouterUp ==
    /\ appState = "Starting"
    /\ live' = TRUE
    /\ UNCHANGED appState

AnnounceRunning ==
    /\ appState = "Starting"
    /\ appState' = "Running"
    /\ live' = TRUE

BeginStop ==
    /\ appState = "Running"
    /\ appState' = "Stopping"
    /\ UNCHANGED live

FinishStop ==
    /\ appState = "Stopping"
    /\ appState' = "Stopped"
    /\ live' = FALSE

Next == BeginStart \/ RouterUp \/ AnnounceRunning \/ BeginStop \/ FinishStop

Spec == Init /\ [][Next]_vars
-----------------------------------------------------------------------------

\* What is announced is so, not only between two commands but at every moment
\* at which somebody looks.
StateTellsRouter ==
    /\ appState \in {"Running", "Stopping"} => live
    /\ appState = "Stopped" => ~live

LEMMA StepTellsTruth == StateTellsRouter /\ [Next]_vars => StateTellsRouter'
BY DEF StateTellsRouter, Next, BeginStart, RouterUp, AnnounceRunning, BeginStop, FinishStop, vars

\* Whatever implements this module announces the truth about its router.
THEOREM AnnouncedIsTrue == Spec => []StateTellsRouter
<1>1. Init => StateTellsRouter
  BY DEF Init, StateTellsRouter
<1> QED BY <1>1, StepTellsTruth, PTL DEF Spec

=============================================================================
