----------------------------- MODULE StateWatchers -----------------------------
(***************************************************************************)
(* Who watches the application state: the tray thread, which has a         *)
(* receiver of the state's watch channel and looks at it twice a second    *)
(* (tray.rs), and the dashboard's pages, which ask /api/status every five  *)
(* seconds (app.js, web/api.rs).  The state itself moves as                *)
(* AppStateMachine says, which RouterLifecycle implements.                 *)
(*                                                                         *)
(* Both are made after the first start has returned.  A page has several   *)
(* requests under way when answers are late; they may be lost, or overtake *)
(* one another.                                                            *)
(***************************************************************************)
EXTENDS Integers

CONSTANTS
    Pages,      \* open dashboards
    Requests    \* the requests for the status a page can have under way

AppStates == {"Stopped", "Starting", "Running", "Stopping"}
Buttons == {"Start", "Stop", "Switch"}

Untouched == "untouched"
Free == "free"
Sent == "sent"

VARIABLES
    appState, live,     \* as in AppStateMachine
    up,                 \* the process runs
    unseen,             \* the tray's receiver: a value was sent since the last one seen
    tray,               \* where the tray thread is: a state when it has taken that
    icon,               \* the state its icon and tooltip stand for
    polls,              \* [Pages -> [Requests -> Free, Sent, or the state answered]]
    shown,              \* [Pages -> the state the page shows]
    enabled,            \* [Pages -> its enabled buttons]
    clicked             \* [Pages -> the click on the switch button under way]

bridgeVars == <<appState, live, up>>
trayVars == <<unseen, tray, icon>>
pageVars == <<polls, shown, enabled, clicked>>
vars == <<bridgeVars, trayVars, pageVars>>

ASM == INSTANCE AppStateMachine

TypeOK ==
    /\ appState \in AppStates
    /\ live \in BOOLEAN /\ up \in BOOLEAN /\ unseen \in BOOLEAN
    /\ tray \in {"check", "take", "ended"} \cup AppStates
    /\ icon \in AppStates \cup {Untouched}
    /\ polls \in [Pages -> [Requests -> AppStates \cup {Free, Sent}]]
    /\ shown \in [Pages -> AppStates \cup {Untouched}]
    /\ enabled \in [Pages -> SUBSET Buttons]
    /\ clicked \in [Pages -> BOOLEAN]

\* A receiver made by Sender::subscribe takes the value of that moment for seen.
\* The icon is set to red, "Stopped", whatever the state is.
Init ==
    /\ \/ appState = "Running" /\ live = TRUE
       \/ appState = "Starting" /\ live = FALSE
    /\ up = TRUE
    /\ unseen = FALSE
    /\ tray = "check" /\ icon = Untouched
    /\ polls = [p \in Pages |-> [r \in Requests |-> Free]]
    /\ shown = [p \in Pages |-> Untouched]
    /\ enabled = [p \in Pages |-> Buttons]
    /\ clicked = [p \in Pages |-> FALSE]

-----------------------------------------------------------------------------
(* The bridge. *)

\* state.tx.send: every receiver has something new.
Move ==
    /\ up
    /\ ASM!Next
    /\ unseen' = (unseen \/ appState' # appState)
    /\ UNCHANGED <<up, tray, icon, pageVars>>

\* run_router returns: after a stop, or through the `?` of an illegal transition.
Exit ==
    /\ up
    /\ appState \in {"Stopped", "Starting"}
    /\ up' = FALSE
    /\ UNCHANGED <<appState, live, trayVars, pageVars>>

-----------------------------------------------------------------------------
(* The tray thread's loop. *)

\* Its oneshot is dropped when run_router returns.
EndTray ==
    /\ tray = "check" /\ ~up
    /\ tray' = "ended"
    /\ UNCHANGED <<bridgeVars, unseen, icon, pageVars>>

\* has_changed().
Look ==
    /\ tray = "check" /\ up
    /\ unseen
    /\ tray' = "take"
    /\ UNCHANGED <<bridgeVars, unseen, icon, pageVars>>

\* borrow_and_update(): the value, and the mark that it is seen.
Take ==
    /\ tray = "take"
    /\ tray' = appState
    /\ unseen' = FALSE
    /\ UNCHANGED <<bridgeVars, icon, pageVars>>

\* Seeded fault: the value is marked as seen once the icon shows it.
ShowThenMark ==
    /\ tray \in AppStates
    /\ icon' = tray
    /\ unseen' = FALSE
    /\ tray' = "check"
    /\ UNCHANGED <<bridgeVars, pageVars>>

\* Seeded fault: the icon is set whether a value was taken or not.
ShowUntaken ==
    /\ tray # "ended"
    /\ icon' = tray
    /\ tray' = "check"
    /\ UNCHANGED <<bridgeVars, unseen, pageVars>>

ShowIcon ==
    /\ tray \in AppStates
    /\ icon' = tray
    /\ tray' = "check"
    /\ UNCHANGED <<bridgeVars, unseen, pageVars>>

\* What the user sees, in the terms of the state.
TrayShows == IF icon = Untouched THEN "Stopped" ELSE icon

TrayStep == EndTray \/ Look \/ Take \/ ShowIcon

-----------------------------------------------------------------------------
(* A dashboard page. *)

SetPoll(p, r, v) == polls' = [polls EXCEPT ![p][r] = v]

\* Seeded fault: the page asks again only while the state is on its way.
PollWhileMoving(p, r) ==
    /\ up
    /\ polls[p][r] = Free
    /\ shown[p] \in {Untouched, "Starting", "Stopping"}
    /\ SetPoll(p, r, Sent)
    /\ UNCHANGED <<bridgeVars, trayVars, shown, enabled, clicked>>

\* setInterval(updateStatus, 5000), or the status asked for after a command.
\* Without a server it fails at once.
Poll(p, r) ==
    /\ up
    /\ polls[p][r] = Free
    /\ SetPoll(p, r, Sent)
    /\ UNCHANGED <<bridgeVars, trayVars, shown, enabled, clicked>>

\* The handler reads the state first, and waits for the configuration after it.
Answer(p, r) ==
    /\ up
    /\ polls[p][r] = Sent
    /\ SetPoll(p, r, appState)
    /\ UNCHANGED <<bridgeVars, trayVars, shown, enabled, clicked>>

\* updateTransportButtons.  Switch is the button of the other transport.
Allowed(s) ==
    CASE s = "Stopped" -> {"Start"}
      [] s = "Running" -> {"Stop", "Switch"}
      [] OTHER         -> {}

\* Seeded fault: an answer that does not change the state shown is dropped.
ShowStatusIfNew(p, r) ==
    /\ polls[p][r] \in AppStates
    /\ shown' = [shown EXCEPT ![p] = polls[p][r]]
    /\ enabled' = [enabled EXCEPT ![p] = IF polls[p][r] = shown[p] THEN @ ELSE Allowed(polls[p][r])]
    /\ SetPoll(p, r, Free)
    /\ UNCHANGED <<bridgeVars, trayVars, clicked>>

\* The answer is shown when it comes, be it newer or older than the last.
ShowStatus(p, r) ==
    /\ polls[p][r] \in AppStates
    /\ shown' = [shown EXCEPT ![p] = polls[p][r]]
    /\ enabled' = [enabled EXCEPT ![p] = Allowed(polls[p][r])]
    /\ SetPoll(p, r, Free)
    /\ UNCHANGED <<bridgeVars, trayVars, clicked>>

\* A request that fails is passed over in silence.
Lose(p, r) ==
    /\ polls[p][r] # Free
    /\ SetPoll(p, r, Free)
    /\ UNCHANGED <<bridgeVars, trayVars, shown, enabled, clicked>>

\* switchTransport: the button is disabled until the answer, whatever it is, and
\* enabled then without a look at the state.
ClickSwitch(p) ==
    /\ up
    /\ ~clicked[p] /\ "Switch" \in enabled[p]
    /\ clicked' = [clicked EXCEPT ![p] = TRUE]
    /\ enabled' = [enabled EXCEPT ![p] = @ \ {"Switch"}]
    /\ UNCHANGED <<bridgeVars, trayVars, polls, shown>>

SwitchAnswered(p) ==
    /\ clicked[p]
    /\ clicked' = [clicked EXCEPT ![p] = FALSE]
    /\ enabled' = [enabled EXCEPT ![p] = @ \cup {"Switch"}]
    /\ UNCHANGED <<bridgeVars, trayVars, polls, shown>>

PageStep(p) ==
    \/ \E r \in Requests : Poll(p, r) \/ Answer(p, r) \/ ShowStatus(p, r) \/ Lose(p, r)
    \/ ClickSwitch(p) \/ SwitchAnswered(p)

Next ==
    \/ Move \/ Exit
    \/ TrayStep
    \/ \E p \in Pages : PageStep(p)

Spec == Init /\ [][Next]_vars

\* The tray's loop goes round, a page's timer fires, the server answers and the
\* network does not lose every answer.  The bridge and the users owe nothing.
PageFairness(p) ==
    /\ WF_vars(\E r \in Requests : Poll(p, r))
    /\ SF_vars(\E r \in Requests : Answer(p, r))
    /\ SF_vars(\E r \in Requests : ShowStatus(p, r))

LiveSpec == Spec /\ WF_vars(TrayStep) /\ \A p \in Pages : PageFairness(p)

-----------------------------------------------------------------------------

\* Whenever the tray thread has nothing new to look at, its icon shows the
\* current state, if it has ever been set: no state sent between its steps is
\* lost (tray.rs, the watch loop).
TrayIsCurrent ==
    tray = "check" /\ ~unseen /\ icon # Untouched => icon = appState

\* ... and then a green icon stands for a router that is up, a red one that was
\* set for none: whatever starts and stops fell between two looks of the thread.
IconTellsRouter ==
    tray = "check" /\ ~unseen =>
        /\ icon = "Running" => live
        /\ icon = "Stopped" => ~live

\* A state that stays is on the icon in the end, however short the states before
\* it were, unless it has been the state since the tray was made.
TrayCatchesUp ==
    \A s \in AppStates :
        <>[](up /\ appState = s) => \/ <>[](icon = s)
                                    \/ [](appState = s)

\* A state that stays is on every page in the end: answers that were read in an
\* older state, lost or overtaken, are made up for.
DashboardCatchesUp ==
    \A s \in AppStates, p \in Pages :
        <>[](up /\ appState = s) => <>[](shown[p] = s)

\* ... and the page's buttons are those of that state time and again, although
\* the answer to a click enables one without a look at the state.
ButtonsCatchUp ==
    \A s \in AppStates, p \in Pages :
        <>[](up /\ appState = s) => []<>(enabled[p] \subseteq Allowed(s))

-----------------------------------------------------------------------------

\* FSD 8.3: the icon is updated in real time, and red only when the router is
\* stopped.  The receiver takes the state of its making for seen, so the icon
\* of a bridge that started well stays red, "Stopped".
RunningIsNotRed ==
    appState = "Running" ~> (TrayShows # "Stopped" \/ appState # "Running" \/ ~up)

=============================================================================
