-------------------------- MODULE StateWatchersProofs --------------------------
(***************************************************************************)
(* Proofs about StateWatchers: its types, and that the tray's icon is the  *)
(* current state whenever its thread has nothing new to look at.           *)
(***************************************************************************)
EXTENDS StateWatchers, TLAPS

\* The state moves from one AppState to another.
LEMMA MoveTypes ==
    ASSUME TypeOK, ASM!Next
    PROVE  appState' \in AppStates /\ live' \in BOOLEAN
BY DEF TypeOK, AppStates, ASM!Next, ASM!BeginStart, ASM!RouterUp, ASM!AnnounceRunning,
       ASM!BeginStop, ASM!FinishStop

LEMMA AllowedButtons == ASSUME NEW s \in AppStates PROVE Allowed(s) \subseteq Buttons
BY DEF Allowed, Buttons, AppStates

LEMMA PollTypes ==
    ASSUME TypeOK, NEW p \in Pages, NEW r \in Requests,
           NEW v \in AppStates \cup {Free, Sent}, SetPoll(p, r, v)
    PROVE  polls' \in [Pages -> [Requests -> AppStates \cup {Free, Sent}]]
BY DEF TypeOK, SetPoll

LEMMA PageTypes ==
    ASSUME TypeOK, NEW p \in Pages, PageStep(p)
    PROVE  TypeOK'
<1> USE DEF TypeOK, bridgeVars, trayVars
<1>1. ASSUME NEW r \in Requests, Poll(p, r) PROVE TypeOK'
  BY <1>1, PollTypes DEF Poll
<1>2. ASSUME NEW r \in Requests, Answer(p, r) PROVE TypeOK'
  BY <1>2, PollTypes DEF Answer
<1>3. ASSUME NEW r \in Requests, ShowStatus(p, r) PROVE TypeOK'
  <2>1. polls' \in [Pages -> [Requests -> AppStates \cup {Free, Sent}]]
    BY <1>3, PollTypes DEF ShowStatus
  <2>2. enabled' \in [Pages -> SUBSET Buttons]
    BY <1>3, AllowedButtons DEF ShowStatus
  <2> QED BY <1>3, <2>1, <2>2 DEF ShowStatus
<1>4. ASSUME NEW r \in Requests, Lose(p, r) PROVE TypeOK'
  BY <1>4, PollTypes DEF Lose
<1>5. CASE ClickSwitch(p)
  BY <1>5 DEF ClickSwitch
<1>6. CASE SwitchAnswered(p)
  BY <1>6 DEF SwitchAnswered, Buttons
<1> QED BY <1>1, <1>2, <1>3, <1>4, <1>5, <1>6 DEF PageStep

\* What a value taken, and not yet shown, has to do with the current one.
TrayKnows ==
    /\ TrayIsCurrent
    /\ tray \in AppStates /\ ~unseen => tray = appState
    /\ tray = "take" => unseen

IInv == TypeOK /\ TrayKnows

LEMMA InitInv == Init => IInv
<1> SUFFICES ASSUME Init PROVE IInv
  OBVIOUS
<1>1. appState \in AppStates /\ live \in BOOLEAN /\ up \in BOOLEAN /\ unseen \in BOOLEAN
  BY Zenon DEF Init, AppStates
<1>2. /\ polls \in [Pages -> [Requests -> AppStates \cup {Free, Sent}]]
      /\ shown \in [Pages -> AppStates \cup {Untouched}]
      /\ enabled \in [Pages -> SUBSET Buttons]
      /\ clicked \in [Pages -> BOOLEAN]
  BY Zenon DEF Init
<1>3. tray = "check" /\ icon = Untouched /\ "check" \notin AppStates
  BY DEF Init, AppStates
<1> QED BY <1>1, <1>2, <1>3 DEF IInv, TypeOK, TrayKnows, TrayIsCurrent

LEMMA StepInv == IInv /\ [Next]_vars => IInv'
<1> SUFFICES ASSUME IInv, [Next]_vars PROVE IInv'
  OBVIOUS
<1> USE DEF IInv
<1>1. CASE Move
  <2>1. TypeOK'
    BY <1>1, MoveTypes DEF Move, TypeOK, pageVars
  <2>2. TrayKnows'
    BY <1>1 DEF Move, TrayKnows, TrayIsCurrent, TypeOK, AppStates
  <2> QED BY <2>1, <2>2
<1>2. CASE Exit
  BY <1>2 DEF Exit, TypeOK, TrayKnows, TrayIsCurrent, trayVars, pageVars
<1>3. CASE TrayStep
  <2> USE DEF TypeOK, TrayKnows, TrayIsCurrent, bridgeVars, pageVars, AppStates
  <2>1. CASE EndTray
    BY <2>1 DEF EndTray
  <2>2. CASE Look
    BY <2>2 DEF Look
  <2>3. CASE Take
    BY <2>3 DEF Take
  <2>4. CASE ShowIcon
    BY <2>4 DEF ShowIcon
  <2> QED BY <1>3, <2>1, <2>2, <2>3, <2>4 DEF TrayStep
<1>4. ASSUME NEW p \in Pages, PageStep(p) PROVE IInv'
  <2>1. TypeOK'
    BY <1>4, PageTypes
  <2>2. UNCHANGED <<appState, tray, unseen, icon>>
    BY <1>4 DEF PageStep, Poll, Answer, ShowStatus, Lose, ClickSwitch, SwitchAnswered,
                bridgeVars, trayVars
  <2> QED BY <2>1, <2>2 DEF TrayKnows, TrayIsCurrent
<1>5. CASE UNCHANGED vars
  BY <1>5 DEF vars, bridgeVars, trayVars, pageVars, TypeOK, TrayKnows, TrayIsCurrent
<1> QED BY <1>1, <1>2, <1>3, <1>4, <1>5 DEF Next

LEMMA Inductive == Spec => []IInv
BY InitInv, StepInv, PTL DEF Spec

\* The tray thread, the pages and their requests keep their types, for any
\* number of pages and of requests under way.
THEOREM TypeCorrect == Spec => []TypeOK
<1>1. IInv => TypeOK
  BY DEF IInv
<1> QED BY Inductive, <1>1, PTL

\* No state sent between two steps of the tray thread is lost: when it has
\* nothing new to look at, the icon it set is that of the current state.
THEOREM TrayLosesNothing == Spec => []TrayIsCurrent
<1>1. IInv => TrayIsCurrent
  BY DEF IInv, TrayKnows
<1> QED BY Inductive, <1>1, PTL

\* The bridge's two variables move as AppStateMachine says, whoever watches.
LEMMA BridgeTellsRouter == Spec => []ASM!StateTellsRouter
<1>1. Init => ASM!StateTellsRouter
  BY DEF Init, ASM!StateTellsRouter
<1>2. [Next]_vars => [ASM!Next]_(ASM!vars)
  BY DEF Next, Move, Exit, TrayStep, EndTray, Look, Take, ShowIcon, PageStep, Poll, Answer,
         ShowStatus, Lose, ClickSwitch, SwitchAnswered, bridgeVars, vars, ASM!vars
<1> QED BY <1>1, <1>2, ASM!StepTellsTruth, PTL DEF Spec

\* A green icon with nothing new behind it has a router behind it, and a red one
\* that was set has none.
THEOREM IconIsTrue == Spec => []IconTellsRouter
<1>1. IInv /\ ASM!StateTellsRouter => IconTellsRouter
  BY DEF IInv, TrayKnows, TrayIsCurrent, ASM!StateTellsRouter, IconTellsRouter, Untouched
<1> QED BY Inductive, BridgeTellsRouter, <1>1, PTL

=============================================================================
