------------------------- MODULE RouterLifecycleProofs -------------------------
(***************************************************************************)
(* Proofs about RouterLifecycle, for every set of clients and every        *)
(* capacity of the command channel.                                        *)
(***************************************************************************)
EXTENDS RouterLifecycle, TLAPS

-----------------------------------------------------------------------------
(***************************************************************************)
(* The inductive invariant.  TypeOK is not inductive by itself (what is    *)
(* saved as the transport is the command being handled), nor are the       *)
(* safety properties, which speak of select only: LoopInv says what is     *)
(* true at each await of the main task.                                    *)
(***************************************************************************)
LoopInv ==
    /\ pc = "launch" => appState = "Stopped" /\ Live = {}
    /\ pc = "boot" => appState = "Starting" /\ Live = {}
    /\ pc = "select" =>
          /\ local = {}
          /\ appState # "Stopping"
          /\ running # {} <=> appState = "Running"
    /\ pc = "stopping" => running = {} /\ appState = "Stopping"
    /\ pc = "saving" =>
          cmd \in Modes /\ Live = {} /\ appState \in {"Stopped", "Starting"}
    /\ pc \in {"toStart", "starting"} => appState = "Starting" /\ Live = {}
    /\ pc = "publish" => running = {} /\ local # {} /\ appState = "Starting"
    /\ pc = "exited" => Live = {}
    /\ exit # "none" => pc = "exited"

IInv == TypeOK /\ LoopInv /\ FreshHandle

-----------------------------------------------------------------------------
(* Type correctness. *)

\* The initial states are well typed.
LEMMA InitTypeOK == Init => TypeOK
  BY QueueCapAssumption
     DEF Init, TypeOK, AppStates, PCs, Transports, Modes, Instances, Commands

\* Every step keeps the types; Send and TrayClick keep the channel in its bound.
LEMMA StepTypeOK == IInv /\ [Next]_vars => TypeOK'
<1> SUFFICES ASSUME TypeOK, LoopInv, [Next]_vars PROVE TypeOK'
  BY DEF IInv
<1> USE DEF TypeOK, routerVars, configVars
<1>h. NewRouter \in Instances \/ cfgTransport \notin Modes
  BY DEF NewRouter, Instances
<1>1. CASE Launch
  BY <1>1 DEF Launch, TryTransition, Legal, AppStates, PCs
<1>2. CASE BootOk
  BY <1>2, <1>h DEF BootOk, Advance, Legal, AppStates, PCs
<1>3. CASE BootErr
  BY <1>3 DEF BootErr, TryTransition, Legal, AppStates, PCs
<1>r. ASSUME NEW k \in Commands, Receive(k)
      PROVE queue' \in Seq(Commands) /\ Len(queue') <= QueueCap
  BY <1>r, QueueCapAssumption DEF Receive
<1>4. CASE HandleStop
  <2>1. queue' \in Seq(Commands) /\ Len(queue') <= QueueCap
    BY <1>4, <1>r DEF HandleStop, Commands
  <2>2. QED
    BY <1>4, <2>1 DEF HandleStop, Advance, TakeRunning, Legal, AppStates, PCs, Commands
<1>5. CASE HandleExit
  <2>1. queue' \in Seq(Commands) /\ Len(queue') <= QueueCap
    BY <1>5, <1>r DEF HandleExit, Commands
  <2>2. QED
    BY <1>5, <2>1
       DEF HandleExit, ShutDown, Advance, TakeRunning, Legal, AppStates, PCs, Commands
<1>6. CASE HandleStart
  <2>1. queue' \in Seq(Commands) /\ Len(queue') <= QueueCap
    BY <1>6, <1>r DEF HandleStart, Commands
  <2>2. QED
    BY <1>6, <2>1 DEF HandleStart, TryTransition, Legal, AppStates, PCs, Commands
<1>7. CASE HandleSwitch
  <2>1. queue' \in Seq(Commands) /\ Len(queue') <= QueueCap
    BY <1>7, <1>r DEF HandleSwitch, Commands
  <2>2. QED
    BY <1>7, <2>1
       DEF HandleSwitch, TryTransition, TakeRunning, Legal, AppStates, PCs, Commands
<1>8. CASE StopDone
  BY <1>8 DEF StopDone, RouterStopped, Advance, Legal, AppStates, PCs
<1>9. CASE ShutDownDone
  BY <1>9 DEF ShutDownDone, RouterStopped, Advance, Legal, AppStates, PCs
<1>10. CASE SwitchStopDone
  BY <1>10 DEF SwitchStopDone, RouterStopped, TryTransition, Legal, AppStates, PCs
<1>11. CASE SaveTransport
  <2>1. cmd \in Transports
    BY <1>11 DEF SaveTransport, LoopInv, Transports
  <2>2. QED
    BY <1>11, <2>1 DEF SaveTransport, TryTransition, Legal, AppStates, PCs
<1>12. CASE ReadConfig
  BY <1>12 DEF ReadConfig, PCs
<1>13. CASE StartOk
  BY <1>13, <1>h DEF StartOk, PCs
<1>14. CASE StartErr
  BY <1>14 DEF StartErr, TryTransition, Legal, AppStates, PCs
<1>15. CASE Publish
  BY <1>15 DEF Publish, HandleAfterStart, TryTransition, Legal, AppStates, PCs, Instances
<1>16. CASE Interrupt
  BY <1>16
     DEF Interrupt, ShutDown, Advance, TakeRunning, Legal, HubAfterSignal, AppStates, PCs
<1>17. ASSUME NEW c \in Clients, Request(c) PROVE TypeOK'
  BY <1>17 DEF Request
<1>18. ASSUME NEW c \in Clients, Send(c) PROVE TypeOK'
  BY <1>18, QueueCapAssumption DEF Send
<1>19. ASSUME NEW c \in Clients, Disconnect(c) PROVE TypeOK'
  BY <1>19 DEF Disconnect
<1>20. CASE PutConfig
  BY <1>20 DEF PutConfig
<1>21. CASE TrayClick
  BY <1>21, QueueCapAssumption DEF TrayClick
<1>22. CASE UNCHANGED vars
  BY <1>22 DEF vars
<1>23. QED
  BY <1>1, <1>2, <1>3, <1>4, <1>5, <1>6, <1>7, <1>8, <1>9, <1>10, <1>11, <1>12,
     <1>13, <1>14, <1>15, <1>16, <1>17, <1>18, <1>19, <1>20, <1>21, <1>22
     DEF Next, LoopStep, StartReturns, Terminated
-----------------------------------------------------------------------------
(* The loop. *)

\* Before the first start there is no router and no handle.
LEMMA InitLoopInv == Init => LoopInv /\ FreshHandle
  BY DEF Init, LoopInv, Live, FreshHandle

\* Every step keeps what the place in the loop says of the state and the routers.
LEMMA StepLoopInv == IInv /\ [Next]_vars => LoopInv'
<1> SUFFICES ASSUME TypeOK, LoopInv, [Next]_vars PROVE LoopInv'
  BY DEF IInv
<1> USE DEF LoopInv, Live, routerVars
<1>1. CASE Launch
  BY <1>1 DEF Launch, TryTransition, Legal
<1>2. CASE BootOk
  BY <1>2 DEF BootOk, Advance, Legal
<1>3. CASE BootErr
  BY <1>3 DEF BootErr, TryTransition, Legal
<1>4. CASE HandleStop
  BY <1>4 DEF HandleStop, Receive, Advance, TakeRunning, Legal
<1>5. CASE HandleExit
  BY <1>5 DEF HandleExit, Receive, ShutDown, Advance, TakeRunning, Legal, TypeOK, AppStates
<1>6. CASE HandleStart
  BY <1>6 DEF HandleStart, Receive, TryTransition, Legal
<1>7. CASE HandleSwitch
  BY <1>7 DEF HandleSwitch, Receive, TryTransition, TakeRunning, Legal, TypeOK, AppStates
<1>8. CASE StopDone
  BY <1>8 DEF StopDone, RouterStopped, Advance, Legal
<1>9. CASE ShutDownDone
  BY <1>9 DEF ShutDownDone, RouterStopped, Advance, Legal
<1>10. CASE SwitchStopDone
  BY <1>10 DEF SwitchStopDone, RouterStopped, TryTransition, Legal
<1>11. CASE SaveTransport
  BY <1>11 DEF SaveTransport, TryTransition, Legal
<1>12. CASE ReadConfig
  BY <1>12 DEF ReadConfig
<1>13. CASE StartOk
  BY <1>13 DEF StartOk
<1>14. CASE StartErr
  BY <1>14 DEF StartErr, TryTransition, Legal
<1>15. CASE Publish
  BY <1>15 DEF Publish, TryTransition, Legal
<1>16. CASE Interrupt
  BY <1>16 DEF Interrupt, ShutDown, Advance, TakeRunning, Legal, TypeOK, AppStates
<1>17. ASSUME NEW c \in Clients, Request(c) PROVE LoopInv'
  BY <1>17 DEF Request
<1>18. ASSUME NEW c \in Clients, Send(c) PROVE LoopInv'
  BY <1>18 DEF Send
<1>19. ASSUME NEW c \in Clients, Disconnect(c) PROVE LoopInv'
  BY <1>19 DEF Disconnect
<1>20. CASE PutConfig
  BY <1>20 DEF PutConfig
<1>21. CASE TrayClick
  BY <1>21 DEF TrayClick
<1>22. CASE UNCHANGED vars
  BY <1>22 DEF vars
<1>23. QED
  BY <1>1, <1>2, <1>3, <1>4, <1>5, <1>6, <1>7, <1>8, <1>9, <1>10, <1>11, <1>12,
     <1>13, <1>14, <1>15, <1>16, <1>17, <1>18, <1>19, <1>20, <1>21, <1>22
     DEF Next, LoopStep, StartReturns, Terminated

\* Every step keeps the handle that of the running router.
LEMMA StepFreshHandle == IInv /\ [Next]_vars => FreshHandle'
<1> SUFFICES ASSUME LoopInv, FreshHandle, [Next]_vars PROVE FreshHandle'
  BY DEF IInv
<1> USE DEF FreshHandle, routerVars
\* Only the first start and Publish give `running` a router.
<1>1. CASE BootOk
  BY <1>1 DEF BootOk, NewRouter
<1>2. CASE Publish
  BY <1>2 DEF Publish, HandleAfterStart
<1>3. CASE running' \in {running, {}} /\ bbmdHandle' = bbmdHandle
  BY <1>3
<1>4. CASE HandleStop \/ HandleExit \/ HandleSwitch
  BY <1>3, <1>4
     DEF HandleStop, HandleExit, HandleSwitch, ShutDown, Advance, TakeRunning
<1>5. CASE Launch \/ BootErr \/ HandleStart \/ StopDone \/ ShutDownDone \/ SwitchStopDone
           \/ SaveTransport \/ ReadConfig \/ StartOk \/ StartErr
  BY <1>3, <1>5
     DEF Launch, BootErr, HandleStart, StopDone, ShutDownDone, SwitchStopDone,
         RouterStopped, SaveTransport, ReadConfig, StartOk, StartErr
<1>6. CASE Interrupt
  BY <1>3, <1>6 DEF Interrupt, ShutDown, TakeRunning
<1>7. ASSUME NEW c \in Clients, Request(c) \/ Send(c) \/ Disconnect(c)
      PROVE FreshHandle'
  BY <1>3, <1>7 DEF Request, Send, Disconnect
<1>8. CASE PutConfig \/ TrayClick \/ UNCHANGED vars
  BY <1>3, <1>8 DEF PutConfig, TrayClick, vars
<1>9. QED
  BY <1>1, <1>2, <1>4, <1>5, <1>6, <1>7, <1>8
     DEF Next, LoopStep, StartReturns, Terminated

-----------------------------------------------------------------------------
(* The theorems. *)

\* The invariant holds throughout: each of the loop's handlers relies on what
\* the ones before it left, through every await of router_cmd.rs.
THEOREM Inductive == Spec => []IInv
<1>1. Init => IInv
  BY InitTypeOK, InitLoopInv DEF IInv
<1>2. IInv /\ [Next]_vars => IInv'
  BY StepTypeOK, StepLoopInv, StepFreshHandle DEF IInv
<1>3. QED
  BY <1>1, <1>2, PTL DEF Spec

\* Every variable keeps its type; in particular the command channel never
\* holds more commands than its capacity.
THEOREM TypeCorrect == Spec => []TypeOK
<1>1. IInv => TypeOK
  BY DEF IInv
<1>2. QED
  BY <1>1, Inductive, PTL

\* Whenever the loop waits in select, the announced state says whether a
\* router is up.
THEOREM StateTellsHandle == Spec => []HandleMatchesState
<1>1. IInv => HandleMatchesState
  BY DEF IInv, LoopInv, HandleMatchesState
<1>2. QED
  BY <1>1, Inductive, PTL

\* No start begins while another router is up, and a handler never holds one
\* beside the running one.
THEOREM AtMostOneRouter == Spec => []OneRouter
<1>1. IInv => OneRouter
  BY DEF IInv, TypeOK, PCs, LoopInv, OneRouter, Live
<1>2. QED
  BY <1>1, Inductive, PTL

\* run_router never returns, Ok or Err, with a router that was not stopped.
THEOREM NoRouterAbandoned == Spec => []CleanExit
<1>1. IInv => CleanExit
  BY DEF IInv, LoopInv, CleanExit
<1>2. QED
  BY <1>1, Inductive, PTL

\* While a router runs, the FDT task's handle is that router's.
THEOREM HandleIsFresh == Spec => []FreshHandle
<1>1. IInv => FreshHandle
  BY DEF IInv
<1>2. QED
  BY <1>1, Inductive, PTL

-----------------------------------------------------------------------------
(* What /api/status says of the running router's transport. *)

\* Routers come up with the configured transport, and the only other writer of
\* it but PutConfig, SaveTransport, finds none.
LEMMA MisreportedStep ==
  IInv /\ [Next]_vars /\ Misreported' /\ ~Misreported
    => cfgTransport' # cfgTransport /\ UNCHANGED <<pc, cmd, Live>>
<1> SUFFICES ASSUME LoopInv, [Next]_vars, Misreported', ~Misreported
             PROVE cfgTransport' # cfgTransport /\ UNCHANGED <<pc, cmd, Live>>
  BY DEF IInv
<1> USE DEF Misreported, routerVars, configVars
\* A step that makes no router and leaves the transport alone cannot do it.
<1>1. ~(Live' \subseteq Live /\ cfgTransport' = cfgTransport)
  OBVIOUS
<1>2. ~(\A r \in Live' : r.mode = cfgTransport')
  OBVIOUS
<1>3. ~BootOk
  <2> SUFFICES ASSUME BootOk PROVE FALSE
    OBVIOUS
  <2>1. Live' = {NewRouter} /\ cfgTransport' = cfgTransport
    BY DEF BootOk, LoopInv, Live
  <2>2. QED
    BY <2>1, <1>2 DEF NewRouter
<1>4. ~StartOk
  <2> SUFFICES ASSUME StartOk PROVE FALSE
    OBVIOUS
  <2>1. Live' = {NewRouter} /\ cfgTransport' = cfgTransport
    BY DEF StartOk, LoopInv, Live
  <2>2. QED
    BY <2>1, <1>2 DEF NewRouter
<1>5. ~SaveTransport
  <2> SUFFICES ASSUME SaveTransport PROVE FALSE
    OBVIOUS
  <2>1. Live' = {}
    BY DEF SaveTransport, LoopInv, Live
  <2>2. QED
    BY <2>1, <1>2
<1>6. ~(HandleStop \/ HandleExit \/ HandleStart \/ HandleSwitch)
  BY <1>1 DEF HandleStop, HandleExit, HandleStart, HandleSwitch, ShutDown, TakeRunning, Live
<1>7. ~(StopDone \/ ShutDownDone \/ SwitchStopDone)
  BY <1>1 DEF StopDone, ShutDownDone, SwitchStopDone, RouterStopped, Live
<1>8. ~(Launch \/ BootErr \/ ReadConfig \/ StartErr \/ Publish)
  BY <1>1 DEF Launch, BootErr, ReadConfig, StartErr, Publish, Live
<1>9. ~Interrupt
  BY <1>1 DEF Interrupt, ShutDown, TakeRunning, Live
<1>10. \A c \in Clients : ~(Request(c) \/ Send(c) \/ Disconnect(c))
  BY <1>1 DEF Request, Send, Disconnect, Live
<1>11. ~(TrayClick \/ Terminated \/ UNCHANGED vars)
  BY <1>1 DEF TrayClick, Terminated, vars, Live
<1>12. PutConfig
  BY <1>3, <1>4, <1>5, <1>6, <1>7, <1>8, <1>9, <1>10, <1>11
     DEF Next, LoopStep, StartReturns
<1>13. QED
  BY <1>1, <1>12 DEF PutConfig, Live

\* The transport /api/status reports is that of the router that is up until a
\* PUT changes the configuration beneath it.
THEOREM OnlyPutParts == Spec => OnlyPutMisreports
<1>1. IInv /\ [Next]_vars
        => [Misreported' /\ ~Misreported =>
              cfgTransport' # cfgTransport /\ UNCHANGED <<pc, cmd, Live>>]_vars
  BY MisreportedStep
<1>2. QED
  BY <1>1, Inductive, PTL DEF Spec, OnlyPutMisreports

-----------------------------------------------------------------------------
(***************************************************************************)
(* Refinement.  Each step of the loop is a step of AppStateMachine or      *)
(* leaves its two variables alone; no other task touches them.             *)
(***************************************************************************)

\* An initial state is one of the abstract machine.
LEMMA RefinementInit == Init => ASM!Init
  BY DEF Init, ASM!Init, Live

\* Every step of the loop is a step of the abstract machine or a stutter.
LEMMA RefinementStep == IInv /\ [Next]_vars => [ASM!Next]_(ASM!vars)
<1> SUFFICES ASSUME TypeOK, LoopInv, [Next]_vars PROVE [ASM!Next]_(ASM!vars)
  BY DEF IInv
<1> USE DEF LoopInv, Live, routerVars, ASM!vars
<1>1. CASE Launch
  <2>1. ASM!BeginStart
    BY <1>1 DEF Launch, TryTransition, Legal, ASM!BeginStart
  <2>2. QED
    BY <2>1 DEF ASM!Next
<1>2. CASE BootOk
  <2>1. ASM!AnnounceRunning
    BY <1>2 DEF BootOk, Advance, Legal, ASM!AnnounceRunning
  <2>2. QED
    BY <2>1 DEF ASM!Next
<1>3. CASE BootErr
  BY <1>3 DEF BootErr, TryTransition, Legal
<1>4. CASE HandleStop
  <2>1. ASM!BeginStop \/ UNCHANGED ASM!vars
    BY <1>4 DEF HandleStop, Receive, Advance, TakeRunning, Legal, ASM!BeginStop
  <2>2. QED
    BY <2>1 DEF ASM!Next
<1>5. ASSUME NEW k, pc = "select", ShutDown(k) PROVE [ASM!Next]_(ASM!vars)
  <2>1. ASM!BeginStop \/ UNCHANGED ASM!vars
    BY <1>5 DEF ShutDown, Advance, TakeRunning, Legal, ASM!BeginStop
  <2>2. QED
    BY <2>1 DEF ASM!Next
<1>6. CASE HandleExit
  BY <1>5, <1>6 DEF HandleExit, Receive
<1>7. CASE HandleStart
  <2>1. ASM!BeginStart \/ UNCHANGED ASM!vars
    BY <1>7 DEF HandleStart, Receive, TryTransition, Legal, ASM!BeginStart
  <2>2. QED
    BY <2>1 DEF ASM!Next
<1>8. CASE HandleSwitch
  <2>1. ASM!BeginStop \/ UNCHANGED ASM!vars
    BY <1>8 DEF HandleSwitch, Receive, TryTransition, TakeRunning, Legal, ASM!BeginStop
  <2>2. QED
    BY <2>1 DEF ASM!Next
<1>9. CASE StopDone \/ ShutDownDone \/ SwitchStopDone
  <2>1. ASM!FinishStop
    BY <1>9 DEF StopDone, ShutDownDone, SwitchStopDone, RouterStopped, Advance,
                TryTransition, Legal, ASM!FinishStop
  <2>2. QED
    BY <2>1 DEF ASM!Next
<1>10. CASE SaveTransport
  <2>1. ASM!BeginStart \/ UNCHANGED ASM!vars
    BY <1>10 DEF SaveTransport, TryTransition, Legal, ASM!BeginStart
  <2>2. QED
    BY <2>1 DEF ASM!Next
<1>11. CASE ReadConfig
  BY <1>11 DEF ReadConfig
<1>12. CASE StartOk
  <2>1. ASM!RouterUp
    BY <1>12 DEF StartOk, ASM!RouterUp
  <2>2. QED
    BY <2>1 DEF ASM!Next
<1>13. CASE StartErr
  BY <1>13 DEF StartErr, TryTransition, Legal
<1>14. CASE Publish
  <2>1. ASM!AnnounceRunning
    BY <1>14 DEF Publish, TryTransition, Legal, ASM!AnnounceRunning
  <2>2. QED
    BY <2>1 DEF ASM!Next
<1>15. CASE Interrupt
  BY <1>5, <1>15 DEF Interrupt
<1>16. ASSUME NEW c \in Clients, Request(c) \/ Send(c) \/ Disconnect(c)
       PROVE [ASM!Next]_(ASM!vars)
  BY <1>16 DEF Request, Send, Disconnect
<1>17. CASE PutConfig \/ TrayClick \/ UNCHANGED vars
  BY <1>17 DEF PutConfig, TrayClick, vars
<1>18. QED
  BY <1>1, <1>2, <1>3, <1>4, <1>6, <1>7, <1>8, <1>9, <1>10, <1>11, <1>12, <1>13,
     <1>14, <1>15, <1>16, <1>17
     DEF Next, LoopStep, StartReturns, Terminated

\* The lifecycle implements AppStateMachine: whatever is started, switched,
\* stopped or interrupted, the watched state moves round its one cycle and
\* tells whether a router is up.
THEOREM Refinement == Spec => ImplementsAppStateMachine
<1>1. QED
  BY Inductive, RefinementInit, RefinementStep, PTL
     DEF Spec, ImplementsAppStateMachine, ASM!Spec

\* So the lifecycle keeps what the abstract machine promises: at every await, and
\* between any two steps, whoever reads the state is told whether a router is up.
THEOREM StateTellsTruth == Spec => []AnnouncedTruly
BY Refinement, ASM!AnnouncedIsTrue, PTL DEF ImplementsAppStateMachine, AnnouncedTruly

-----------------------------------------------------------------------------
(***************************************************************************)
(* FdtSync and ConfigStore are built on what they take for granted of the  *)
(* main task.  It is true of the main task: each of its steps is a step of *)
(* theirs or a stutter, for any clients and queue.                         *)
(***************************************************************************)

\* The ids alternate: the next one is neither the running router's nor, while a
\* router is started, the handle's.
IdInv ==
    /\ \A r \in Live : r.id = 1 - nextId
    /\ bbmdHandle \in {{}, {0}, {1}}
    /\ pc = "launch" => bbmdHandle = {}
    /\ pc = "boot" => bbmdHandle = {}
    /\ pc = "publish" => bbmdHandle \subseteq {nextId}
    /\ pc # "publish" =>
          /\ bbmdHandle \subseteq {1 - nextId}
          /\ Live # {} => bbmdHandle = {1 - nextId}

\* Steps that leave the routers, the handle and the next id where they are.
Apart ==
    \/ Launch \/ BootErr \/ HandleStart \/ SaveTransport \/ ReadConfig \/ StartErr
    \/ \E c \in Clients : Request(c) \/ Send(c) \/ Disconnect(c)
    \/ PutConfig \/ TrayClick \/ UNCHANGED vars

\* Steps that at most move the running router into a handler.
Takes == HandleStop \/ HandleExit \/ HandleSwitch \/ Interrupt

LEMMA ApartStep ==
    Apart => UNCHANGED routerVars /\ (pc' = "publish" <=> pc = "publish")
                /\ (pc' = "boot" => pc \in {"launch", "boot"}) /\ (pc' = "launch" => pc = "launch")
BY DEF Apart, Launch, BootErr, HandleStart, Receive, SaveTransport, ReadConfig, StartErr, Request,
       Send, Disconnect, PutConfig, TrayClick, vars

LEMMA TakesStep ==
    ASSUME LoopInv, Takes
    PROVE  /\ Live' = Live /\ UNCHANGED <<nextId, bbmdHandle>>
           /\ pc' = "publish" <=> pc = "publish"
           /\ (pc' = "boot" => pc = "boot") /\ (pc' = "launch" => pc = "launch")
BY DEF Takes, HandleStop, HandleExit, HandleSwitch, Interrupt, Receive, ShutDown, Advance,
       TakeRunning, Live, LoopInv, routerVars

LEMMA StepCases ==
    ASSUME [Next]_vars
    PROVE  \/ Apart \/ Takes \/ BootOk \/ StartOk \/ Publish
           \/ StopDone \/ ShutDownDone \/ SwitchStopDone
BY DEF Next, LoopStep, StartReturns, Terminated, Apart, Takes

LEMMA InitIdInv == Init => IdInv
  BY DEF Init, IdInv, Live

\* The ids alternate through every history of starts, failed starts and stops.
LEMMA StepIdInv == IInv /\ IdInv /\ [Next]_vars => IdInv'
<1> SUFFICES ASSUME TypeOK, LoopInv, IdInv, [Next]_vars PROVE IdInv'
  BY DEF IInv
<1> USE DEF IdInv
<1>0. nextId \in {0, 1}
  BY DEF TypeOK
<1>1. CASE Apart
  <2>1. Live' = Live /\ UNCHANGED <<nextId, bbmdHandle>>
    BY <1>1, ApartStep DEF Live, routerVars
  <2> QED BY <1>1, <2>1, ApartStep
<1>2. CASE Takes
  BY <1>2, TakesStep
<1>3. CASE BootOk
  <2>1. /\ Live' = {NewRouter} /\ NewRouter.id = nextId
        /\ nextId' = 1 - nextId /\ bbmdHandle' = {nextId}
    BY <1>3 DEF BootOk, NewRouter, Live, LoopInv
  <2>2. pc' \in {"select", "exited"}
    BY <1>3 DEF BootOk, Advance
  <2> QED BY <1>0, <2>1, <2>2
<1>4. CASE StartOk
  <2>1. /\ Live' = {NewRouter} /\ NewRouter.id = nextId
        /\ nextId' = 1 - nextId /\ bbmdHandle' = bbmdHandle /\ pc' = "publish"
    BY <1>4 DEF StartOk, NewRouter, Live, LoopInv
  <2>2. pc # "publish"
    BY <1>4 DEF StartOk
  <2> QED BY <1>0, <2>1, <2>2
<1>5. CASE Publish
  <2>1. Live' = Live /\ Live = local /\ local # {}
    BY <1>5 DEF Publish, Live, LoopInv
  <2>2. bbmdHandle' = {1 - nextId} /\ nextId' = nextId /\ pc' = "select"
    BY <1>5, <2>1 DEF Publish, HandleAfterStart
  <2> QED BY <1>0, <2>1, <2>2
<1>6. CASE StopDone \/ ShutDownDone \/ SwitchStopDone
  <2>1. Live' = {} /\ UNCHANGED <<nextId, bbmdHandle>> /\ pc = "stopping"
    BY <1>6 DEF StopDone, ShutDownDone, SwitchStopDone, RouterStopped, Live, LoopInv
  <2>2. pc' \in {"select", "exited", "saving"}
    BY <1>6 DEF StopDone, ShutDownDone, SwitchStopDone, Advance
  <2> QED BY <1>0, <2>1, <2>2
<1> QED BY <1>1, <1>2, <1>3, <1>4, <1>5, <1>6, StepCases

\* What the refinement mapping makes of a router and of the handle.
Mapped ==
    /\ IdIn({r.id : r \in Live}) = IF Live = {} THEN 2 ELSE 1 - nextId
    /\ bbmdHandle = {} => IdIn(bbmdHandle) = 2
    /\ \A i \in {0, 1} : bbmdHandle = {i} => IdIn(bbmdHandle) = i

LEMMA MappedIds == TypeOK /\ IdInv => Mapped
<1> SUFFICES ASSUME TypeOK, IdInv PROVE Mapped
  OBVIOUS
<1>1. Live # {} => {r.id : r \in Live} = {1 - nextId}
  BY DEF IdInv
<1>2. nextId \in {0, 1}
  BY DEF TypeOK
<1>3. Live = {} => {r.id : r \in Live} = {}
  OBVIOUS
<1> QED BY <1>1, <1>2, <1>3 DEF Mapped, IdIn

LEMMA HandlesStep ==
    ASSUME TypeOK, LoopInv, IdInv, Mapped, Mapped', nextId' \in {0, 1}, [Next]_vars
    PROVE  [RH!Next]_(RH!vars)
<1> DEFINE runs == IdIn({r.id : r \in Live})
           handle == IdIn(bbmdHandle)
<1>0. nextId \in {0, 1}
  BY DEF TypeOK
<1>1. runs = IF Live = {} THEN 2 ELSE 1 - nextId
  BY DEF Mapped
<1>2. runs' = IF Live' = {} THEN 2 ELSE 1 - nextId'
  BY DEF Mapped
<1>3. CASE Apart \/ Takes
  <2>1. Live' = Live /\ bbmdHandle' = bbmdHandle
    BY <1>3, ApartStep, TakesStep DEF Live, routerVars
  <2>2. runs' = runs /\ handle' = handle
    BY <2>1
  <2> QED BY <2>2 DEF RH!vars
<1>4. CASE BootOk
  <2>1. Live = {} /\ bbmdHandle = {}
    BY <1>4 DEF BootOk, LoopInv, IdInv
  <2>2. Live' # {} /\ nextId' = 1 - nextId /\ bbmdHandle' = {nextId}
    BY <1>4 DEF BootOk, Live
  <2>3. runs = 2 /\ handle = 2
    BY <1>1, <2>1 DEF Mapped
  <2>4. runs' = nextId
    BY <1>0, <1>2, <2>2
  <2>5. handle' = nextId
    BY <1>0, <2>2 DEF Mapped
  <2>6. RH!Boot
    BY <1>0, <2>3, <2>4, <2>5 DEF RH!Boot
  <2> QED BY <2>6 DEF RH!Next
<1>5. CASE StartOk
  <2>1. Live = {} /\ Live' # {} /\ nextId' = 1 - nextId /\ bbmdHandle' = bbmdHandle
    BY <1>5 DEF StartOk, LoopInv, Live
  <2>2. runs = 2 /\ runs' = nextId
    BY <1>0, <1>1, <1>2, <2>1
  <2>3. handle' = handle /\ handle \in {2, 1 - nextId}
    <3>1. bbmdHandle = {} \/ bbmdHandle = {1 - nextId}
      BY <1>5 DEF StartOk, IdInv
    <3> QED BY <1>0, <2>1, <3>1 DEF Mapped
  <2>4. RH!StartRouter
    BY <1>0, <2>2, <2>3 DEF RH!StartRouter
  <2> QED BY <2>4 DEF RH!Next
<1>6. CASE Publish
  <2>1. Live' = Live /\ Live # {} /\ nextId' = nextId
    BY <1>6 DEF Publish, LoopInv, Live
  <2>2. bbmdHandle' = {1 - nextId}
    BY <1>6 DEF Publish, LoopInv, Live, IdInv, HandleAfterStart
  <2>3. runs = 1 - nextId /\ runs' = runs
    BY <1>1, <2>1
  <2>4. handle' = 1 - nextId
    BY <1>0, <2>2 DEF Mapped
  <2>5. handle \in {2, nextId}
    <3>1. bbmdHandle = {} \/ bbmdHandle = {nextId}
      BY <1>6 DEF Publish, IdInv
    <3> QED BY <1>0, <3>1 DEF Mapped
  <2>6. RH!Publish
    BY <1>0, <2>3, <2>4, <2>5 DEF RH!Publish, RH!Publishing
  <2> QED BY <2>6 DEF RH!Next
<1>7. CASE StopDone \/ ShutDownDone \/ SwitchStopDone
  <2>1. Live' = {} /\ bbmdHandle' = bbmdHandle /\ pc = "stopping"
    BY <1>7 DEF StopDone, ShutDownDone, SwitchStopDone, RouterStopped, LoopInv, Live
  <2>2. runs' = 2 /\ handle' = handle
    BY <1>2, <2>1
  <2>3. CASE Live = {}
    BY <1>1, <2>2, <2>3 DEF RH!vars
  <2>4. CASE Live # {}
    <3>1. bbmdHandle = {1 - nextId}
      BY <2>1, <2>4 DEF IdInv
    <3>2. runs = 1 - nextId /\ handle = 1 - nextId
      BY <1>0, <1>1, <2>4, <3>1 DEF Mapped
    <3>3. RH!StopRouter
      BY <1>0, <2>2, <3>2 DEF RH!StopRouter, RH!Publishing
    <3> QED BY <3>3 DEF RH!Next
  <2> QED BY <2>3, <2>4
<1> QED BY <1>3, <1>4, <1>5, <1>6, <1>7, StepCases

\* FdtSync may take the handle's turns for granted: whatever the commands and
\* failures, no start path leaves the handle behind.
THEOREM HandlesRefinement == Spec => ImplementsRouterHandles
<1>1. Init => IdInv /\ RH!Init
  <2> SUFFICES ASSUME Init PROVE RH!Init
    BY InitIdInv
  <2>1. Live = {} /\ bbmdHandle = {}
    BY DEF Init, Live
  <2>2. {r.id : r \in Live} = {}
    BY <2>1
  <2> QED BY <2>1, <2>2 DEF RH!Init, IdIn
<1>2. TypeOK /\ LoopInv /\ IdInv /\ Mapped /\ Mapped' /\ TypeOK' /\ [Next]_vars => [RH!Next]_(RH!vars)
  <2>1. TypeOK' => nextId' \in {0, 1}
    BY DEF TypeOK
  <2> QED BY <2>1, HandlesStep
<1>3. IInv => TypeOK /\ LoopInv
  BY DEF IInv
<1> QED
  BY <1>1, <1>2, <1>3, Inductive, StepIdInv, MappedIds, PTL
     DEF Spec, ImplementsRouterHandles, RH!Spec

\* Every step of the main task is one of TaskPhases, or is not seen by the handlers.
LEMMA PhasesStep ==
    ASSUME TypeOK, LoopInv, [Next]_vars
    PROVE  [Phases!Next]_(Phases!vars)
<1> USE DEF LoopInv, Serving, Phases!vars
<1>1. CASE Launch
  BY <1>1 DEF Launch
<1>2. CASE BootOk \/ BootErr
  <2>1. Phases!Boot
    BY <1>2 DEF BootOk, BootErr, Advance, TryTransition, Legal, Phases!Boot
  <2> QED BY <2>1 DEF Phases!Next
<1>3. CASE HandleStop
  <2>1. Phases!StopRouter \/ UNCHANGED Phases!vars
    BY <1>3 DEF HandleStop, Receive, Advance, Legal, Phases!StopRouter
  <2> QED BY <2>1 DEF Phases!Next
<1>4. ASSUME NEW k, pc = "select", ShutDown(k) PROVE [Phases!Next]_(Phases!vars)
  <2>1. Phases!StopRouter \/ Phases!End
    BY <1>4 DEF ShutDown, Advance, Legal, Phases!StopRouter, Phases!End
  <2> QED BY <2>1 DEF Phases!Next
<1>5. CASE HandleExit
  BY <1>4, <1>5 DEF HandleExit, Receive
<1>6. CASE HandleStart
  <2>1. Phases!BeginStart \/ UNCHANGED Phases!vars
    BY <1>6 DEF HandleStart, Receive, TryTransition, Legal, Phases!BeginStart
  <2> QED BY <2>1 DEF Phases!Next
<1>7. CASE HandleSwitch
  <2>1. Phases!StopRouter \/ UNCHANGED Phases!vars
    BY <1>7 DEF HandleSwitch, Receive, TryTransition, TakeRunning, Legal, Phases!StopRouter
  <2> QED BY <2>1 DEF Phases!Next
<1>8. CASE StopDone \/ SwitchStopDone
  BY <1>8 DEF StopDone, SwitchStopDone, RouterStopped, Advance, TryTransition, Legal
<1>9. CASE ShutDownDone
  <2>1. Phases!End
    BY <1>9 DEF ShutDownDone, RouterStopped, Advance, Legal, Phases!End
  <2> QED BY <2>1 DEF Phases!Next
<1>10. CASE SaveTransport
  <2>1. Phases!BeginSwitch
    BY <1>10 DEF SaveTransport, TryTransition, Legal, Phases!BeginSwitch
  <2> QED BY <2>1 DEF Phases!Next
<1>11. CASE ReadConfig
  <2>1. Phases!ReadConfig
    BY <1>11 DEF ReadConfig, Phases!ReadConfig
  <2> QED BY <2>1 DEF Phases!Next
<1>12. CASE StartOk \/ StartErr
  <2>1. Phases!StartReturns
    BY <1>12 DEF StartOk, StartErr, TryTransition, Legal, Phases!StartReturns
  <2> QED BY <2>1 DEF Phases!Next
<1>13. CASE Publish
  <2>1. Phases!Announce
    BY <1>13 DEF Publish, TryTransition, Legal, Phases!Announce
  <2> QED BY <2>1 DEF Phases!Next
<1>14. CASE Interrupt
  BY <1>4, <1>14 DEF Interrupt
<1>15. ASSUME NEW c \in Clients, Request(c) \/ Send(c) \/ Disconnect(c)
       PROVE [Phases!Next]_(Phases!vars)
  BY <1>15 DEF Request, Send, Disconnect
<1>16. CASE PutConfig \/ TrayClick \/ UNCHANGED vars
  BY <1>16 DEF PutConfig, TrayClick, vars
<1> QED
  BY <1>1, <1>2, <1>3, <1>5, <1>6, <1>7, <1>8, <1>9, <1>10, <1>11, <1>12, <1>13, <1>14, <1>15, <1>16
     DEF Next, LoopStep, StartReturns, Terminated

\* ConfigStore may take the main task's phases for granted: the guard of the
\* configuration is held in a start alone, and a switch finds the router stopped.
THEOREM PhasesRefinement == Spec => ImplementsTaskPhases
<1>1. Init => Phases!Init
  BY DEF Init, Phases!Init, Serving
<1>2. IInv /\ [Next]_vars => [Phases!Next]_(Phases!vars)
  BY PhasesStep DEF IInv
<1> QED
  BY <1>1, <1>2, Inductive, PTL DEF Spec, ImplementsTaskPhases, Phases!Spec

-----------------------------------------------------------------------------
(***************************************************************************)
(* The consequence of the missing row Starting -> Stopped.  Stuck is       *)
(* closed under every step but the end of the process and the tray's.      *)
(***************************************************************************)
Stuck == Wedged /\ ~SwitchUnderway

\* Only the end of the process and the tray lead out of a failed start.
LEMMA StuckStep ==
  TypeOK /\ Stuck /\ [Next]_vars => Stuck' \/ pc' = "exited" \/ (Wedged' /\ TrayClick)
<1> SUFFICES ASSUME TypeOK, Stuck, [Next]_vars
             PROVE Stuck' \/ pc' = "exited" \/ (Wedged' /\ TrayClick)
  OBVIOUS
<1> USE DEF Stuck, Wedged
<1>1. \A i \in 1..Len(queue) : queue[i] \notin Modes
  BY DEF SwitchUnderway
<1>2. \A c \in Clients : pending[c] \cap Modes = {}
  BY DEF SwitchUnderway
<1>3. queue \in Seq(Commands)
  BY DEF TypeOK
\* Consuming a command leaves no switch behind.
<1>4. ASSUME NEW k, Receive(k), pending' = pending, pc' = pc, appState' = appState
      PROVE Stuck'
  <2>1. queue' = Tail(queue) /\ queue # <<>>
    BY <1>4 DEF Receive
  <2>2. \A i \in 1..Len(queue') : queue'[i] \notin Modes
    BY <1>1, <1>3, <2>1
  <2>3. QED
    BY <1>2, <1>4, <2>2 DEF SwitchUnderway
<1>5. CASE HandleStop
  BY <1>4, <1>5 DEF HandleStop
<1>6. CASE HandleStart
  BY <1>4, <1>6 DEF HandleStart
<1>7. CASE HandleExit
  BY <1>7 DEF HandleExit, ShutDown, Advance, Legal
<1>8. CASE HandleSwitch
  <2>1. PICK m \in Modes : Receive(m)
    BY <1>8 DEF HandleSwitch
  <2>2. queue[1] = m /\ 1 \in 1..Len(queue)
    BY <1>3, <2>1 DEF Receive
  <2>3. QED
    BY <1>1, <2>1, <2>2
<1>9. CASE Interrupt
  BY <1>9 DEF Interrupt, ShutDown, Advance, Legal
\* No gate of the web handlers opens in Starting.
<1>10. ASSUME NEW c \in Clients, Request(c) PROVE FALSE
  BY <1>10 DEF Request, Gate
<1>11. ASSUME NEW c \in Clients, Send(c) PROVE Stuck'
  <2>1. PICK k \in pending[c] : queue' = Append(queue, k)
    BY <1>11 DEF Send
  <2>2. k \notin Modes /\ k \in Commands
    BY <1>2, <2>1 DEF TypeOK
  <2>3. \A i \in 1..Len(queue') : queue'[i] \notin Modes
    BY <1>1, <1>3, <2>1, <2>2
  <2>4. \A d \in Clients : pending'[d] \cap Modes = {}
    BY <1>2, <1>11 DEF Send, TypeOK
  <2>5. QED
    BY <1>11, <2>3, <2>4 DEF Send, SwitchUnderway
<1>12. ASSUME NEW c \in Clients, Disconnect(c) PROVE Stuck'
  <2>1. \A d \in Clients : pending'[d] \cap Modes = {}
    BY <1>2, <1>12 DEF Disconnect, TypeOK
  <2>2. QED
    BY <1>1, <1>12, <2>1 DEF Disconnect, SwitchUnderway
<1>13. CASE PutConfig
  BY <1>13 DEF PutConfig, SwitchUnderway
<1>14. CASE TrayClick
  BY <1>14 DEF TrayClick
<1>15. CASE UNCHANGED vars
  BY <1>15 DEF vars, SwitchUnderway
\* Every other step of the main task needs another pc.
<1>16. CASE Launch \/ StartReturns \/ StopDone \/ ShutDownDone \/ SwitchStopDone
            \/ SaveTransport \/ ReadConfig \/ Publish
  BY <1>16 DEF Launch, StartReturns, BootOk, BootErr, StartOk, StartErr, StopDone,
               ShutDownDone, SwitchStopDone, RouterStopped, SaveTransport, ReadConfig, Publish
<1>17. QED
  BY <1>5, <1>6, <1>7, <1>8, <1>9, <1>10, <1>11, <1>12, <1>13, <1>14, <1>15, <1>16
     DEF Next, LoopStep, Terminated

\* A bridge whose start failed, with no switch let through before, stays in
\* Starting until its process ends or its tray asks for a switch, whatever the
\* clients of its dashboard do.
THEOREM WedgeStays == Spec => WedgeIsPermanent
<1>1. TypeOK /\ [Next]_vars
        => [Wedged /\ ~SwitchUnderway =>
              \/ pc' = "exited"
              \/ Wedged' /\ (SwitchUnderway' => pending' = pending)]_vars
  BY StuckStep DEF Stuck, TrayClick
<1>2. QED
  BY <1>1, TypeCorrect, PTL DEF Spec, WedgeIsPermanent
-----------------------------------------------------------------------------
(***************************************************************************)
(* Which of the steps that may end the process do.  Every `?` of run_router *)
(* is an Advance: LoopInv says which of them can be refused.               *)
(***************************************************************************)

\* A `?` that cannot refuse.
LEMMA Advances ==
    ASSUME NEW to, NEW next, NEW outcome, Legal(appState, to), Advance(to, next, outcome)
    PROVE  pc' = next /\ exit' = outcome
  BY DEF Advance

\* An end of run_router that was asked for.
Asked ==
    \/ pc = "launch"
    \/ exit' = "killed"
    \/ pc = "stopping" /\ cmd \in {"Exit", "Interrupt"} /\ exit' = "ok"
    \/ /\ pc = "select" /\ running = {} /\ exit' = "error"
       /\ queue' = queue \/ Head(queue) = "Exit"

LEMMA EndStep ==
    ASSUME TypeOK, LoopInv, [Next]_vars, pc # "exited", pc' = "exited"
    PROVE  Asked
<1> USE DEF LoopInv
<1>1. ~BootOk
  BY Advances DEF BootOk, Legal
<1>2. ~HandleStop
  BY Advances DEF HandleStop, Legal
<1>3. ~StopDone
  BY Advances DEF StopDone, RouterStopped, Legal
\* A shutdown meets a `?` that refuses only where there is no router.
<1>4. ASSUME NEW k, pc = "select", ShutDown(k), queue' = queue \/ Head(queue) = "Exit"
      PROVE  Asked
  <2>1. ~Legal(appState, "Stopping")
    BY <1>4, Advances DEF ShutDown
  <2>2. running = {}
    BY <1>4, <2>1 DEF Legal
  <2>3. exit' = "error"
    BY <1>4, <2>1 DEF ShutDown, Advance
  <2> QED BY <1>4, <2>2, <2>3 DEF Asked
<1>5. CASE HandleExit
  BY <1>4, <1>5 DEF HandleExit, Receive
<1>6. CASE Interrupt
  <2>1. CASE pc = "select" /\ ShutDown("Interrupt") /\ UNCHANGED queue
    BY <1>4, <2>1
  <2> QED BY <1>6, <2>1 DEF Interrupt, Asked
<1>7. CASE ShutDownDone
  BY <1>7, Advances DEF ShutDownDone, RouterStopped, Legal, Asked
<1>8. CASE Launch
  BY <1>8 DEF Launch, Asked
<1>9. ~(BootErr \/ HandleStart \/ HandleSwitch \/ SwitchStopDone \/ SaveTransport
         \/ ReadConfig \/ StartOk \/ StartErr \/ Publish)
  BY DEF BootErr, HandleStart, HandleSwitch, SwitchStopDone, SaveTransport, ReadConfig,
         StartOk, StartErr, Publish
<1>10. \A c \in Clients : ~(Request(c) \/ Send(c) \/ Disconnect(c))
  BY DEF Request, Send, Disconnect
<1>11. ~(PutConfig \/ TrayClick \/ Terminated \/ UNCHANGED vars)
  BY DEF PutConfig, TrayClick, Terminated, vars
<1> QED
  BY <1>1, <1>2, <1>3, <1>5, <1>6, <1>7, <1>8, <1>9, <1>10, <1>11
     DEF Next, LoopStep, StartReturns

\* Only Exit, Ctrl-C and a hub that cannot bind end the process, for every set
\* of clients and every history of commands: a router that was up was stopped.
THEOREM EndsWhenAsked == Spec => OnlyShutdownEnds
<1>1. IInv /\ [Next]_vars
        => [pc # "exited" /\ pc' = "exited" =>
              \/ pc = "launch"
              \/ exit' = "killed"
              \/ pc = "stopping" /\ cmd \in {"Exit", "Interrupt"} /\ exit' = "ok"
              \/ /\ pc = "select" /\ running = {} /\ exit' = "error"
                 /\ queue' = queue \/ Head(queue) = "Exit"]_vars
  BY EndStep DEF IInv, Asked
<1>2. QED
  BY <1>1, Inductive, PTL DEF Spec, OnlyShutdownEnds
-----------------------------------------------------------------------------
(***************************************************************************)
(* The safety half of StopFinishes and LoopReturns.  What is left of them  *)
(* is fairness: that the await the main task has come to is over one day.  *)
(***************************************************************************)

\* How many awaits are left to the main task before it is back in its select.
Remaining ==
    [launch |-> 7, boot |-> 6, stopping |-> 5, saving |-> 4, toStart |-> 3,
     starting |-> 2, publish |-> 1, select |-> 0, exited |-> 0]

LEMMA RemainingFalls ==
    ASSUME LoopInv, [Next]_vars, pc' # pc
    PROVE  pc = "select" \/ Remaining[pc'] < Remaining[pc]
<1> USE DEF Remaining, LoopInv
<1>1. CASE Launch \/ BootOk \/ BootErr
  BY <1>1 DEF Launch, BootOk, BootErr, Advance
<1>2. CASE HandleStop \/ HandleExit \/ HandleStart \/ HandleSwitch
  BY <1>2 DEF HandleStop, HandleExit, HandleStart, HandleSwitch, Receive
<1>3. CASE StopDone \/ ShutDownDone \/ SwitchStopDone
  BY <1>3 DEF StopDone, ShutDownDone, SwitchStopDone, RouterStopped, Advance
<1>4. CASE SaveTransport \/ ReadConfig \/ StartOk \/ StartErr \/ Publish
  BY <1>4 DEF SaveTransport, ReadConfig, StartOk, StartErr, Publish
<1>5. CASE Interrupt
  BY <1>5 DEF Interrupt
<1>6. \A c \in Clients : ~(Request(c) \/ Send(c) \/ Disconnect(c))
  BY DEF Request, Send, Disconnect
<1>7. ~(PutConfig \/ TrayClick \/ Terminated \/ UNCHANGED vars)
  BY DEF PutConfig, TrayClick, Terminated, vars
<1> QED
  BY <1>1, <1>2, <1>3, <1>4, <1>5, <1>6, <1>7 DEF Next, LoopStep, StartReturns

\* No sequence of commands, failures and signals makes the main task go back on
\* its way to its select: each await it comes to is nearer to it than the last.
THEOREM LoopMovesOn ==
    Spec => [][pc' # pc => pc = "select" \/ Remaining[pc'] < Remaining[pc]]_vars
<1>1. IInv /\ [Next]_vars => [pc' # pc => pc = "select" \/ Remaining[pc'] < Remaining[pc]]_vars
  BY RemainingFalls DEF IInv
<1>2. QED
  BY <1>1, Inductive, PTL DEF Spec

\* A stop is announced while the main task awaits it, and not a step longer.
StopIsAwaited == appState = "Stopping" => pc = "stopping"

LEMMA StepStopIsAwaited == IInv /\ StopIsAwaited /\ [Next]_vars => StopIsAwaited'
<1> SUFFICES ASSUME TypeOK, LoopInv, StopIsAwaited, [Next]_vars, appState' = "Stopping"
             PROVE  pc' = "stopping"
  BY DEF IInv, StopIsAwaited
<1> USE DEF LoopInv, StopIsAwaited
<1>1. CASE HandleStop
  BY <1>1 DEF HandleStop, Receive, Advance, Legal
<1>2. CASE HandleExit
  BY <1>2 DEF HandleExit, Receive, ShutDown, Advance, Legal
<1>3. CASE HandleSwitch
  BY <1>3 DEF HandleSwitch, Receive, TryTransition, Legal
<1>4. CASE Interrupt
  BY <1>4 DEF Interrupt, ShutDown, Advance, Legal
<1>5. ~(Launch \/ BootOk \/ BootErr \/ HandleStart \/ SaveTransport \/ ReadConfig
         \/ StartOk \/ StartErr \/ Publish)
  BY DEF Launch, BootOk, BootErr, HandleStart, Receive, SaveTransport, ReadConfig, StartOk,
         StartErr, Publish, Advance, TryTransition, Legal
<1>6. ~(StopDone \/ ShutDownDone \/ SwitchStopDone)
  BY DEF StopDone, ShutDownDone, SwitchStopDone, RouterStopped, Advance, TryTransition, Legal
<1>7. \A c \in Clients : Request(c) \/ Send(c) \/ Disconnect(c) => pc' = "stopping"
  BY DEF Request, Send, Disconnect
<1>8. PutConfig \/ TrayClick \/ Terminated \/ UNCHANGED vars => pc' = "stopping"
  BY DEF PutConfig, TrayClick, Terminated, vars
<1> QED
  BY <1>1, <1>2, <1>3, <1>4, <1>5, <1>6, <1>7, <1>8 DEF Next, LoopStep, StartReturns

\* Nothing but the router's own stop() stands between Stopping and Stopped: no
\* path leaves the await, or the process, with a stop announced as begun.
THEOREM StoppingIsAwaited == Spec => []StopIsAwaited
<1>1. Init => StopIsAwaited
  BY DEF Init, StopIsAwaited
<1> QED BY <1>1, Inductive, StepStopIsAwaited, PTL DEF Spec

=============================================================================
