--------------------------- MODULE ConfigStoreProofs ---------------------------
(***************************************************************************)
(* Proofs about ConfigStore, for every set of clients, dashboards,         *)
(* transports and hub URLs.                                                *)
(***************************************************************************)
EXTENDS ConfigStore, TLAPS

-----------------------------------------------------------------------------
(* What the helpers return. *)

\* A configuration stays one when its transport or its URL is replaced.
LEMMA ConfigUpdates ==
    ASSUME NEW c \in Configs
    PROVE  /\ c.url \in Urls
           /\ \A t \in Transports :
                 [c EXCEPT !.transport = t] \in Configs /\ [c EXCEPT !.transport = t].url = c.url
           /\ \A u \in Urls : [c EXCEPT !.url = u] \in Configs /\ [c EXCEPT !.url = u].url = u
  BY DEF Configs

\* The environment and the users know URLs of hubs elsewhere only.
LEMMA EditsAreConfigs ==
    ASSUME NEW c \in Configs
    PROVE  Overridden(c) \subseteq Configs /\ Edits(c) \subseteq Configs
  BY DEF Overridden, Edits, Configs, Urls

\* A file holds a configuration, a file somebody cut short the default one.
LEMMA FileProperties ==
    /\ \A c \in Configs : Whole(c) \in Files
    /\ \A k \in {"absent", "empty", "torn"} : Cut(k) \in Files
    /\ \A f \in Files : f.config \in Configs
<1>1. Default \in Configs
  BY DefaultAssumption
<1> QED
  BY <1>1 DEF Files, Whole, Cut

\* However a save ends, the file is one of the kinds Boot knows.
LEMMA SaveKeepsFiles ==
    ASSUME TypeOK, mem' \in Configs, SaveDone \/ SaveFails
    PROVE  file' \in Files
<1>1. CASE SaveDone
  BY <1>1, FileProperties DEF SaveDone
<1>2. CASE SaveFails
  BY <1>2, FileProperties DEF SaveFails, TypeOK
<1> QED
  BY <1>1, <1>2

-----------------------------------------------------------------------------
(* The inductive invariant. *)

\* left only says more of what is saved: the URL to return to is the one the
\* bridge came from, as long as nobody set another.
LeftIsSaved == left # {} => saved = left

\* A URL that is remembered is one URL.
SavedIsOne == saved = {} \/ \E u \in Urls : saved = {u}

Inv ==
    /\ TypeOK
    /\ EmbeddedIsReversible
    /\ LeftIsSaved
    /\ SavedIsOne

\* The invariant holds of any file the bridge may find.
LEMMA InitInv == Init => Inv
<1> SUFFICES ASSUME Init PROVE Inv
  OBVIOUS
<1>1. Default \in Configs
  BY DefaultAssumption
<1>2. file \in Files
  BY FileProperties DEF Init
<1>3. TypeOK
  BY <1>1, <1>2 DEF Init, Task!Init, TypeOK, Nobody, Blank
<1> QED
  BY <1>3 DEF Init, Inv, EmbeddedIsReversible, LeftIsSaved, SavedIsOne

\* Boot writes the configuration it read and remembers the URL it replaces.
LEMMA BootInv ==
    ASSUME Inv, NEW withHub \in BOOLEAN, NEW t \in Transports, Boot(withHub, t)
    PROVE  Inv'
<1> USE DEF Inv
<1>1. file.config \in Configs /\ Default \in Configs /\ Local \in Urls
  BY FileProperties, DefaultAssumption DEF TypeOK, Urls
<1>2. file' \in Files
  BY <1>1, FileProperties DEF Boot, Task!Boot, TypeOK
<1>3. PICK loaded \in Overridden(file.config) :
         LET c == [loaded EXCEPT !.transport = t]
         IN  IF withHub
             THEN /\ mem' = [c EXCEPT !.url = Local]
                  /\ saved' = {c.url} /\ embedded' = TRUE /\ left' = {c.url}
             ELSE mem' = c /\ saved' = {} /\ embedded' = FALSE /\ left' = {}
  BY DEF Boot
<1> DEFINE c == [loaded EXCEPT !.transport = t]
<1>4. c \in Configs /\ c.url \in Urls
  BY <1>1, EditsAreConfigs, ConfigUpdates
<1>5. [c EXCEPT !.url = Local] \in Configs
  BY <1>1, <1>4, ConfigUpdates
<1>6. /\ mem' \in Configs /\ embedded' \in BOOLEAN
      /\ \/ saved' = {c.url} /\ left' = {c.url}
         \/ saved' = {} /\ left' = {} /\ embedded' = FALSE
  BY <1>3, <1>4, <1>5
<1>7. TypeOK'
  BY <1>2, <1>4, <1>6 DEF Boot, Task!Boot, TypeOK
<1> QED
  BY <1>4, <1>6, <1>7 DEF EmbeddedIsReversible, LeftIsSaved, SavedIsOne

\* Both changes leave a configuration and one URL to return to.
LEMMA UrlsMove ==
    ASSUME Inv
    PROVE  /\ TakeLocalUrl => mem' \in Configs /\ \E u \in Urls : saved' = {u}
           /\ GiveUrlBack => mem' \in Configs /\ saved' = saved
           /\ mem.url \in Urls
<1> USE DEF Inv
<1>1. mem \in Configs /\ mem.url \in Urls /\ Local \in Urls
  BY ConfigUpdates DEF TypeOK, Urls
<1>2. TakeLocalUrl => mem' \in Configs /\ \E u \in Urls : saved' = {u}
  BY <1>1, ConfigUpdates DEF TakeLocalUrl
<1>3. GiveUrlBack => mem' \in Configs /\ saved' = saved
  <2>1. saved = {} \/ (CHOOSE u \in saved : TRUE) \in Urls
    BY DEF TypeOK
  <2> QED
    BY <1>1, <2>1, ConfigUpdates DEF GiveUrlBack
<1> QED
  BY <1>1, <1>2, <1>3

\* A change of the hub mode keeps a URL to return to.
LEMMA SwitchHubModeInv ==
    ASSUME Inv, NEW c \in Clients, SwitchHubMode(c)
    PROVE  Inv'
<1> USE DEF Inv
<1>1. CASE EnterEmbedded
  <2>1. /\ mem' \in Configs /\ \E u \in Urls : saved' = {u}
        /\ embedded' \in BOOLEAN /\ left' \in SUBSET Urls
        /\ left' # {} => saved' = left'
    BY <1>1, UrlsMove DEF EnterEmbedded, TakeLocalUrl
  <2>2. file' \in Files
    BY <2>1, SaveKeepsFiles DEF SwitchHubMode
  <2>3. TypeOK'
    BY <2>1, <2>2 DEF SwitchHubMode, TypeOK, lifeVars
  <2> QED
    BY <2>1, <2>3 DEF EmbeddedIsReversible, LeftIsSaved, SavedIsOne
<1>2. CASE EnterCloud
  <2>1. mem' \in Configs /\ saved' = saved /\ embedded' = FALSE /\ left' = {}
    BY <1>2, UrlsMove DEF EnterCloud
  <2>2. file' \in Files
    BY <2>1, SaveKeepsFiles DEF SwitchHubMode
  <2>3. TypeOK'
    BY <2>1, <2>2 DEF SwitchHubMode, TypeOK, lifeVars
  <2> QED
    BY <2>1, <2>3 DEF EmbeddedIsReversible, LeftIsSaved, SavedIsOne
<1> QED
  BY <1>1, <1>2 DEF SwitchHubMode

\* So does the part of it a client leaves behind that hangs up.
LEMMA HangUpInv ==
    ASSUME Inv, NEW c \in Clients, HangUp(c)
    PROVE  Inv'
<1> USE DEF Inv
<1>1. CASE UNCHANGED <<storeVars, hubVars>>
  <2>1. TypeOK'
    BY <1>1 DEF HangUp, TypeOK, lifeVars, storeVars, hubVars
  <2> QED
    BY <1>1, <2>1 DEF EmbeddedIsReversible, LeftIsSaved, SavedIsOne, HangUp, lifeVars, hubVars
<1>2. CASE CutOff(c) /\ (SaveDone \/ SaveFails)
  <2>1. /\ mem' \in Configs /\ embedded' = embedded
        /\ (left' = {} /\ \E u \in Urls : saved' = {u}) \/ (left' = left /\ saved' = saved)
    BY <1>2, UrlsMove DEF CutOff
  <2>2. file' \in Files
    BY <1>2, <2>1, SaveKeepsFiles
  <2>3. TypeOK'
    BY <2>1, <2>2 DEF HangUp, TypeOK, lifeVars
  <2> QED
    BY <2>1, <2>3 DEF EmbeddedIsReversible, LeftIsSaved, SavedIsOne, HangUp, lifeVars
<1> QED
  BY <1>1, <1>2 DEF HangUp

\* A dashboard can only take away what is left, never add to it.
LEMMA PutConfigInv ==
    ASSUME Inv, NEW p \in Pages, PutConfig(p)
    PROVE  Inv'
<1> USE DEF Inv
<1>1. PICK v \in view[p] : \E body \in Edits(v) :
         /\ mem' = body
         /\ \/ SaveDone /\ view' = [view EXCEPT ![p] = {body}]
            \/ SaveFails /\ UNCHANGED view
  BY DEF PutConfig
<1>2. v \in Configs
  BY DEF TypeOK
<1>3. mem' \in Configs /\ view' \in [Pages -> SUBSET Configs]
  BY <1>1, <1>2, EditsAreConfigs DEF TypeOK
<1>4. file' \in Files
  BY <1>1, <1>3, SaveKeepsFiles
<1>5. left' = left \/ left' = {}
  BY DEF PutConfig
<1>6. UNCHANGED <<up, state, phase, saved, embedded, asked>>
  BY DEF PutConfig, lifeVars
<1>7. TypeOK'
  BY <1>3, <1>4, <1>5, <1>6 DEF TypeOK
<1> QED
  BY <1>5, <1>6, <1>7 DEF EmbeddedIsReversible, LeftIsSaved, SavedIsOne

\* A switch writes the transport alone, however its save ends.
LEMMA SwitchTransportInv ==
    ASSUME Inv, NEW t \in Transports, SwitchTransport(t)
    PROVE  Inv'
<1> USE DEF Inv
<1>1. mem' \in Configs
  BY ConfigUpdates DEF SwitchTransport, Task!BeginSwitch, TypeOK
<1>2. file' \in Files
  BY <1>1, SaveKeepsFiles DEF SwitchTransport
<1>3. TypeOK'
  BY <1>1, <1>2 DEF SwitchTransport, Task!BeginSwitch, TypeOK, hubVars
<1> QED
  BY <1>3 DEF SwitchTransport, Task!BeginSwitch, hubVars, EmbeddedIsReversible, LeftIsSaved, SavedIsOne

\* The steps that leave the hub alone and give the other variables values of their type.
LEMMA OtherStepsInv ==
    ASSUME Inv,
           \/ Crash \/ CrashInSave \/ Repair
           \/ TaskStep \/ ReadConfig \/ StartReturns
           \/ \E p \in Pages : LoadConfig(p)
           \/ \E c \in Clients : AskHubMode(c)
           \/ UNCHANGED vars
    PROVE  Inv'
<1> USE DEF Inv
<1>1. UNCHANGED <<saved, embedded, left>> /\ (up' => up)
  BY DEF Crash, CrashInSave, Repair, TaskStep, ReadConfig, StartReturns, Task!End,
         Task!StopRouter, Task!BeginStart, Task!Announce, Task!ReadConfig, Task!StartReturns,
         LoadConfig, AskHubMode, vars, lifeVars, storeVars, hubVars, TypeOK
<1>2. file' \in Files /\ mem' = mem
  BY FileProperties
     DEF Crash, CrashInSave, Repair, TaskStep, ReadConfig, StartReturns, Task!End,
         Task!StopRouter, Task!BeginStart, Task!Announce, Task!ReadConfig, Task!StartReturns,
         LoadConfig, AskHubMode, vars, lifeVars, storeVars, hubVars, TypeOK
<1>3. /\ up' \in BOOLEAN
      /\ state' \in {"Stopped", "Starting", "Running"}
      /\ phase' \in {"select", "toStart", "starting", "publish"}
  BY DEF Crash, CrashInSave, Repair, TaskStep, ReadConfig, StartReturns, Task!End,
         Task!StopRouter, Task!BeginStart, Task!Announce, Task!ReadConfig, Task!StartReturns,
         LoadConfig, AskHubMode, vars, lifeVars, storeVars, hubVars, TypeOK
<1>4. asked' \in [Clients -> SUBSET HubModes]
  BY DEF Crash, CrashInSave, Repair, TaskStep, ReadConfig, StartReturns, Task!End,
         Task!StopRouter, Task!BeginStart, Task!Announce, Task!ReadConfig, Task!StartReturns,
         LoadConfig, AskHubMode, Nobody, vars, lifeVars, storeVars, hubVars, TypeOK
<1>5. view' \in [Pages -> SUBSET Configs]
  BY DEF Crash, CrashInSave, Repair, TaskStep, ReadConfig, StartReturns, Task!End,
         Task!StopRouter, Task!BeginStart, Task!Announce, Task!ReadConfig, Task!StartReturns,
         LoadConfig, AskHubMode, vars, lifeVars, storeVars, hubVars, TypeOK
<1>6. TypeOK'
  BY <1>1, <1>2, <1>3, <1>4, <1>5 DEF TypeOK
<1> QED
  BY <1>1, <1>6 DEF EmbeddedIsReversible, LeftIsSaved, SavedIsOne

\* Every step keeps it.
LEMMA NextInv == Inv /\ [Next]_vars => Inv'
<1> SUFFICES ASSUME Inv, [Next]_vars PROVE Inv'
  OBVIOUS
<1>1. CASE \E withHub \in BOOLEAN, t \in Transports : Boot(withHub, t)
  BY <1>1, BootInv
<1>2. CASE \E t \in Transports : SwitchTransport(t)
  BY <1>2, SwitchTransportInv
<1>3. CASE \E p \in Pages : PutConfig(p)
  BY <1>3, PutConfigInv
<1>4. CASE \E c \in Clients : SwitchHubMode(c)
  BY <1>4, SwitchHubModeInv
<1>5. CASE \E c \in Clients : HangUp(c)
  BY <1>5, HangUpInv
<1> QED
  BY <1>1, <1>2, <1>3, <1>4, <1>5, OtherStepsInv DEF Next

\* It holds of every state the process can reach.
LEMMA SpecInv == Spec => []Inv
  BY InitInv, NextInv, PTL DEF Spec

-----------------------------------------------------------------------------

\* The configuration in memory and the file keep their types, whatever is saved,
\* fails to be saved or is cut short.
THEOREM TypeCorrect == Spec => []TypeOK
<1>1. Inv => TypeOK
  BY DEF Inv
<1> QED
  BY <1>1, SpecInv, PTL

\* Embedded mode has a hub URL to return to, however it was entered.
THEOREM EmbeddedCanBeLeft == Spec => []EmbeddedIsReversible
<1>1. Inv => EmbeddedIsReversible
  BY DEF Inv
<1> QED
  BY <1>1, SpecInv, PTL

\* Leaving embedded mode restores the URL it was entered from, whatever was
\* saved, switched and started in between, unless the URL was set.
THEOREM RoundTripIsSafe == Spec => HubRoundTrip
<1> DEFINE Restores == up /\ embedded /\ left # {} /\ ~embedded' /\ up' => mem'.url \in left
<1>1. Inv /\ [Next]_vars => [Restores]_vars
  <2> SUFFICES ASSUME Inv, Next, up, embedded, left # {}, ~embedded', up'
      PROVE  mem'.url \in left
    BY DEF vars, lifeVars, hubVars, storeVars
  <2> USE DEF Inv
  <2>1. PICK c \in Clients : SwitchHubMode(c)
    BY DEF Next, Boot, Crash, CrashInSave, Repair, TaskStep, ReadConfig,
           StartReturns, Task!Boot, Task!End, SwitchTransport, LoadConfig, PutConfig,
           AskHubMode, HangUp, CutOff, hubVars
  <2>2. EnterCloud
    BY <2>1 DEF SwitchHubMode, EnterEmbedded
  <2>3. (CHOOSE u \in saved : TRUE) \in left /\ saved # {} /\ left \subseteq Urls
    BY DEF LeftIsSaved, TypeOK
  <2> QED
    BY <2>2, <2>3, ConfigUpdates DEF EnterCloud, GiveUrlBack, TypeOK
<1> QED
  BY <1>1, SpecInv, PTL DEF Spec, HubRoundTrip

=============================================================================
