---------------------------- MODULE FdtSyncProofs ----------------------------
(***************************************************************************)
(* Proofs about FdtSync, for every set of devices, every times to live and *)
(* every grace period, round and slack that TimeAssumption allows.         *)
(***************************************************************************)
EXTENDS FdtSync, TLAPS

-----------------------------------------------------------------------------
(* Tables. *)

\* Ageing a table makes each of its entries a second older.
LEMMA OlderProperties ==
    ASSUME NEW t \in Tables
    PROVE  /\ Older(t) \in Tables
           /\ \A d \in Devices : \A e \in t[d] : [ttl |-> e.ttl, age |-> e.age + 1] \in Older(t)[d]
           /\ \A d \in Devices : \A x \in Older(t)[d] :
                 \E e \in t[d] : x = [ttl |-> e.ttl, age |-> e.age + 1]
<1>1. ASSUME NEW e \in Entries
      PROVE  /\ [e EXCEPT !.age = @ + 1] = [ttl |-> e.ttl, age |-> e.age + 1]
             /\ [e EXCEPT !.age = @ + 1] \in Entries
  BY DEF Entries
<1>2. \A d \in Devices : t[d] \subseteq Entries
  BY DEF Tables
<1> QED
  BY <1>1, <1>2 DEF Older, Tables

\* Purging a table leaves a part of it.
LEMMA UnexpiredProperties ==
    ASSUME NEW t \in Tables
    PROVE  /\ Unexpired(t) \in Tables
           /\ \A d \in Devices : \A e : e \in Unexpired(t)[d] <=> e \in t[d] /\ ~Expired(e)
  BY DEF Unexpired, Tables

\* What the task adds for a device.
Added(d) == UNION {Add(mgr[d], e) : e \in snap[d]}

\* The task leaves a device it read one entry, new, with the time to live read.
LEMMA AddProperties ==
    ASSUME mgr \in Tables, snap \in Tables, NEW d \in Devices
    PROVE  /\ Added(d) \subseteq Entries
           /\ \A e \in snap[d] : [ttl |-> e.ttl, age |-> 0] \in Added(d)
           /\ \A x \in Added(d) : \E e \in snap[d] : x = [ttl |-> e.ttl, age |-> 0]
<1>1. ASSUME NEW e \in snap[d]
      PROVE  Add(mgr[d], e) = {[ttl |-> e.ttl, age |-> 0]} /\ [ttl |-> e.ttl, age |-> 0] \in Entries
  BY DEF Add, Tables, Entries
<1> QED
  BY <1>1 DEF Added

\* Register leaves one entry of the device, and the other devices' alone.
LEMMA RegisterProperties ==
    ASSUME TypeOK, NEW r \in Devices, NEW ttl \in TTLs, Register(r, ttl)
    PROVE  /\ bbmd' \in [Slots -> Tables]
           /\ bbmd'[runs][r] = {[ttl |-> ttl, age |-> 0]}
           /\ \A s \in Slots, d \in Devices : s # runs \/ d # r => bbmd'[s][d] = bbmd[s][d]
<1>1. runs \in Slots /\ bbmd[runs] \in Tables
  BY DEF TypeOK, Register
<1>2. [ttl |-> ttl, age |-> 0] \in Entries
  BY DEF Entries
<1>3. [bbmd[runs] EXCEPT ![r] = {[ttl |-> ttl, age |-> 0]}] \in Tables
  BY <1>1, <1>2 DEF Tables
<1>4. bbmd' = [bbmd EXCEPT ![runs] = [bbmd[runs] EXCEPT ![r] = {[ttl |-> ttl, age |-> 0]}]]
  BY DEF Register
<1> QED
  BY <1>1, <1>3, <1>4 DEF TypeOK, Tables

\* Unregister takes the device's entry, and leaves the other devices' alone.
LEMMA UnregisterProperties ==
    ASSUME TypeOK, NEW r \in Devices, Unregister(r)
    PROVE  /\ bbmd' \in [Slots -> Tables]
           /\ \A s \in Slots, d \in Devices : bbmd'[s][d] \subseteq bbmd[s][d]
<1>1. runs \in Slots /\ bbmd[runs] \in Tables
  BY DEF TypeOK, Unregister
<1>2. [bbmd[runs] EXCEPT ![r] = {}] \in Tables
  BY <1>1 DEF Tables
<1>3. bbmd' = [bbmd EXCEPT ![runs] = [bbmd[runs] EXCEPT ![r] = {}]]
  BY DEF Unregister
<1> QED
  BY <1>1, <1>2, <1>3 DEF TypeOK, Tables


\* The histories after a step that takes no time, and after a second.
LEMMA ObservedProperties ==
    ASSUME TypeOK, Observed, NEW d \in Devices
    PROVE  /\ since'[d] = IF Served(d)' THEN since[d] ELSE 0
           /\ gone'[d] = IF Served(d)' THEN 0 ELSE gone[d]
           /\ since'[d] \in 0..Never /\ gone'[d] \in 0..Never
  BY TimeAssumption DEF Observed, Served, TypeOK

\* The histories stay in their bounds in a step that takes no time.
LEMMA ObservedType ==
    ASSUME TypeOK, Observed
    PROVE  since' \in [Devices -> 0..Never] /\ gone' \in [Devices -> 0..Never]
  BY TimeAssumption DEF Observed, TypeOK

\* A second adds one to a history, up to Never.
LEMMA LaterProperties ==
    ASSUME NEW n \in 0..Never
    PROVE  Later(n) \in 0..Never /\ Later(n) <= n + 1
  BY TimeAssumption DEF Later

\* What a second does to the tables, the clock and the histories.
LEMMA SecondProperties ==
    ASSUME TypeOK, Second
    PROVE  /\ since' \in [Devices -> 0..Never] /\ gone' \in [Devices -> 0..Never]
           /\ \A d \in Devices :
                 /\ since'[d] > 0 => Served(d)'
                 /\ since'[d] <= since[d] + 1
                 /\ gone'[d] <= gone[d] + 1
                 /\ Served(d)' => gone'[d] = 0
           /\ \A s \in Slots : bbmd'[s] = Older(bbmd[s])
           /\ bbmd' \in [Slots -> Tables] /\ mgr' \in Tables
<1>1. \A d \in Devices : ServedIn(runs, bbmd', d) <=> Served(d)'
  BY DEF Served, Second
<1>2. ASSUME NEW d \in Devices
      PROVE  /\ since[d] \in 0..Never /\ gone[d] \in 0..Never
             /\ Later(since[d]) \in 0..Never /\ Later(since[d]) <= since[d] + 1
             /\ Later(gone[d]) \in 0..Never /\ Later(gone[d]) <= gone[d] + 1
  BY LaterProperties DEF TypeOK
<1>3. since' = [d \in Devices |-> IF Served(d)' THEN Later(since[d]) ELSE 0]
  BY <1>1 DEF Second
<1>4. gone' = [d \in Devices |-> IF Served(d)' THEN 0 ELSE Later(gone[d])]
  BY <1>1 DEF Second
<1>5. ASSUME NEW d \in Devices
      PROVE  /\ since'[d] \in 0..Never /\ gone'[d] \in 0..Never
             /\ since'[d] > 0 => Served(d)'
             /\ since'[d] <= since[d] + 1
             /\ gone'[d] <= gone[d] + 1
             /\ Served(d)' => gone'[d] = 0
  <2>1. since'[d] = IF Served(d)' THEN Later(since[d]) ELSE 0
    BY <1>3
  <2>2. gone'[d] = IF Served(d)' THEN 0 ELSE Later(gone[d])
    BY <1>4
  <2> QED
    BY <1>2, <2>1, <2>2, TimeAssumption
<1>6. since' \in [Devices -> 0..Never] /\ gone' \in [Devices -> 0..Never]
  BY <1>3, <1>4, <1>5
<1>7. \A s \in Slots : bbmd'[s] = Older(bbmd[s]) /\ Older(bbmd[s]) \in Tables
  BY OlderProperties DEF Second, TypeOK
<1>8. bbmd' \in [Slots -> Tables] /\ mgr' \in Tables
  BY <1>7, OlderProperties DEF Second, TypeOK
<1> QED
  BY <1>5, <1>6, <1>7, <1>8

-----------------------------------------------------------------------------
(***************************************************************************)
(* Well-formed states: TypeOK, one entry per device in each table, and a   *)
(* round that ends within Slack.                                           *)
(***************************************************************************)
OneEntry(t) == \A d \in Devices : \A e, f \in t[d] : e = f

RoundInv ==
    /\ \A s \in Slots : OneEntry(bbmd[s])
    /\ OneEntry(snap)
    /\ sync # "idle" => clock <= Slack
    /\ sync = "adding" => handle # NoBbmd
    /\ \A d \in Devices : since[d] > 0 => Served(d)

WellFormed == TypeOK /\ RoundInv

\* The initial states are well formed.
LEMMA InitWellFormed == Init => WellFormed
<1> SUFFICES ASSUME Init PROVE WellFormed
  OBVIOUS
<1>1. Empty \in Tables /\ OneEntry(Empty)
  BY DEF Empty, Tables, OneEntry
<1>2. TypeOK
  BY <1>1, TimeAssumption DEF Init, TypeOK, Slots, NoBbmd, Empty
<1> QED
  BY <1>1, <1>2, TimeAssumption DEF Init, WellFormed, RoundInv, Slots

\* Every step keeps the tables and the task's round well formed.
LEMMA StepWellFormed == WellFormed /\ [Next]_vars => WellFormed'
<1> SUFFICES ASSUME WellFormed, [Next]_vars PROVE WellFormed'
  OBVIOUS
<1> USE DEF WellFormed
<1>e. Empty \in Tables /\ OneEntry(Empty)
  BY DEF Empty, Tables, OneEntry
<1>o. ASSUME Observed PROVE /\ since' \in [Devices -> 0..Never] /\ gone' \in [Devices -> 0..Never]
                            /\ \A d \in Devices : since'[d] > 0 => Served(d)'
  BY <1>o, ObservedProperties, ObservedType
<1>1. ASSUME NEW r \in Devices, NEW ttl \in TTLs, Register(r, ttl) PROVE WellFormed'
  <2>0. /\ bbmd' \in [Slots -> Tables]
        /\ bbmd'[runs][r] = {[ttl |-> ttl, age |-> 0]}
        /\ \A s \in Slots, d \in Devices : s # runs \/ d # r => bbmd'[s][d] = bbmd[s][d]
    BY <1>1, RegisterProperties
  <2>1. TypeOK'
    BY <1>1, <1>o, <2>0 DEF Register, syncVars, TypeOK
  <2>2. \A s \in Slots : OneEntry(bbmd'[s])
    BY <1>1, <2>0 DEF RoundInv, OneEntry, Register, TypeOK
  <2> QED
    BY <1>1, <1>o, <2>1, <2>2 DEF Register, syncVars, RoundInv, OneEntry
<1>2. ASSUME NEW r \in Devices, Unregister(r) PROVE WellFormed'
  <2>1. TypeOK'
    BY <1>2, <1>o, UnregisterProperties DEF Unregister, syncVars, TypeOK
  <2>2. \A s \in Slots : OneEntry(bbmd'[s])
    BY <1>2, UnregisterProperties DEF RoundInv, OneEntry
  <2> QED
    BY <1>2, <1>o, <2>1, <2>2 DEF Unregister, syncVars, RoundInv, OneEntry
<1>3. CASE StopRouter
  <2>1. TypeOK'
    BY <1>3, <1>o DEF StopRouter, RH!StopRouter, syncVars, TypeOK
  <2> QED
    BY <1>3, <1>o, <2>1 DEF StopRouter, RH!StopRouter, syncVars, RoundInv, OneEntry
<1>4. CASE StartRouter
  <2>1. TypeOK'
    BY <1>4, <1>o, <1>e DEF StartRouter, RH!StartRouter, syncVars, TypeOK
  <2>2. \A s \in Slots : OneEntry(bbmd'[s])
    BY <1>4, <1>e DEF StartRouter, RH!StartRouter, RoundInv, TypeOK
  <2> QED
    BY <1>4, <1>o, <2>1, <2>2 DEF StartRouter, RH!StartRouter, syncVars, RoundInv, OneEntry
<1>5. CASE Publish
  <2>1. TypeOK'
    BY <1>5, <1>e DEF Publish, RH!Publish, syncVars, TypeOK
  <2>2. \A s \in Slots : OneEntry(bbmd'[s])
    BY <1>5, <1>e DEF Publish, RH!Publish, RoundInv, TypeOK
  <2>3. \A d \in Devices : Served(d)' <=> Served(d)
    BY <1>5 DEF Publish, RH!Publish, Served, ServedIn, TypeOK, Publishing, RH!Publishing
  <2> QED
    BY <1>5, <2>1, <2>2, <2>3 DEF Publish, RH!Publish, syncVars, RoundInv, OneEntry
<1>6. CASE Snapshot
  <2>0. handle \in Slots /\ bbmd[handle] \in Tables
    BY <1>6 DEF Snapshot, TypeOK
  <2>1. TypeOK'
    BY <1>6, <1>o, <2>0, UnexpiredProperties, TimeAssumption DEF Snapshot, TypeOK
  <2>2. OneEntry(Unexpired(bbmd[handle]))
    BY <2>0, UnexpiredProperties DEF RoundInv, OneEntry
  <2>3. \A s \in Slots : OneEntry(bbmd'[s])
    BY <1>6, <2>0, <2>2 DEF Snapshot, RoundInv, TypeOK
  <2> QED
    BY <1>6, <1>o, <2>1, <2>2, <2>3, TimeAssumption DEF Snapshot, RoundInv, OneEntry
<1>7. CASE NoSnapshot
  <2>1. TypeOK'
    BY <1>7, TimeAssumption DEF NoSnapshot, TypeOK
  <2> QED
    BY <1>7, <2>1, TimeAssumption DEF NoSnapshot, RoundInv, OneEntry, Served, ServedIn
<1>8. CASE AddAll
  <2>0. mgr \in Tables /\ snap \in Tables
    BY DEF TypeOK
  <2>1. mgr' = [d \in Devices |-> IF snap[d] = {} THEN mgr[d] ELSE Added(d)]
    BY <1>8 DEF AddAll, Added
  <2>2. ASSUME NEW d \in Devices, NEW e \in Added(d), NEW f \in Added(d) PROVE e = f
    <3>1. PICK x \in snap[d] : e = [ttl |-> x.ttl, age |-> 0]
      BY <2>0, <2>2, AddProperties
    <3>2. PICK y \in snap[d] : f = [ttl |-> y.ttl, age |-> 0]
      BY <2>0, <2>2, AddProperties
    <3> QED
      BY <3>1, <3>2 DEF RoundInv, OneEntry
  <2>3. mgr' \in Tables
    BY <2>0, <2>1, AddProperties DEF Tables
  <2>4. \A d \in Devices : \A e, f \in mgr'[d] : e = f
    BY <2>1, <2>2 DEF TypeOK
  <2>5. TypeOK'
    BY <1>8, <1>e, <2>3, <2>4 DEF AddAll, TypeOK
  <2> QED
    BY <1>8, <1>e, <2>5 DEF AddAll, RoundInv, Served, ServedIn
<1>9. CASE TickMgr
  <2>1. TypeOK'
    BY <1>9, UnexpiredProperties DEF TickMgr, TypeOK
  <2> QED
    BY <1>9, <2>1 DEF TickMgr, RoundInv, OneEntry, Served, ServedIn
<1>10. CASE Second
  <2>1. ASSUME NEW t \in Tables, OneEntry(t) PROVE OneEntry(Older(t))
    BY <2>1, OlderProperties DEF OneEntry
  <2>2. /\ \A s \in Slots : OneEntry(bbmd'[s])
        /\ OneEntry(mgr')
    BY <1>10, <2>1, SecondProperties DEF Second, RoundInv, TypeOK, OneEntry
  <2>3. clock' \in 0..Period /\ (sync # "idle" => clock' <= Slack)
    BY <1>10, TimeAssumption DEF Second, TypeOK
  <2>4. TypeOK'
    BY <1>10, <2>2, <2>3, SecondProperties DEF Second, TypeOK, OneEntry
  <2> QED
    BY <1>10, <2>2, <2>3, <2>4, SecondProperties DEF Second, RoundInv, OneEntry
<1>11. CASE UNCHANGED vars
  BY <1>11 DEF vars, TypeOK, RoundInv, OneEntry, Served, ServedIn
<1> QED
  BY <1>1, <1>2, <1>3, <1>4, <1>5, <1>6, <1>7, <1>8, <1>9, <1>10, <1>11 DEF Next


-----------------------------------------------------------------------------
(***************************************************************************)
(* Why what is gone is forgotten.  An entry of a BBMD is at least as old   *)
(* as its device is gone; the task copies it only while it is unexpired,   *)
(* so a copy is made at most ttl + Grace after the device went, and a copy *)
(* outlives its time by a round at most.                                   *)
(***************************************************************************)
Span(e) == e.ttl + Grace

AgeInv ==
    \A d \in Devices : \A e \in mgr[d] :
        e.age <= Span(e) + clock + (IF sync = "idle" THEN 0 ELSE Period)

GoneInv ==
    /\ \A s \in Slots \cap {runs, handle} : \A d \in Devices : \A e \in bbmd[s][d] :
          gone[d] <= e.age
    /\ sync = "adding" =>
          \A d \in Devices : \A e \in snap[d] : gone[d] <= Span(e) + clock
    /\ \A d \in Devices : \A e \in mgr[d] : gone[d] <= e.age + Span(e) + Slack

\* At first there are no entries.
LEMMA InitGone == Init => AgeInv /\ GoneInv
  BY DEF Init, AgeInv, GoneInv, Empty, Slots

\* The numbers in the invariants are numbers.
LEMMA Numbers ==
    ASSUME WellFormed
    PROVE  /\ clock \in Nat /\ clock <= Period
           /\ \A d \in Devices : since[d] \in Nat /\ gone[d] \in Nat
           /\ \A d \in Devices : \A e \in mgr[d] : e.ttl \in Nat /\ e.age \in Nat /\ e \in Entries
           /\ \A d \in Devices : \A e \in snap[d] : e.ttl \in Nat /\ e.age \in Nat /\ e \in Entries
           /\ \A s \in Slots, d \in Devices : \A e \in bbmd[s][d] :
                 e.ttl \in Nat /\ e.age \in Nat /\ e \in Entries
<1> USE DEF WellFormed, TypeOK
<1>1. \A e \in Entries : e.ttl \in Nat /\ e.age \in Nat
  BY TTLAssumption DEF Entries
<1>2. clock \in Nat /\ clock <= Period
  BY TimeAssumption
<1>3. \A d \in Devices : since[d] \in Nat /\ gone[d] \in Nat
  BY TimeAssumption
<1>4. \A d \in Devices : mgr[d] \subseteq Entries /\ snap[d] \subseteq Entries
  BY DEF Tables
<1>5. \A s \in Slots, d \in Devices : bbmd[s][d] \subseteq Entries
  BY DEF Tables
<1> QED
  BY <1>1, <1>2, <1>3, <1>4, <1>5

\* Every step keeps the ages in their bounds.
LEMMA StepAge == WellFormed /\ AgeInv /\ [Next]_vars => AgeInv'
<1> SUFFICES ASSUME WellFormed, AgeInv, [Next]_vars PROVE AgeInv'
  OBVIOUS
<1>n. /\ clock \in Nat /\ clock <= Period /\ Period \in Nat /\ Grace \in Nat
      /\ \A d \in Devices : \A e \in mgr[d] : e.ttl \in Nat /\ e.age \in Nat
  BY Numbers, TimeAssumption
<1>1. CASE UNCHANGED <<mgr, sync, clock>>
  BY <1>1 DEF AgeInv, Span
<1>2. CASE Snapshot \/ NoSnapshot
  BY <1>2, <1>n DEF Snapshot, NoSnapshot, AgeInv, Span
<1>3. CASE AddAll
  <2>1. mgr \in Tables /\ snap \in Tables
    BY DEF WellFormed, TypeOK
  <2>2. mgr' = [d \in Devices |-> IF snap[d] = {} THEN mgr[d] ELSE Added(d)]
    BY <1>3 DEF AddAll, Added
  <2>3. ASSUME NEW d \in Devices, NEW x \in mgr'[d]
        PROVE  x.age <= Span(x) + clock + Period
    <3>1. CASE x \in mgr[d]
      BY <1>3, <3>1 DEF AddAll, AgeInv
    <3>2. CASE x \in Added(d)
      <4>1. PICK e \in snap[d] : x = [ttl |-> e.ttl, age |-> 0]
        BY <2>1, <3>2, AddProperties
      <4>2. e.ttl \in Nat
        BY Numbers
      <4> QED
        BY <4>1, <4>2, <1>n DEF Span
    <3> QED
      BY <2>2, <2>3, <3>1, <3>2
  <2> QED
    BY <1>3, <2>3 DEF AddAll, AgeInv, Span
<1>4. CASE TickMgr
  <2>1. \A d \in Devices : \A e \in mgr'[d] : e \in mgr[d] /\ ~Expired(e)
    BY <1>4, UnexpiredProperties DEF TickMgr, WellFormed, TypeOK
  <2> QED
    BY <1>4, <1>n, <2>1 DEF TickMgr, AgeInv, Span, Expired
<1>5. CASE Second
  <2>1. mgr' = Older(mgr) /\ clock' = clock + 1 /\ sync' = sync /\ mgr \in Tables
    BY <1>5 DEF Second, WellFormed, TypeOK
  <2>2. ASSUME NEW d \in Devices, NEW x \in mgr'[d]
        PROVE  x.age <= Span(x) + clock' + (IF sync' = "idle" THEN 0 ELSE Period)
    <3>1. PICK e \in mgr[d] : x = [ttl |-> e.ttl, age |-> e.age + 1]
      BY <2>1, <2>2, OlderProperties
    <3>2. /\ x.ttl = e.ttl /\ x.age = e.age + 1
          /\ e.age <= Span(e) + clock + (IF sync = "idle" THEN 0 ELSE Period)
      BY <3>1 DEF AgeInv
    <3> QED
      BY <2>1, <3>2, <1>n DEF Span
  <2> QED
    BY <2>2 DEF AgeInv, Span
<1> QED
  BY <1>1, <1>2, <1>3, <1>4, <1>5
     DEF Next, vars, syncVars, Register, Unregister, StopRouter, RH!StopRouter,
         StartRouter, RH!StartRouter, Publish, RH!Publish

\* A step that takes no time does not make a device longer gone, and a device
\* the router serves is not gone.
LEMMA GoneShrinks ==
    ASSUME WellFormed, Observed, NEW d \in Devices
    PROVE  gone'[d] \in Nat /\ gone'[d] <= gone[d] /\ (Served(d)' => gone'[d] = 0)
<1>1. gone[d] \in Nat
  BY Numbers
<1>2. gone'[d] = IF Served(d)' THEN 0 ELSE gone[d]
  BY ObservedProperties DEF WellFormed
<1> QED
  BY <1>1, <1>2

\* Every step keeps the entries of a device that is gone in their bounds.
LEMMA StepGone == WellFormed /\ GoneInv /\ [Next]_vars => GoneInv'
<1> SUFFICES ASSUME WellFormed, GoneInv, [Next]_vars PROVE GoneInv'
  OBVIOUS
<1> DEFINE Fits(e, g, c) == g <= Span(e) + c
           Copied(e, g) == g <= e.age + Span(e) + Slack
<1>n. /\ clock \in Nat /\ clock <= Period /\ Period \in Nat /\ Grace \in Nat /\ Slack \in Nat
      /\ \A d \in Devices : gone[d] \in Nat
      /\ \A d \in Devices : \A e \in mgr[d] : e.ttl \in Nat /\ e.age \in Nat
      /\ \A d \in Devices : \A e \in snap[d] : e.ttl \in Nat /\ e.age \in Nat
      /\ \A s \in Slots, d \in Devices : \A e \in bbmd[s][d] : e.ttl \in Nat /\ e.age \in Nat
  BY Numbers, TimeAssumption
\* Steps that only make devices less gone, or tables smaller.
<1>s. ASSUME \A d \in Devices : gone'[d] \in Nat /\ gone'[d] <= gone[d],
             \A s \in Slots \cap {runs', handle'} : \A d \in Devices : \A e \in bbmd'[s][d] :
                 gone'[d] <= e.age,
             UNCHANGED <<mgr, sync, snap, clock>>
      PROVE  GoneInv'
  BY <1>s, <1>n DEF GoneInv, Span
<1>1. ASSUME NEW r \in Devices, NEW ttl \in TTLs, Register(r, ttl) PROVE GoneInv'
  <2>1. /\ bbmd'[runs][r] = {[ttl |-> ttl, age |-> 0]}
        /\ \A s \in Slots, d \in Devices : s # runs \/ d # r => bbmd'[s][d] = bbmd[s][d]
    BY <1>1, RegisterProperties DEF WellFormed
  <2>2. \A d \in Devices : gone'[d] \in Nat /\ gone'[d] <= gone[d] /\ (Served(d)' => gone'[d] = 0)
    BY <1>1, GoneShrinks DEF Register
  <2>3. ttl \in Nat /\ ~Expired([ttl |-> ttl, age |-> 0])
    BY <1>n, TTLAssumption DEF Expired
  <2>4. Served(r)'
    BY <1>1, <2>1, <2>3 DEF Served, ServedIn, Register
  <2>5. ASSUME NEW s \in Slots \cap {runs, handle}, NEW d \in Devices, NEW e \in bbmd'[s][d]
        PROVE  gone'[d] <= e.age
    <3>1. CASE s = runs /\ d = r
      BY <2>1, <2>2, <2>4, <2>5, <3>1
    <3>2. CASE s # runs \/ d # r
      BY <1>n, <2>1, <2>2, <2>5, <3>2 DEF GoneInv
    <3> QED
      BY <3>1, <3>2
  <2> QED
    BY <1>1, <1>s, <2>2, <2>5 DEF Register, syncVars
<1>2. ASSUME NEW r \in Devices, Unregister(r) PROVE GoneInv'
  <2>1. \A s \in Slots, d \in Devices : bbmd'[s][d] \subseteq bbmd[s][d]
    BY <1>2, UnregisterProperties DEF WellFormed
  <2>2. \A d \in Devices : gone'[d] \in Nat /\ gone'[d] <= gone[d]
    BY <1>2, GoneShrinks DEF Unregister
  <2>3. \A s \in Slots \cap {runs, handle} : \A d \in Devices : \A e \in bbmd'[s][d] :
           gone'[d] <= e.age
    BY <1>n, <2>1, <2>2 DEF GoneInv
  <2> QED
    BY <1>2, <1>s, <2>2, <2>3 DEF Unregister, syncVars
<1>3. CASE StopRouter
  <2>2. \A d \in Devices : gone'[d] \in Nat /\ gone'[d] <= gone[d]
    BY <1>3, GoneShrinks DEF StopRouter, RH!StopRouter
  <2>3. \A s \in Slots \cap {runs', handle'} : \A d \in Devices : \A e \in bbmd'[s][d] :
           gone'[d] <= e.age
    BY <1>3, <1>n, <2>2 DEF GoneInv, StopRouter, RH!StopRouter, Slots, NoBbmd
  <2> QED
    BY <1>3, <1>s, <2>2, <2>3 DEF StopRouter, RH!StopRouter, syncVars
<1>4. CASE StartRouter
  <2>2. \A d \in Devices : gone'[d] \in Nat /\ gone'[d] <= gone[d]
    BY <1>4, GoneShrinks DEF StartRouter, RH!StartRouter
  <2>3. \A s \in Slots \cap {runs', handle'} : \A d \in Devices : \A e \in bbmd'[s][d] :
           gone'[d] <= e.age
    BY <1>4, <1>n, <2>2 DEF GoneInv, StartRouter, RH!StartRouter, Empty, WellFormed, TypeOK
  <2> QED
    BY <1>4, <1>s, <2>2, <2>3 DEF StartRouter, RH!StartRouter, syncVars
<1>5. CASE Publish
  <2>3. \A s \in Slots \cap {runs', handle'} : \A d \in Devices : \A e \in bbmd'[s][d] :
           gone'[d] <= e.age
    BY <1>5, <1>n DEF GoneInv, Publish, RH!Publish, Empty, WellFormed, TypeOK
  <2> QED
    BY <1>5, <1>n, <1>s, <2>3 DEF Publish, RH!Publish, syncVars
<1>6. CASE Snapshot
  <2>1. handle \in Slots /\ bbmd[handle] \in Tables
    BY <1>6 DEF Snapshot, WellFormed, TypeOK
  <2>2. \A d \in Devices : gone'[d] \in Nat /\ gone'[d] <= gone[d]
    BY <1>6, GoneShrinks DEF Snapshot
  <2>3. \A s \in Slots, d \in Devices : bbmd'[s][d] \subseteq bbmd[s][d]
    BY <1>6, <2>1, UnexpiredProperties DEF Snapshot, WellFormed, TypeOK
  <2>4. ASSUME NEW d \in Devices, NEW e \in snap'[d] PROVE gone'[d] <= Span(e) + clock'
    <3>1. e \in bbmd[handle][d] /\ ~Expired(e)
      BY <1>6, <2>1, <2>4, UnexpiredProperties DEF Snapshot
    <3>2. gone[d] <= e.age
      BY <2>1, <3>1 DEF GoneInv
    <3> QED
      BY <1>6, <1>n, <2>1, <2>2, <3>1, <3>2 DEF Snapshot, Span, Expired
  <2> QED
    BY <1>6, <1>n, <2>2, <2>3, <2>4 DEF Snapshot, GoneInv, Span
<1>7. CASE NoSnapshot
  BY <1>7 DEF NoSnapshot, GoneInv, Span
<1>8. CASE AddAll
  <2>1. mgr \in Tables /\ snap \in Tables /\ clock <= Slack
    BY <1>8 DEF AddAll, WellFormed, TypeOK, RoundInv
  <2>2. mgr' = [d \in Devices |-> IF snap[d] = {} THEN mgr[d] ELSE Added(d)]
    BY <1>8 DEF AddAll, Added
  <2>3. ASSUME NEW d \in Devices, NEW x \in mgr'[d]
        PROVE  gone[d] <= x.age + Span(x) + Slack
    <3>1. CASE x \in mgr[d]
      BY <3>1 DEF GoneInv
    <3>2. CASE x \in Added(d)
      <4>1. PICK e \in snap[d] : x = [ttl |-> e.ttl, age |-> 0]
        BY <2>1, <3>2, AddProperties
      <4>2. gone[d] <= Span(e) + clock /\ x.ttl = e.ttl /\ x.age = 0
        BY <1>8, <4>1 DEF AddAll, GoneInv
      <4> QED
        BY <1>n, <2>1, <4>1, <4>2 DEF Span
    <3> QED
      BY <2>2, <2>3, <3>1, <3>2
  <2> QED
    BY <1>8, <2>3 DEF AddAll, GoneInv, Span
<1>9. CASE TickMgr
  <2>1. \A d \in Devices : mgr'[d] \subseteq mgr[d]
    BY <1>9, UnexpiredProperties DEF TickMgr, WellFormed, TypeOK
  <2> QED
    BY <1>9, <2>1 DEF TickMgr, GoneInv, Span
<1>10. CASE Second
  <2>1. /\ mgr' = Older(mgr) /\ clock' = clock + 1 /\ UNCHANGED <<runs, handle, sync, snap>>
        /\ mgr \in Tables /\ \A s \in Slots : bbmd[s] \in Tables /\ bbmd'[s] = Older(bbmd[s])
    BY <1>10, SecondProperties DEF Second, WellFormed, TypeOK
  <2>2. \A d \in Devices : gone'[d] \in Nat /\ gone'[d] <= gone[d] + 1
    BY <1>10, SecondProperties, TimeAssumption DEF WellFormed
  <2>3. ASSUME NEW s \in Slots \cap {runs, handle}, NEW d \in Devices, NEW x \in bbmd'[s][d]
        PROVE  gone'[d] <= x.age
    <3>1. PICK e \in bbmd[s][d] : x = [ttl |-> e.ttl, age |-> e.age + 1]
      BY <2>1, <2>3, OlderProperties
    <3>2. gone[d] <= e.age /\ x.age = e.age + 1
      BY <3>1 DEF GoneInv
    <3> QED
      BY <1>n, <2>2, <3>1, <3>2
  <2>4. ASSUME NEW d \in Devices, NEW x \in mgr'[d]
        PROVE  gone'[d] <= x.age + Span(x) + Slack
    <3>1. PICK e \in mgr[d] : x = [ttl |-> e.ttl, age |-> e.age + 1]
      BY <2>1, <2>4, OlderProperties
    <3>2. gone[d] <= e.age + Span(e) + Slack /\ x.age = e.age + 1 /\ x.ttl = e.ttl
      BY <3>1 DEF GoneInv
    <3> QED
      BY <1>n, <2>2, <3>1, <3>2 DEF Span
  <2>5. ASSUME sync = "adding", NEW d \in Devices, NEW e \in snap[d]
        PROVE  gone'[d] <= Span(e) + clock'
    <3>1. gone[d] <= Span(e) + clock
      BY <2>5 DEF GoneInv
    <3> QED
      BY <1>n, <2>1, <2>2, <2>5, <3>1 DEF Span
  <2> QED
    BY <2>1, <2>3, <2>4, <2>5 DEF GoneInv, Span
<1>11. CASE UNCHANGED vars
  BY <1>11 DEF vars, GoneInv, Span
<1> QED
  BY <1>1, <1>2, <1>3, <1>4, <1>5, <1>6, <1>7, <1>8, <1>9, <1>10, <1>11 DEF Next


-----------------------------------------------------------------------------
(***************************************************************************)
(* Why what is registered is shown.  A registration older than the round   *)
(* was there when the round began, so the task read it; it is among the    *)
(* copies from AddAll on, and too young there for tick to drop.  A BBMD    *)
(* that is not published yet has none so old: the handle's write waits for *)
(* one guard only.                                                         *)
(***************************************************************************)
PublishInv ==
    Publishing => \A d \in Devices :
        /\ since[d] <= clock
        /\ sync = "idle" /\ clock > Slack => since[d] = 0
        /\ \A e \in bbmd[runs][d] :
              e.age <= clock /\ (sync = "idle" /\ clock > Slack => e.age = 0)

ShownInv ==
    \A d \in Devices :
        /\ sync = "adding" =>
              /\ since[d] > clock => snap[d] # {}
              /\ since[d] > clock + Period => mgr[d] # {}
        /\ sync = "ticking" => (since[d] > clock => \E f \in mgr[d] : f.age <= clock)
        /\ sync = "idle" => (since[d] > clock => mgr[d] # {})

TtlInv ==
    runs # NoBbmd => \A d \in Devices : \A e \in bbmd[runs][d] :
        /\ sync = "adding" =>
              /\ e.age > clock => \E f \in snap[d] : f.ttl = e.ttl
              /\ e.age > clock + Period => \E f \in mgr[d] : f.ttl = e.ttl
        /\ sync = "ticking" =>
              (e.age > clock => \E f \in mgr[d] : f.ttl = e.ttl /\ f.age <= clock)
        /\ sync = "idle" => (e.age > clock => \E f \in mgr[d] : f.ttl = e.ttl)

CopyInv == PublishInv /\ ShownInv /\ TtlInv

\* At first no device is registered and nothing is shown.
LEMMA InitCopy == Init => CopyInv
  BY TimeAssumption
     DEF Init, CopyInv, PublishInv, ShownInv, TtlInv, Publishing, RH!Publishing, Empty, Slots, NoBbmd

\* A step that takes no time does not lengthen a registration.
LEMMA SinceShrinks ==
    ASSUME WellFormed, Observed, NEW d \in Devices
    PROVE  since'[d] \in Nat /\ since'[d] <= since[d]
<1>1. since[d] \in Nat
  BY Numbers
<1>2. since'[d] = IF Served(d)' THEN since[d] ELSE 0
  BY ObservedProperties DEF WellFormed
<1> QED
  BY <1>1, <1>2

\* Devices come and go: nothing gets older, and a new entry is of age 0.
LEMMA StepDevices ==
    ASSUME WellFormed, CopyInv, UNCHANGED <<runs, handle, syncVars>>, Observed,
           \A d \in Devices : \A e \in bbmd'[runs][d] : e \in bbmd[runs][d] \/ e.age = 0
    PROVE  CopyInv'
<1>n. clock \in Nat /\ \A d \in Devices : since[d] \in Nat /\ since'[d] \in Nat /\ since'[d] <= since[d]
  BY Numbers, SinceShrinks
<1>1. PublishInv'
  BY <1>n DEF CopyInv, PublishInv, Publishing, RH!Publishing, syncVars
<1>2. ShownInv'
  BY <1>n, TimeAssumption DEF CopyInv, ShownInv, syncVars
<1>3. TtlInv'
  BY <1>n, TimeAssumption DEF CopyInv, TtlInv, syncVars
<1> QED
  BY <1>1, <1>2, <1>3 DEF CopyInv

\* Every step keeps the list in agreement with the running router's BBMD.
LEMMA StepCopy == WellFormed /\ CopyInv /\ [Next]_vars => CopyInv'
<1> SUFFICES ASSUME WellFormed, CopyInv, [Next]_vars PROVE CopyInv'
  OBVIOUS
<1>n. /\ clock \in Nat /\ clock <= Period
      /\ Period \in Nat /\ Grace \in Nat /\ Slack \in Nat /\ Slack < Period /\ Slack <= Grace
      /\ \A d \in Devices : since[d] \in Nat
      /\ \A d \in Devices : \A e \in mgr[d] : e.ttl \in Nat /\ e.age \in Nat
      /\ \A d \in Devices : \A e \in snap[d] : e.ttl \in Nat /\ e.age \in Nat
      /\ \A s \in Slots, d \in Devices : \A e \in bbmd[s][d] : e.ttl \in Nat /\ e.age \in Nat
  BY Numbers, TimeAssumption
<1>t. /\ mgr \in Tables /\ snap \in Tables /\ \A s \in Slots : bbmd[s] \in Tables
      /\ runs \in Slots \cup {NoBbmd} /\ handle \in Slots \cup {NoBbmd}
  BY DEF WellFormed, TypeOK
<1>z. \A d \in Devices : since[d] > 0 => Served(d)
  BY DEF WellFormed, RoundInv
<1>1. ASSUME NEW r \in Devices, NEW ttl \in TTLs, Register(r, ttl) PROVE CopyInv'
  <2>1. /\ bbmd'[runs][r] = {[ttl |-> ttl, age |-> 0]}
        /\ \A s \in Slots, d \in Devices : s # runs \/ d # r => bbmd'[s][d] = bbmd[s][d]
        /\ runs \in Slots
    BY <1>1, <1>t, RegisterProperties DEF WellFormed, Register
  <2>2. ASSUME NEW d \in Devices, NEW e \in bbmd'[runs][d]
        PROVE  e \in bbmd[runs][d] \/ e.age = 0
    BY <2>1, <2>2
  <2> QED
    BY <1>1, <2>2, StepDevices DEF Register
<1>2. ASSUME NEW r \in Devices, Unregister(r) PROVE CopyInv'
  <2>1. \A d \in Devices : bbmd'[runs][d] \subseteq bbmd[runs][d]
    BY <1>2, <1>t, UnregisterProperties DEF WellFormed, Unregister
  <2> QED
    BY <1>2, <2>1, StepDevices DEF Unregister
<1>3. CASE StopRouter
  <2>1. \A d \in Devices : since'[d] \in Nat /\ since'[d] <= since[d]
    BY <1>3, SinceShrinks DEF StopRouter, RH!StopRouter
  <2>2. runs' = NoBbmd /\ UNCHANGED <<mgr, sync, snap, clock>>
    BY <1>3 DEF StopRouter, RH!StopRouter, syncVars
  <2> QED
    BY <1>n, <2>1, <2>2 DEF CopyInv, PublishInv, Publishing, RH!Publishing, ShownInv, TtlInv
<1>4. CASE StartRouter
  <2>1. runs' \in Slots /\ \A d \in Devices : bbmd'[runs'][d] = {}
    BY <1>4, <1>t DEF StartRouter, RH!StartRouter, Empty, WellFormed, TypeOK
  <2>2. \A d \in Devices : ~Served(d)'
    BY <2>1 DEF Served, ServedIn
  <2>3. \A d \in Devices : since'[d] = 0
    BY <1>4, <2>2, ObservedProperties DEF StartRouter, RH!StartRouter, WellFormed
  <2>4. UNCHANGED <<handle, mgr, sync, snap, clock>>
    BY <1>4 DEF StartRouter, RH!StartRouter, syncVars
  <2> QED
    BY <1>n, <2>1, <2>3, <2>4 DEF CopyInv, PublishInv, ShownInv, TtlInv
<1>5. CASE Publish
  <2>1. /\ ~Publishing' /\ bbmd'[runs] = bbmd[runs]
        /\ UNCHANGED <<runs, mgr, sync, snap, clock, since>>
    BY <1>5, <1>t DEF Publish, RH!Publish, Publishing, RH!Publishing, syncVars, WellFormed, TypeOK
  <2> QED
    BY <2>1 DEF CopyInv, PublishInv, ShownInv, TtlInv
<1>6. CASE Snapshot
  <2>1. /\ handle \in Slots /\ sync = "idle" /\ clock = Period
        /\ sync' = "adding" /\ clock' = 0
        /\ UNCHANGED <<runs, handle, mgr>>
    BY <1>6, <1>t DEF Snapshot
  <2>2. \A d \in Devices : since'[d] \in Nat /\ since'[d] <= since[d]
    BY <1>6, SinceShrinks DEF Snapshot
  <2>3. \A s \in Slots, d \in Devices : bbmd'[s][d] \subseteq bbmd[s][d]
    BY <1>6, <1>t, <2>1, UnexpiredProperties DEF Snapshot, WellFormed, TypeOK
  <2>4. bbmd'[handle] = snap' /\ \A d \in Devices : \A e : e \in snap'[d] <=> e \in bbmd[handle][d] /\ ~Expired(e)
    BY <1>6, <1>t, <2>1, UnexpiredProperties DEF Snapshot, WellFormed, TypeOK
  <2>5. PublishInv'
    BY <1>n, <1>t, <2>1, <2>2, <2>3 DEF CopyInv, PublishInv, Publishing, RH!Publishing
  <2>6. ASSUME NEW d \in Devices PROVE since'[d] > 0 => snap'[d] # {}
    <3>1. CASE Publishing
      BY <1>n, <2>1, <2>2, <3>1 DEF CopyInv, PublishInv
    <3>2. CASE ~Publishing /\ since'[d] > 0
      <4>1. Served(d) /\ runs = handle
        BY <1>n, <1>z, <2>1, <2>2, <3>2 DEF Publishing, RH!Publishing, Served, ServedIn
      <4> QED
        BY <2>4, <4>1 DEF Served, ServedIn
    <3> QED
      BY <3>1, <3>2
  <2>7. ShownInv'
    BY <1>n, <2>1, <2>2, <2>6 DEF CopyInv, ShownInv
  <2>8. TtlInv'
    <3>1. CASE Publishing
      BY <1>n, <1>t, <2>1, <2>3, <3>1 DEF CopyInv, PublishInv, TtlInv
    <3>2. CASE ~Publishing
      BY <1>n, <1>t, <2>1, <2>3, <2>4, <3>2 DEF CopyInv, TtlInv, Publishing, RH!Publishing
    <3> QED
      BY <3>1, <3>2
  <2> QED
    BY <2>5, <2>7, <2>8 DEF CopyInv
<1>7. CASE NoSnapshot
  <2>1. /\ handle = NoBbmd /\ sync = "idle" /\ clock = Period
        /\ sync' = "ticking" /\ clock' = 0
        /\ UNCHANGED <<runs, handle, mgr, bbmd, since>>
    BY <1>7 DEF NoSnapshot
  <2>2. \A d \in Devices : since[d] = 0
    BY <1>n, <1>z, <2>1 DEF CopyInv, PublishInv, Publishing, RH!Publishing, Served, ServedIn
  <2>3. runs # NoBbmd => \A d \in Devices : \A e \in bbmd[runs][d] : e.age = 0
    BY <1>n, <2>1 DEF CopyInv, PublishInv, Publishing, RH!Publishing
  <2> QED
    BY <2>1, <2>2, <2>3 DEF CopyInv, PublishInv, Publishing, RH!Publishing, ShownInv, TtlInv
<1>8. CASE AddAll
  <2>1. mgr' = [d \in Devices |-> IF snap[d] = {} THEN mgr[d] ELSE Added(d)]
    BY <1>8 DEF AddAll, Added
  <2>2. /\ sync = "adding" /\ sync' = "ticking"
        /\ UNCHANGED <<runs, handle, bbmd, clock, since>>
    BY <1>8 DEF AddAll
  <2>3. ASSUME NEW d \in Devices, NEW e \in snap[d]
        PROVE  \E f \in mgr'[d] : f.ttl = e.ttl /\ f.age = 0
    <3>1. [ttl |-> e.ttl, age |-> 0] \in mgr'[d]
      BY <1>t, <2>1, <2>3, AddProperties
    <3> QED
      BY <3>1
  <2>4. PublishInv'
    BY <2>2 DEF CopyInv, PublishInv, Publishing, RH!Publishing
  <2>5. ShownInv'
    BY <1>n, <2>2, <2>3 DEF CopyInv, ShownInv
  <2>6. TtlInv'
    <3> SUFFICES ASSUME runs # NoBbmd, NEW d \in Devices, NEW e \in bbmd[runs][d], e.age > clock
                 PROVE  \E f \in mgr'[d] : f.ttl = e.ttl /\ f.age <= clock
      BY <2>2 DEF TtlInv
    <3>1. PICK x \in snap[d] : x.ttl = e.ttl
      BY <2>2 DEF CopyInv, TtlInv
    <3> QED
      BY <1>n, <2>3, <3>1
  <2> QED
    BY <2>4, <2>5, <2>6 DEF CopyInv
<1>9. CASE TickMgr
  <2>1. \A d \in Devices : \A e : e \in mgr'[d] <=> e \in mgr[d] /\ ~Expired(e)
    BY <1>9, <1>t, UnexpiredProperties DEF TickMgr
  <2>2. /\ sync = "ticking" /\ sync' = "idle" /\ clock <= Slack
        /\ UNCHANGED <<runs, handle, bbmd, clock, since>>
    BY <1>9 DEF TickMgr, WellFormed, RoundInv
  <2>3. ASSUME NEW d \in Devices, NEW f \in mgr[d], f.age <= clock PROVE f \in mgr'[d]
    BY <1>n, <2>1, <2>2, <2>3 DEF Expired
  <2>4. PublishInv'
    BY <1>n, <2>2 DEF CopyInv, PublishInv, Publishing, RH!Publishing
  <2>5. ShownInv'
    BY <1>n, <2>2, <2>3 DEF CopyInv, ShownInv
  <2>6. TtlInv'
    <3> SUFFICES ASSUME runs # NoBbmd, NEW d \in Devices, NEW e \in bbmd[runs][d], e.age > clock
                 PROVE  \E f \in mgr'[d] : f.ttl = e.ttl
      BY <2>2 DEF TtlInv
    <3>1. PICK f \in mgr[d] : f.ttl = e.ttl /\ f.age <= clock
      BY <2>2 DEF CopyInv, TtlInv
    <3> QED
      BY <2>3, <3>1
  <2> QED
    BY <2>4, <2>5, <2>6 DEF CopyInv
<1>10. CASE Second
  <2>1. /\ clock' = clock + 1 /\ UNCHANGED <<runs, handle, sync, snap>>
        /\ Publishing => sync = "adding"
        /\ mgr' = Older(mgr) /\ \A s \in Slots : bbmd'[s] = Older(bbmd[s])
    BY <1>10, SecondProperties DEF Second, WellFormed
  <2>2. \A d \in Devices : since'[d] \in Nat /\ since'[d] <= since[d] + 1
    BY <1>10, SecondProperties, TimeAssumption DEF WellFormed
  <2>3. \A d \in Devices : \A f \in mgr[d] : \E g \in mgr'[d] : g.ttl = f.ttl /\ g.age = f.age + 1
    <3>1. \A d \in Devices : \A f \in mgr[d] : [ttl |-> f.ttl, age |-> f.age + 1] \in mgr'[d]
      BY <1>t, <2>1, OlderProperties
    <3> QED
      BY <3>1
  <2>4. ASSUME NEW s \in Slots, NEW d \in Devices, NEW x \in bbmd'[s][d]
        PROVE  \E e \in bbmd[s][d] : x.ttl = e.ttl /\ x.age = e.age + 1
    <3>1. PICK e \in bbmd[s][d] : x = [ttl |-> e.ttl, age |-> e.age + 1]
      BY <1>t, <2>1, <2>4, OlderProperties
    <3> QED
      BY <3>1
  <2>5. PublishInv'
    <3> SUFFICES ASSUME Publishing, NEW d \in Devices
                 PROVE  /\ since'[d] <= clock'
                        /\ \A x \in bbmd'[runs][d] : x.age <= clock'
      BY <2>1 DEF PublishInv, Publishing, RH!Publishing
    <3>1. runs \in Slots
      BY <1>t DEF Publishing, RH!Publishing
    <3>2. since[d] <= clock /\ \A e \in bbmd[runs][d] : e.age <= clock
      BY DEF CopyInv, PublishInv
    <3> QED
      BY <1>n, <2>1, <2>2, <2>4, <3>1, <3>2
  <2>6. ShownInv'
    <3> SUFFICES ASSUME NEW d \in Devices
                 PROVE  /\ sync = "adding" =>
                              /\ since'[d] > clock' => snap[d] # {}
                              /\ since'[d] > clock' + Period => mgr'[d] # {}
                        /\ sync = "ticking" =>
                              (since'[d] > clock' => \E f \in mgr'[d] : f.age <= clock')
                        /\ sync = "idle" => (since'[d] > clock' => mgr'[d] # {})
      BY <2>1 DEF ShownInv
    <3>1. /\ since'[d] > clock' => since[d] > clock
          /\ since'[d] > clock' + Period => since[d] > clock + Period
      BY <1>n, <2>1, <2>2
    <3>2. \A f \in mgr[d] : f.age <= clock => \E g \in mgr'[d] : g.age <= clock'
      BY <1>n, <2>1, <2>3
    <3>3. mgr[d] # {} => mgr'[d] # {}
      BY <2>3
    <3> QED
      BY <3>1, <3>2, <3>3 DEF CopyInv, ShownInv
  <2>7. TtlInv'
    <3> SUFFICES ASSUME runs # NoBbmd, NEW d \in Devices, NEW x \in bbmd'[runs][d]
                 PROVE  /\ sync = "adding" =>
                              /\ x.age > clock' => \E f \in snap[d] : f.ttl = x.ttl
                              /\ x.age > clock' + Period => \E f \in mgr'[d] : f.ttl = x.ttl
                        /\ sync = "ticking" =>
                              (x.age > clock' => \E f \in mgr'[d] : f.ttl = x.ttl /\ f.age <= clock')
                        /\ sync = "idle" => (x.age > clock' => \E f \in mgr'[d] : f.ttl = x.ttl)
      BY <2>1 DEF TtlInv
    <3>0. runs \in Slots
      BY <1>t
    <3>1. PICK e \in bbmd[runs][d] : x.ttl = e.ttl /\ x.age = e.age + 1
      BY <2>4, <3>0
    <3>2. /\ x.age > clock' => e.age > clock
          /\ x.age > clock' + Period => e.age > clock + Period
      BY <1>n, <2>1, <3>0, <3>1
    <3>3. \A f \in mgr[d] : f.age <= clock =>
             \E g \in mgr'[d] : g.ttl = f.ttl /\ g.age <= clock'
      BY <1>n, <2>1, <2>3
    <3>4. \A f \in mgr[d] : \E g \in mgr'[d] : g.ttl = f.ttl
      BY <2>3
    <3> QED
      BY <3>1, <3>2, <3>3, <3>4 DEF CopyInv, TtlInv
  <2> QED
    BY <2>5, <2>6, <2>7 DEF CopyInv
<1>11. CASE UNCHANGED vars
  BY <1>11 DEF vars, CopyInv, PublishInv, Publishing, RH!Publishing, ShownInv, TtlInv
<1> QED
  BY <1>1, <1>2, <1>3, <1>4, <1>5, <1>6, <1>7, <1>8, <1>9, <1>10, <1>11 DEF Next

-----------------------------------------------------------------------------

IInv == WellFormed /\ AgeInv /\ GoneInv /\ CopyInv

\* The invariant holds throughout.
THEOREM Inductive == Spec => []IInv
<1>1. Init => IInv
  BY InitWellFormed, InitGone, InitCopy DEF IInv
<1>2. IInv /\ [Next]_vars => IInv'
  BY StepWellFormed, StepAge, StepGone, StepCopy DEF IInv
<1> QED
  BY <1>1, <1>2, PTL DEF Spec

\* The tables stay well-formed, with one entry per foreign device, whatever
\* the devices, the task and the routers do.
THEOREM TypeCorrect == Spec => []TypeOK
<1>1. IInv => TypeOK
  BY DEF IInv, WellFormed
<1> QED
  BY <1>1, Inductive, PTL

\* A device that stays registered for a round and its slack is in the table
\* GET /api/fdt lists, through router restarts and for every timing of the task.
THEOREM RegisteredDevicesAreShown == Spec => []RegisteredIsShown
<1>1. IInv => RegisteredIsShown
  <2> SUFFICES ASSUME IInv, NEW d \in Devices, since[d] > Period + Slack PROVE mgr[d] # {}
    BY DEF RegisteredIsShown
  <2>1. /\ clock \in Nat /\ clock <= Period /\ since[d] \in Nat
        /\ sync \in {"idle", "adding", "ticking"} /\ (sync # "idle" => clock <= Slack)
    BY Numbers DEF IInv, WellFormed, TypeOK, RoundInv
  <2> QED
    BY <2>1, TimeAssumption DEF IInv, CopyInv, ShownInv
<1> QED
  BY <1>1, Inductive, PTL

\* The list shows the time to live of the last registration.
THEOREM TtlShownIsCurrent == Spec => []TtlIsCurrent
<1>1. IInv => TtlIsCurrent
  <2> SUFFICES ASSUME IInv, NEW d \in Devices, Served(d), NEW e \in bbmd[runs][d],
                      e.age > Period + Slack
               PROVE  \E f \in mgr[d] : f.ttl = e.ttl
    BY DEF TtlIsCurrent
  <2>1. runs # NoBbmd /\ runs \in Slots
    BY DEF Served, ServedIn, IInv, WellFormed, TypeOK
  <2>2. /\ clock \in Nat /\ clock <= Period /\ e.age \in Nat
        /\ sync \in {"idle", "adding", "ticking"} /\ (sync # "idle" => clock <= Slack)
    BY <2>1, Numbers DEF IInv, WellFormed, TypeOK, RoundInv
  <2>3. e.age > clock /\ (sync # "idle" => e.age > clock + Period)
    BY <2>2, TimeAssumption
  <2> QED
    BY <2>1, <2>2, <2>3 DEF IInv, CopyInv, TtlInv
<1> QED
  BY <1>1, Inductive, PTL

\* A device that went is forgotten in twice its time and a round, even when
\* the router was stopped and its BBMD is all the task has to read.
THEOREM GoneDevicesAreForgotten == Spec => []GoneIsForgotten
<1>1. IInv => GoneIsForgotten
  <2> SUFFICES ASSUME IInv, NEW d \in Devices, NEW e \in mgr[d]
               PROVE  gone[d] <= 2 * (e.ttl + Grace) + Period + 2 * Slack
    BY DEF GoneIsForgotten
  <2>1. /\ clock \in Nat /\ clock <= Period /\ e.ttl \in Nat /\ e.age \in Nat /\ gone[d] \in Nat
        /\ (sync # "idle" => clock <= Slack)
    BY Numbers DEF IInv, WellFormed, RoundInv
  <2>2. e.age <= Span(e) + clock + (IF sync = "idle" THEN 0 ELSE Period)
    BY DEF IInv, AgeInv
  <2>3. gone[d] <= e.age + Span(e) + Slack
    BY DEF IInv, GoneInv
  <2>4. e.age <= e.ttl + Grace + Period + Slack
    BY <2>1, <2>2, TimeAssumption DEF Span
  <2> QED
    BY <2>1, <2>3, <2>4, TimeAssumption DEF Span
<1> QED
  BY <1>1, Inductive, PTL

=============================================================================
