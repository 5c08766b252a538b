--------------------------- MODULE SharedLocksProofs ---------------------------
(***************************************************************************)
(* Proofs about SharedLocks, for any number of connections: its types, that *)
(* no set of tasks wait for one another, that nobody is overtaken, and that *)
(* a status answer is a snapshot.                                           *)
(***************************************************************************)
EXTENDS SharedLocks, WellFoundedInduction, TLAPS

Outer == {"config", "bbmdHandle"}
Inner == {"fdt", "embedded"}

-----------------------------------------------------------------------------
(* The scripts. *)

LEMMA ScriptLengths ==
    ASSUME NEW j \in DOMAIN Script
    PROVE  /\ Len(Script[j]) \in Nat
           /\ j # "idle" => Len(Script[j]) >= 1
           /\ j = "status" => Len(Script[j]) = 3
<1>1. j \in {"idle", "start", "switch", "round", "roundWithoutBbmd", "status",
             "get", "getFdt", "put", "hubStatus", "hubMode"}
  BY DEF Script
<1>2. CASE j = "idle"
  BY <1>2 DEF Script
<1>3. CASE j = "start"
  BY <1>3 DEF Script, Start
<1>4. CASE j = "switch"
  BY <1>4 DEF Script, Switch
<1>5. CASE j = "round"
  BY <1>5 DEF Script, Round
<1>6. CASE j = "roundWithoutBbmd"
  BY <1>6 DEF Script, RoundWithoutBbmd
<1>7. CASE j = "status"
  BY <1>7 DEF Script, Status
<1>8. CASE j = "get"
  BY <1>8 DEF Script, Get
<1>9. CASE j = "getFdt"
  BY <1>9 DEF Script, GetFdt
<1>10. CASE j = "put"
  BY <1>10 DEF Script, Put
<1>11. CASE j = "hubStatus"
  BY <1>11 DEF Script, HubStatus
<1>12. CASE j = "hubMode"
  BY <1>12 DEF Script, HubMode
<1> QED BY <1>1, <1>2, <1>3, <1>4, <1>5, <1>6, <1>7, <1>8, <1>9, <1>10, <1>11, <1>12

\* The lock order: a guard held while another is waited for is of an outer
\* lock, the one waited for of an inner one.
LEMMA LockOrder ==
    ASSUME NEW j \in DOMAIN Script, NEW i \in Nat, NEW w \in News(j, i)
    PROVE  /\ w.lock \in Outer \cup Inner
           /\ \A g \in Guards(j, i) \cap Guards(j, i + 1) :
                 g.lock \in Outer /\ w.lock \in Inner
<1> USE DEF News, Guards, Read, Write, Outer, Inner, Script
<1>1. j \in {"idle", "start", "switch", "round", "roundWithoutBbmd", "status",
             "get", "getFdt", "put", "hubStatus", "hubMode"}
  OBVIOUS
<1>2. CASE j = "idle"
  BY <1>2
<1>3. CASE j = "start"
  BY <1>3 DEF Start
<1>4. CASE j = "switch"
  BY <1>4 DEF Switch
<1>5. CASE j = "round"
  BY <1>5 DEF Round
<1>6. CASE j = "roundWithoutBbmd"
  BY <1>6 DEF RoundWithoutBbmd
<1>7. CASE j = "status"
  BY <1>7 DEF Status
<1>8. CASE j = "get"
  BY <1>8 DEF Get
<1>9. CASE j = "getFdt"
  BY <1>9 DEF GetFdt
<1>10. CASE j = "put"
  BY <1>10 DEF Put
<1>11. CASE j = "hubStatus"
  BY <1>11 DEF HubStatus
<1>12. CASE j = "hubMode"
  BY <1>12 DEF HubMode
<1> QED BY <1>1, <1>2, <1>3, <1>4, <1>5, <1>6, <1>7, <1>8, <1>9, <1>10, <1>11, <1>12

\* One guard is new at a time.
LEMMA OneNew ==
    ASSUME NEW j \in DOMAIN Script, NEW i \in Nat, NEW v \in News(j, i), NEW w \in News(j, i)
    PROVE  v = w
<1> USE DEF News, Guards, Read, Write, Script
<1>1. j \in {"idle", "start", "switch", "round", "roundWithoutBbmd", "status",
             "get", "getFdt", "put", "hubStatus", "hubMode"}
  OBVIOUS
<1>2. CASE j = "idle"
  BY <1>2
<1>3. CASE j = "start"
  BY <1>3 DEF Start
<1>4. CASE j = "switch"
  BY <1>4 DEF Switch
<1>5. CASE j = "round"
  BY <1>5 DEF Round
<1>6. CASE j = "roundWithoutBbmd"
  BY <1>6 DEF RoundWithoutBbmd
<1>7. CASE j = "status"
  BY <1>7 DEF Status
<1>8. CASE j = "get"
  BY <1>8 DEF Get
<1>9. CASE j = "getFdt"
  BY <1>9 DEF GetFdt
<1>10. CASE j = "put"
  BY <1>10 DEF Put
<1>11. CASE j = "hubStatus"
  BY <1>11 DEF HubStatus
<1>12. CASE j = "hubMode"
  BY <1>12 DEF HubMode
<1> QED BY <1>1, <1>2, <1>3, <1>4, <1>5, <1>6, <1>7, <1>8, <1>9, <1>10, <1>11, <1>12

\* The hub URL is set under the configuration's write guard, and so is the mode,
\* up to which a switch keeps the guard; a status answer holds its read guard.
LEMMA HubModeGuards ==
    ASSUME NEW i \in Nat
    PROVE  /\ Write("embedded") \in News("hubMode", i) =>
                 Write("config") \in Guards("hubMode", i) \cap Guards("hubMode", i + 1)
           /\ i \in 1..(Len(Script["hubMode"]) - 1) =>
                 Write("config") \in Guards("hubMode", i) \cap Guards("hubMode", i + 1)
BY DEF News, Guards, Read, Write, Script, HubMode

LEMMA StatusGuards ==
    /\ \A i \in {2, 3} : Read("config") \in Guards("status", i)
    /\ Read("config") \in Guards("status", 2) \cap Guards("status", 3)
    /\ \A i \in Nat : Write("embedded") \in News("status", i) <=> i = 1
BY DEF News, Guards, Read, Write, Script, Status

LEMMA NoGuards ==
    ASSUME NEW j \in DOMAIN Script
    PROVE  Guards(j, 0) = {} /\ Guards("idle", 0) = {}
BY ScriptLengths DEF Guards

-----------------------------------------------------------------------------
(* The inductive invariant. *)

\* Every task waits once, in the middle of its script.
QueueInv ==
    /\ \A i, k \in 1..Len(waiting) : waiting[i] = waiting[k] => i = k
    /\ \A t \in Tasks : Waits(t) => job[t] # "idle" /\ at[t] < Len(Script[job[t]])

\* The locks do their work.
Exclusion ==
    \A t, u \in Tasks : t # u =>
        \A g \in Held(t), h \in Held(u) : ~Excludes(g, h)

SeenInv == \A h \in Handlers : HasRead(h) \subseteq fresh[h]

IInv == TypeOK /\ QueueInv /\ Exclusion /\ SeenInv

LEMMA HeldGuards == \A t \in Tasks : Held(t) \subseteq Guards(job[t], at[t])
BY DEF Held

LEMMA HandlersAreTasks == Handlers \subseteq Tasks
BY DEF Tasks

-----------------------------------------------------------------------------
(* The queue. *)

LEMMA Queued ==
    ASSUME waiting \in Seq(Tasks), NEW t \in Tasks, waiting' = Append(waiting, t)
    PROVE  /\ waiting' \in Seq(Tasks)
           /\ Waits(t)'
           /\ \A u \in Tasks \ {t} : Waits(u)' <=> Waits(u)
           /\ (\A i, k \in 1..Len(waiting) : waiting[i] = waiting[k] => i = k) /\ ~Waits(t)
                 => (\A i, k \in 1..Len(waiting) : waiting[i] = waiting[k] => i = k)'
<1>1. /\ waiting' \in Seq(Tasks)
      /\ Len(waiting') = Len(waiting) + 1 /\ Len(waiting) \in Nat
      /\ \A i \in 1..Len(waiting) : waiting'[i] = waiting[i]
      /\ waiting'[Len(waiting) + 1] = t
  OBVIOUS
<1>2. Waits(t)'
  BY <1>1 DEF Waits
<1>3. \A u \in Tasks \ {t} : Waits(u)' <=> Waits(u)
  BY <1>1 DEF Waits
<1> QED BY <1>1, <1>2, <1>3 DEF Waits

LEMMA Dequeued ==
    ASSUME waiting \in Seq(Tasks), NEW t \in Tasks, StopWaiting(t)
    PROVE  /\ Waits(t)
           /\ waiting' \in Seq(Tasks)
           /\ \A u \in Tasks \ {t} : Waits(u)' <=> Waits(u)
           /\ (\A i, k \in 1..Len(waiting) : waiting[i] = waiting[k] => i = k)
                 => /\ ~Waits(t)'
                    /\ (\A i, k \in 1..Len(waiting) : waiting[i] = waiting[k] => i = k)'
<1>1. PICK i \in 1..Len(waiting) :
        /\ waiting[i] = t
        /\ waiting' = [k \in 1..(Len(waiting) - 1) |-> IF k < i THEN waiting[k] ELSE waiting[k + 1]]
  BY DEF StopWaiting
<1>2. Len(waiting) \in Nat /\ Len(waiting) >= 1
  BY <1>1
<1>3. waiting' \in [1..(Len(waiting) - 1) -> Tasks]
  BY <1>1, <1>2
<1>4. waiting' \in Seq(Tasks) /\ Len(waiting') = Len(waiting) - 1
  BY <1>2, <1>3
<1>5. \A k \in 1..(Len(waiting) - 1) :
        waiting'[k] = IF k < i THEN waiting[k] ELSE waiting[k + 1]
  BY <1>1
<1>6. ASSUME NEW u \in Tasks \ {t} PROVE Waits(u)' <=> Waits(u)
  <2>1. ASSUME NEW k \in 1..Len(waiting), waiting[k] = u PROVE Waits(u)'
    <3>1. CASE k < i
      BY <1>1, <1>2, <1>4, <1>5, <2>1, <3>1 DEF Waits
    <3>2. CASE k > i
      <4>1. k - 1 \in 1..(Len(waiting) - 1) /\ waiting'[k - 1] = waiting[k]
        BY <1>1, <1>2, <1>5, <3>2
      <4> QED BY <1>4, <2>1, <4>1 DEF Waits
    <3> QED BY <1>1, <2>1, <3>1, <3>2
  <2>2. ASSUME NEW k \in 1..(Len(waiting) - 1), waiting'[k] = u PROVE Waits(u)
    BY <1>1, <1>2, <1>5, <2>2 DEF Waits
  <2> QED BY <1>4, <2>1, <2>2 DEF Waits
<1>7. ASSUME \A k, l \in 1..Len(waiting) : waiting[k] = waiting[l] => k = l
      PROVE  ~Waits(t)' /\ (\A k, l \in 1..Len(waiting) : waiting[k] = waiting[l] => k = l)'
  <2>1. \A k \in 1..(Len(waiting) - 1) : waiting'[k] # t
    BY <1>1, <1>2, <1>5, <1>7
  <2>2. \A k, l \in 1..(Len(waiting) - 1) : waiting'[k] = waiting'[l] => k = l
    BY <1>1, <1>2, <1>5, <1>7
  <2> QED BY <1>4, <2>1, <2>2 DEF Waits
<1> QED BY <1>1, <1>4, <1>6, <1>7 DEF Waits

-----------------------------------------------------------------------------
(* Every action preserves the invariant. *)

LEMMA InitInv == Init => IInv
<1> SUFFICES ASSUME Init PROVE IInv
  OBVIOUS
<1>1. TypeOK
  BY ScriptLengths DEF Init, TypeOK, Script, Jobs
<1>2. QueueInv
  BY DEF Init, QueueInv, Waits
<1>3. \A t \in Tasks : Held(t) = {}
  BY NoGuards DEF Init, Held, Waits, Script
<1>4. SeenInv
  <2> SUFFICES ASSUME NEW h \in Handlers, NEW i \in 1..at[h] PROVE FALSE
    BY DEF SeenInv, HasRead
  <2>1. at[h] = 0
    BY HandlersAreTasks DEF Init
  <2> QED BY <2>1
<1> QED BY <1>1, <1>2, <1>3, <1>4 DEF IInv, Exclusion

\* What a step of t alone leaves to the others.
OthersStay(t) ==
    \A u \in Tasks \ {t} : /\ job'[u] = job[u] /\ at'[u] = at[u]
                           /\ Waits(u)' <=> Waits(u)

\* The others keep what they hold; t may only gain what nobody else's guard excludes.
LEMMA ExclusionKept ==
    ASSUME TypeOK, Exclusion, NEW t \in Tasks, OthersStay(t), NEW W,
           Held(t)' \subseteq Held(t) \cup W,
           \A u \in Tasks \ {t} : ~Keeps(u, W)
    PROVE  Exclusion'
<1>1. \A u \in Tasks \ {t} : Held(u)' = Held(u)
  BY DEF OthersStay, Held
<1>2. \A u \in Tasks \ {t} : \A g \in Held(u), h \in Held(t)' : ~Excludes(g, h) /\ ~Excludes(h, g)
  BY DEF Exclusion, Keeps, Excludes
<1>3. \A u, v \in Tasks : u # v => \A g \in Held(u)', h \in Held(v)' : ~Excludes(g, h)
  BY <1>1, <1>2 DEF Exclusion
<1> QED BY <1>3 DEF Exclusion, Excludes

\* Who has read for a status answer holds the configuration.
LEMMA ReaderHolds ==
    ASSUME TypeOK, QueueInv, NEW h \in Handlers, HasRead(h) # {}
    PROVE  job[h] = "status" /\ Read("config") \in Held(h)
<1> USE DEF TypeOK
<1>1. h \in Tasks /\ job[h] \in DOMAIN Script /\ at[h] \in Nat /\ at[h] <= Len(Script[job[h]])
  BY HandlersAreTasks
<1>2. Len(Script["status"]) = 3
  BY DEF Script, Status
<1>3. PICK i \in 1..at[h] : Reads(job[h], i) # {}
  BY DEF HasRead
<1>4. job[h] = "status" /\ at[h] <= 3
  BY <1>1, <1>2, <1>3 DEF Reads
<1>5. i \in {2, 3}
  <2>1. i = 3 \/ Write("embedded") \in News("status", i - 1)
    BY <1>2, <1>3, <1>4 DEF Reads, TakesMode
  <2>2. i - 1 \in Nat
    BY <1>1, <1>3
  <2>3. Write("embedded") \in News("status", i - 1) => i - 1 = 1
    BY <2>2, StatusGuards
  <2> QED BY <1>1, <1>3, <2>1, <2>3
<1>6. at[h] \in {2, 3}
  BY <1>1, <1>3, <1>4, <1>5
<1>7. Waits(h) => at[h] = 2
  <2>1. Waits(h) => at[h] < Len(Script[job[h]])
    BY <1>1 DEF QueueInv
  <2>2. Len(Script[job[h]]) = 3
    BY <1>2, <1>4
  <2> QED BY <1>6, <2>1, <2>2
<1>8. CASE Waits(h)
  BY <1>4, <1>7, <1>8, StatusGuards DEF Held
<1>9. CASE ~Waits(h)
  BY <1>4, <1>6, <1>9, StatusGuards DEF Held
<1> QED BY <1>4, <1>8, <1>9

\* The hub URL and the hub mode change, and are read, under guards that exclude
\* one another.
LEMMA SeenKept ==
    ASSUME IInv, NEW t \in Tasks, OthersStay(t), NEW j \in DOMAIN Script, NEW i \in Nat,
           Guards(j, i) \cap Guards(j, i + 1) \subseteq Held(t),
           \A u \in Tasks \ {t} : ~Keeps(u, News(j, i)),
           job' = [job EXCEPT ![t] = j], (job[t] = j /\ at[t] = i) \/ (job[t] = "idle" /\ i = 0),
           Arrive(t, j, i + 1)
    PROVE  SeenInv'
<1> USE DEF IInv, TypeOK
<1>1. i + 1 - 1 = i
  OBVIOUS
<1>2. /\ at' = [at EXCEPT ![t] = i + 1]
      /\ fresh' = [h \in Handlers |-> IF h = t THEN fresh[h] \cup Reads(j, i + 1)
                                              ELSE fresh[h] \ Writes(j, i + 1)]
  BY DEF Arrive
<1> SUFFICES ASSUME NEW h \in Handlers PROVE HasRead(h)' \subseteq fresh'[h]
  BY DEF SeenInv
<1> h \in Tasks
  BY HandlersAreTasks
<1>3. CASE h = t
  <2>1. job'[h] = j /\ at'[h] = i + 1 /\ fresh'[h] = fresh[h] \cup Reads(j, i + 1)
    BY <1>2, <1>3
  <2> SUFFICES ASSUME NEW k \in 1..(i + 1), NEW x \in Reads(j, k) PROVE x \in fresh'[h]
    BY <2>1 DEF HasRead
  <2>2. CASE k = i + 1
    BY <2>1, <2>2
  <2>3. CASE k \in 1..i
    <3>1. job[h] = j /\ at[h] = i
      BY <1>3, <2>3
    <3>2. x \in HasRead(h)
      BY <2>3, <3>1 DEF HasRead
    <3> QED BY <2>1, <3>2 DEF SeenInv
  <2> QED BY <2>2, <2>3
<1>4. CASE h # t
  <2>1. HasRead(h)' = HasRead(h) /\ fresh'[h] = fresh[h] \ Writes(j, i + 1)
    BY <1>2, <1>4 DEF OthersStay, HasRead
  <2>2. HasRead(h) # {} => Writes(j, i + 1) = {}
    <3> SUFFICES ASSUME HasRead(h) # {} PROVE Writes(j, i + 1) = {}
      OBVIOUS
    <3>1. Read("config") \in Held(h)
      BY ReaderHolds
    <3>2. ASSUME Write("config") \in News(j, i) PROVE FALSE
      <4>1. ~Excludes(Read("config"), Write("config"))
        BY <1>4, <3>1, <3>2 DEF Keeps
      <4> QED BY <4>1 DEF Excludes, Read, Write
    <3>3. ASSUME Write("config") \in Held(t) PROVE FALSE
      <4>1. ~Excludes(Write("config"), Read("config"))
        BY <1>4, <3>1, <3>3 DEF Exclusion
      <4> QED BY <4>1 DEF Excludes, Read, Write
    <3>4. j = "hubMode" => Write("embedded") \notin News(j, i)
      BY <3>3, HubModeGuards
    <3> QED BY <1>1, <3>2, <3>4 DEF Writes, TakesConfig, TakesMode
  <2> QED BY <2>1, <2>2 DEF SeenInv
<1> QED BY <1>3, <1>4

\* The types of a step to the next point.
LEMMA ArriveTypes ==
    ASSUME TypeOK, NEW t \in Tasks, NEW j \in Jobs(t), j \in DOMAIN Script, NEW i \in Nat,
           i < Len(Script[j]), job' = [job EXCEPT ![t] = j], waiting' \in Seq(Tasks),
           (\A k, l \in 1..Len(waiting) : waiting[k] = waiting[l] => k = l)',
           Arrive(t, j, i + 1)
    PROVE  TypeOK'
<1> USE DEF TypeOK
<1>1. at' = [at EXCEPT ![t] = i + 1] /\ at' \in [Tasks -> Nat]
  BY DEF Arrive
<1>2. fresh' \in [Handlers -> SUBSET {"url", "mode"}]
  <2>1. Reads(j, i + 1) \subseteq {"url", "mode"}
    BY DEF Reads
  <2> QED BY <2>1 DEF Arrive
<1>3. \A u \in Tasks : at'[u] <= Len(Script[job'[u]])
  BY <1>1, ScriptLengths
<1> QED BY <1>1, <1>2, <1>3

\* t goes on from point i of j, which is where it is, or waits for the next one.
LEMMA LeaveKeeps ==
    ASSUME IInv, NEW t \in Tasks, NEW j \in Jobs(t), j \in DOMAIN Script, NEW i \in Nat,
           ~Waits(t), Held(t) = Guards(j, i), i < Len(Script[j]), j # "idle",
           (job[t] = j /\ at[t] = i) \/ (job[t] = "idle" /\ i = 0),
           job' = [job EXCEPT ![t] = j], Leave(t, j, i)
    PROVE  IInv'
<1> USE DEF IInv, TypeOK
<1>1. CASE /\ Free(t, News(j, i))
           /\ Arrive(t, j, i + 1)
           /\ UNCHANGED waiting
  <2>1. at' = [at EXCEPT ![t] = i + 1]
    BY <1>1 DEF Arrive
  <2>2. OthersStay(t) /\ ~Waits(t)'
    BY <1>1, <2>1 DEF OthersStay, Waits
  <2>3. Held(t)' = Guards(j, i + 1)
    BY <2>1, <2>2 DEF Held
  <2>4. Held(t)' \subseteq Held(t) \cup News(j, i)
    BY <2>3 DEF News
  <2>5. Exclusion'
    BY <1>1, <2>2, <2>4, ExclusionKept DEF Free
  <2>6. TypeOK'
    BY <1>1, ArriveTypes
  <2>7. SeenInv'
    <3>1. \A u \in Tasks \ {t} : ~Keeps(u, News(j, i))
      BY <1>1 DEF Free
    <3>2. Guards(j, i) \cap Guards(j, i + 1) \subseteq Held(t)
      OBVIOUS
    <3> QED BY <1>1, <2>2, <3>1, <3>2, SeenKept
  <2>8. QueueInv'
    BY <1>1, <2>2 DEF QueueInv, OthersStay
  <2> QED BY <2>5, <2>6, <2>7, <2>8
<1>2. CASE /\ ~Free(t, News(j, i))
           /\ waiting' = Append(waiting, t)
           /\ at' = [at EXCEPT ![t] = i]
           /\ UNCHANGED fresh
  <2>1. OthersStay(t) /\ Waits(t)'
    BY <1>2, Queued DEF OthersStay
  <2>2. Held(t)' \subseteq Guards(j, i)
    BY <1>2, HeldGuards, <2>1 DEF Held
  <2>3. Exclusion'
    <3>1. Held(t)' \subseteq Held(t) \cup {}
      BY <2>2
    <3>2. \A u \in Tasks \ {t} : ~Keeps(u, {})
      BY DEF Keeps
    <3> QED BY <2>1, <3>1, <3>2, ExclusionKept
  <2>4. TypeOK'
    <3>1. waiting' \in Seq(Tasks)
      BY <1>2, Queued
    <3>2. \A u \in Tasks : at'[u] <= Len(Script[job'[u]])
      BY <1>2
    <3>3. (\A k, l \in 1..Len(waiting) : waiting[k] = waiting[l] => k = l)'
      BY <1>2, Queued
    <3> QED BY <1>2, <3>1, <3>2, <3>3
  <2>5. QueueInv'
    <3>1. (\A k, l \in 1..Len(waiting) : waiting[k] = waiting[l] => k = l)'
      BY <1>2, Queued DEF QueueInv
    <3>2. ASSUME NEW u \in Tasks, Waits(u)'
          PROVE  job'[u] # "idle" /\ at'[u] < Len(Script[job'[u]])
      BY <1>2, <2>1, <3>2 DEF QueueInv, OthersStay
    <3> QED BY <3>1, <3>2 DEF QueueInv
  <2>6. SeenInv'
    <3> SUFFICES ASSUME NEW h \in Handlers, NEW k \in 1..at'[h], NEW x \in Reads(job'[h], k)
                 PROVE  x \in fresh[h]
      BY <1>2 DEF SeenInv, HasRead
    <3>1. at'[h] = at[h] /\ job'[h] = job[h]
      BY <1>2, HandlersAreTasks
    <3> QED BY <3>1 DEF SeenInv, HasRead
  <2> QED BY <2>3, <2>4, <2>5, <2>6
<1> QED BY <1>1, <1>2 DEF Leave

LEMMA BeginKeeps == ASSUME IInv, NEW t \in Tasks, Begin(t) PROVE IInv'
<1>1. PICK j \in Jobs(t) : job' = [job EXCEPT ![t] = j] /\ Leave(t, j, 0)
  BY DEF Begin
<1>2. j \in DOMAIN Script /\ j # "idle"
  BY DEF Jobs, Script
<1>3. ~Waits(t) /\ job[t] = "idle" /\ at[t] = 0
  <2>1. Len(Script["idle"]) = 0
    BY DEF Script
  <2> QED BY <2>1 DEF Begin, IInv, QueueInv, TypeOK
<1>4. PICK i \in Nat : i = 0
  OBVIOUS
<1>5. Held(t) = Guards(j, i)
  BY <1>2, <1>3, <1>4, NoGuards DEF Held
<1>6. i < Len(Script[j])
  BY <1>2, <1>4, ScriptLengths
<1>7. (job[t] = j /\ at[t] = i) \/ (job[t] = "idle" /\ i = 0)
  BY <1>3, <1>4
<1>8. Leave(t, j, i)
  BY <1>1, <1>4
<1> QED BY <1>1, <1>2, <1>3, <1>5, <1>6, <1>7, <1>8, LeaveKeeps

LEMMA ContinueKeeps == ASSUME IInv, NEW t \in Tasks, Continue(t) PROVE IInv'
<1>1. job[t] \in Jobs(t) /\ job[t] \in DOMAIN Script /\ at[t] \in Nat
  BY DEF Continue, IInv, TypeOK
<1>2. at[t] < Len(Script[job[t]])
  BY <1>1, ScriptLengths DEF Continue, AtEnd, IInv, TypeOK
<1>3. Held(t) = Guards(job[t], at[t]) /\ ~Waits(t)
  BY DEF Continue, Held
<1>4. job' = [job EXCEPT ![t] = job[t]]
  BY DEF Continue, IInv, TypeOK
<1>5. Leave(t, job[t], at[t]) /\ job[t] # "idle"
  BY DEF Continue
<1>6. (job[t] = job[t] /\ at[t] = at[t]) \/ (job[t] = "idle" /\ at[t] = 0)
  OBVIOUS
<1> QED BY <1>1, <1>2, <1>3, <1>4, <1>5, <1>6, LeaveKeeps

LEMMA GrantedKeeps == ASSUME IInv, NEW t \in Tasks, Granted(t) PROVE IInv'
<1> USE DEF IInv
<1> DEFINE j == job[t]
           i == at[t]
<1>1. /\ waiting' \in Seq(Tasks) /\ Waits(t) /\ ~Waits(t)'
      /\ \A u \in Tasks \ {t} : Waits(u)' <=> Waits(u)
      /\ (\A k, l \in 1..Len(waiting) : waiting[k] = waiting[l] => k = l)'
  BY Dequeued DEF Granted, QueueInv, TypeOK
<1>2. /\ j \in Jobs(t) /\ j \in DOMAIN Script /\ i \in Nat
      /\ j # "idle" /\ i < Len(Script[j])
  BY <1>1 DEF QueueInv, TypeOK
<1>3. Arrive(t, j, i + 1) /\ job' = [job EXCEPT ![t] = j]
  BY DEF Granted, TypeOK
<1>4. at' = [at EXCEPT ![t] = i + 1]
  BY <1>3 DEF Arrive
<1>5. OthersStay(t)
  BY <1>1, <1>3, <1>4 DEF OthersStay, TypeOK
<1>6. Exclusion'
  <2>1. Held(t)' = Guards(j, i + 1)
    BY <1>1, <1>3, <1>4 DEF Held, TypeOK
  <2>2. Held(t) = Guards(j, i) \cap Guards(j, i + 1)
    BY <1>1 DEF Held
  <2>3. Held(t)' \subseteq Held(t) \cup Wanted(t)
    BY <2>1, <2>2 DEF Wanted, News
  <2> QED BY <1>5, <2>3, ExclusionKept DEF Granted
<1>7. TypeOK'
  BY <1>1, <1>2, <1>3, ArriveTypes
<1>8. QueueInv'
  BY <1>1, <1>5 DEF QueueInv, OthersStay
<1>9. SeenInv'
  <2>1. Held(t) = Guards(j, i) \cap Guards(j, i + 1)
    BY <1>1 DEF Held
  <2>2. j = job[t] /\ i = at[t]
    OBVIOUS
  <2>4. \A u \in Tasks \ {t} : ~Keeps(u, News(j, i))
    BY DEF Granted, Wanted
  <2> HIDE DEF j, i
  <2>3. (job[t] = j /\ at[t] = i) \/ (job[t] = "idle" /\ i = 0)
    BY <2>2
  <2> QED BY <1>2, <1>3, <1>5, <2>1, <2>3, <2>4, SeenKept
<1> QED BY <1>6, <1>7, <1>8, <1>9

LEMMA DoneKeeps ==
    ASSUME IInv, NEW t \in Tasks, Done(t),
           (UNCHANGED waiting /\ ~Waits(t)) \/ StopWaiting(t)
    PROVE  IInv'
<1> USE DEF IInv, TypeOK
<1>1. /\ waiting' \in Seq(Tasks) /\ ~Waits(t)'
      /\ \A u \in Tasks \ {t} : Waits(u)' <=> Waits(u)
      /\ (\A k, l \in 1..Len(waiting) : waiting[k] = waiting[l] => k = l)'
  <2>1. CASE StopWaiting(t)
    BY <2>1, Dequeued DEF QueueInv
  <2>2. CASE UNCHANGED waiting /\ ~Waits(t)
    BY <2>2 DEF QueueInv, Waits
  <2> QED BY <2>1, <2>2
<1>2. /\ job' = [job EXCEPT ![t] = "idle"] /\ at' = [at EXCEPT ![t] = 0]
      /\ fresh' = [h \in Handlers |-> IF h = t THEN {} ELSE fresh[h]]
  BY DEF Done
<1>3. OthersStay(t)
  BY <1>1, <1>2 DEF OthersStay
<1>4. TypeOK'
  <2>1. \A u \in Tasks : at'[u] <= Len(Script[job'[u]])
    BY <1>2 DEF Script
  <2>2. "idle" \in DOMAIN Script
    BY DEF Script
  <2> QED BY <1>1, <1>2, <2>1, <2>2
<1>5. QueueInv'
  BY <1>1, <1>3 DEF QueueInv, OthersStay
<1>6. Exclusion'
  <2>1. Held(t)' \subseteq Held(t) \cup {}
    BY <1>1, <1>2, NoGuards DEF Held, Script
  <2>2. \A u \in Tasks \ {t} : ~Keeps(u, {})
    BY DEF Keeps
  <2> QED BY <1>3, <2>1, <2>2, ExclusionKept
<1>7. SeenInv'
  <2> SUFFICES ASSUME NEW h \in Handlers PROVE HasRead(h)' \subseteq fresh'[h]
    BY DEF SeenInv
  <2> h \in Tasks
    BY HandlersAreTasks
  <2>1. CASE h = t
    <3>1. at'[h] = 0
      BY <1>2, <2>1
    <3> QED BY <3>1 DEF HasRead
  <2>2. CASE h # t
    BY <1>2, <1>3, <2>2 DEF OthersStay, HasRead, SeenInv
  <2> QED BY <2>1, <2>2
<1> QED BY <1>4, <1>5, <1>6, <1>7

LEMMA InvNext == IInv /\ [Next]_vars => IInv'
<1> SUFFICES ASSUME IInv, [Next]_vars PROVE IInv'
  OBVIOUS
<1>1. ASSUME NEW t \in Tasks, Begin(t) PROVE IInv'
  BY <1>1, BeginKeeps
<1>2. ASSUME NEW t \in Tasks, Proceed(t) PROVE IInv'
  <2>1. CASE Finish(t)
    <3>1. ~Waits(t)
      BY <2>1 DEF Finish, AtEnd, IInv, QueueInv, TypeOK
    <3> QED BY <2>1, <3>1, DoneKeeps DEF Finish
  <2> QED BY <1>2, <2>1, ContinueKeeps, GrantedKeeps DEF Proceed
<1>3. ASSUME NEW h \in Handlers, HangUp(h) PROVE IInv'
  BY <1>3, DoneKeeps, HandlersAreTasks DEF HangUp
<1>4. CASE UNCHANGED vars
  <2> USE <1>4 DEF vars, IInv
  <2>1. TypeOK'
    BY DEF TypeOK
  <2>2. \A t \in Tasks : (Waits(t)' <=> Waits(t)) /\ Held(t)' = Held(t)
    BY DEF Waits, Held
  <2>3. QueueInv' /\ SeenInv'
    BY <2>2 DEF QueueInv, SeenInv, HasRead
  <2>4. Exclusion'
    BY <2>2 DEF Exclusion
  <2> QED BY <2>1, <2>3, <2>4
<1>5. CASE Next
  BY <1>1, <1>2, <1>3, <1>5 DEF Next, RunOn, StartReturns, Tasks
<1> QED BY <1>4, <1>5

-----------------------------------------------------------------------------

\* Every task is at a point of the script of something it may do.
THEOREM TypeCorrect == Spec => []TypeOK
<1>1. IInv => TypeOK
  BY DEF IInv
<1> QED BY InitInv, InvNext, <1>1, PTL DEF Spec

\* While a status answer is in the making no switch of the hub mode is half done:
\* the switch holds the configuration to write from its URL to its mode.
LEMMA NoneHalfSwitched ==
    ASSUME IInv, NEW h \in Handlers, HasRead(h) # {}, NEW k \in Handlers
    PROVE  ~HalfSwitched(k)
<1> USE DEF IInv
<1>1. h \in Tasks /\ k \in Tasks /\ job[h] = "status" /\ Read("config") \in Held(h)
  BY HandlersAreTasks, ReaderHolds
<1> SUFFICES ASSUME HalfSwitched(k) PROVE FALSE
  OBVIOUS
<1>2. k # h
  BY <1>1 DEF HalfSwitched
<1>3. Write("config") \in Guards(job[k], at[k]) \cap Guards(job[k], at[k] + 1)
  BY <1>1, HubModeGuards DEF HalfSwitched, TypeOK
<1>4. Write("config") \in Held(k)
  BY <1>3 DEF Held
<1> QED BY <1>1, <1>2, <1>4 DEF Exclusion, Excludes, Read, Write

\* For any number of connections, what a status handler has read of the hub mode
\* and the hub URL is so until it answers, and of no switch that is half done,
\* wherever handlers are dropped.
THEOREM StatusAnswersAreSnapshots == Spec => []StatusIsSnapshot
<1>1. IInv => StatusIsSnapshot
  BY NoneHalfSwitched DEF IInv, SeenInv, StatusIsSnapshot
<1> QED BY InitInv, InvNext, <1>1, PTL DEF Spec

\* Of some positions in the queue one is the first.
LEMMA FirstPosition ==
    ASSUME NEW P \in SUBSET Nat, P # {}
    PROVE  \E x \in P : \A y \in P : ~(y < x)
<1>1. \E x \in P : \A y \in P : ~(<<y, x>> \in OpToRel(<, Nat))
  BY NatLessThanWellFounded, WFMin
<1> QED BY <1>1 DEF OpToRel

\* Who waits for an outer lock waits for one who holds it and waits for an inner
\* one, or for one before him in that lock's queue; who waits for an inner lock
\* only for one before him.  So the first in the queue of those who wait for an
\* inner lock, or else for an outer one, waits for none of the others.
LEMMA NoDeadlockInv == IInv => NoDeadlock
<1> USE DEF IInv, TypeOK
<1> SUFFICES ASSUME IInv, NEW S \in SUBSET Waiters, S # {},
                    \A t \in S : \E u \in S : WaitsFor(t, u)
             PROVE  FALSE
  BY DEF NoDeadlock
<1>0. S \subseteq Tasks
  BY DEF Waiters
<1> DEFINE WantsInner(t) == \E w \in Wanted(t) : w.lock \in Inner
           Pos(t) == {i \in 1..Len(waiting) : waiting[i] = t}
<1>1. ASSUME NEW t \in S
      PROVE  /\ Waits(t)
             /\ \E w \in Wanted(t) : TRUE
             /\ job[t] \in DOMAIN Script /\ at[t] \in Nat
  BY <1>0, <1>1 DEF WaitsFor, Keeps, Ahead, SameLock
<1>2. ASSUME NEW t \in S, NEW u \in S, Keeps(u, Wanted(t))
      PROVE  ~WantsInner(t) /\ WantsInner(u)
  <2>1. PICK g \in Held(u), w \in Wanted(t) : g.lock = w.lock
    BY <1>2 DEF Keeps, Excludes
  <2>2. g \in Guards(job[u], at[u]) \cap Guards(job[u], at[u] + 1)
    BY <1>1, <2>1 DEF Held
  <2>3. PICK v \in Wanted(u) : TRUE
    BY <1>1
  <2>4. g.lock \in Outer /\ v.lock \in Inner
    BY <1>1, <2>2, <2>3, LockOrder DEF Wanted
  <2>5. ASSUME NEW x \in Wanted(t) PROVE x = w
    BY <1>1, <2>1, <2>5, OneNew DEF Wanted
  <2> QED BY <2>1, <2>4, <2>5 DEF Outer, Inner
<1>3. ASSUME NEW t \in S, NEW u \in S, Ahead(u, t)
      PROVE  /\ WantsInner(t) <=> WantsInner(u)
             /\ \E i \in Pos(u), k \in Pos(t) : i < k
  <2>1. PICK v \in Wanted(u), w \in Wanted(t) : v.lock = w.lock
    BY <1>3 DEF Ahead, SameLock
  <2>2. \A x \in Wanted(u) : x = v
    BY <1>1, OneNew DEF Wanted
  <2>3. \A x \in Wanted(t) : x = w
    BY <1>1, OneNew DEF Wanted
  <2> QED BY <1>3, <2>1, <2>2, <2>3 DEF Ahead
<1> DEFINE T == IF \E t \in S : WantsInner(t) THEN {t \in S : WantsInner(t)} ELSE S
           P == {i \in 1..Len(waiting) : waiting[i] \in T}
<1>4. T # {} /\ T \subseteq S
  OBVIOUS
<1>5. P \in SUBSET Nat /\ P # {}
  <2>1. PICK s \in T : TRUE
    BY <1>4
  <2> HIDE DEF T
  <2>2. PICK i \in 1..Len(waiting) : waiting[i] = s
    BY <1>1, <1>4, <2>1 DEF Waits
  <2>3. i \in P
    BY <2>1, <2>2
  <2>4. 1..Len(waiting) \subseteq Nat
    OBVIOUS
  <2> QED BY <2>3, <2>4
<1>6. PICK i \in P : \A k \in P : ~(k < i)
  BY <1>5, FirstPosition
<1> DEFINE t == waiting[i]
<1>7. t \in T /\ t \in S
  BY <1>4, <1>6
<1>8. PICK u \in S : Keeps(u, Wanted(t)) \/ Ahead(u, t)
  BY <1>7 DEF WaitsFor
<1>9. CASE Keeps(u, Wanted(t))
  <2>1. ~WantsInner(t) /\ WantsInner(u)
    BY <1>2, <1>7, <1>9
  <2> QED BY <1>7, <2>1
<1>10. CASE Ahead(u, t)
  <2>1. u \in T
    BY <1>3, <1>7, <1>10
  <2>2. PICK k \in Pos(u), l \in Pos(t) : k < l
    BY <1>3, <1>7, <1>10
  <2>3. l = i
    BY <1>6, <2>2 DEF QueueInv
  <2>4. k \in P
    BY <2>1, <2>2
  <2> QED BY <1>6, <2>2, <2>3, <2>4
<1> QED BY <1>8, <1>9, <1>10

\* No set of tasks wait for one another, for any number of connections.
THEOREM NoTasksDeadlock == Spec => []NoDeadlock
BY InitInv, InvNext, NoDeadlockInv, PTL DEF Spec

-----------------------------------------------------------------------------
(***************************************************************************)
(* Nobody is overtaken.  A step of x cannot put x before t in the queue,   *)
(* and what x takes, if t wants the same lock, x had asked for before t.   *)
(***************************************************************************)
Before(u, t) ==
    \E i, j \in 1..Len(waiting) : i < j /\ waiting[i] = u /\ waiting[j] = t

LEMMA QueuedLast ==
    ASSUME waiting \in Seq(Tasks), NEW x \in Tasks, waiting' = Append(waiting, x),
           NEW u \in Tasks, NEW t \in Tasks \ {x}, Before(u, t)'
    PROVE  Before(u, t)
<1>1. /\ Len(waiting') = Len(waiting) + 1 /\ Len(waiting) \in Nat
      /\ \A i \in 1..Len(waiting) : waiting'[i] = waiting[i]
      /\ waiting'[Len(waiting) + 1] = x
  OBVIOUS
<1>2. PICK i, j \in 1..Len(waiting') : i < j /\ waiting'[i] = u /\ waiting'[j] = t
  BY DEF Before
<1>3. j \in 1..Len(waiting) /\ i \in 1..Len(waiting)
  BY <1>1, <1>2
<1> QED BY <1>1, <1>2, <1>3 DEF Before

LEMMA DequeuedInOrder ==
    ASSUME waiting \in Seq(Tasks), NEW x \in Tasks, StopWaiting(x),
           NEW u \in Tasks, NEW t \in Tasks, Before(u, t)'
    PROVE  Before(u, t)
<1>1. PICK i \in 1..Len(waiting) :
        /\ waiting[i] = x
        /\ waiting' = [k \in 1..(Len(waiting) - 1) |-> IF k < i THEN waiting[k] ELSE waiting[k + 1]]
  BY DEF StopWaiting
<1>2. Len(waiting) \in Nat /\ Len(waiting) >= 1
  BY <1>1
<1>3. waiting' \in [1..(Len(waiting) - 1) -> Tasks]
  BY <1>1, <1>2
<1>4. waiting' \in Seq(Tasks) /\ Len(waiting') = Len(waiting) - 1
  BY <1>2, <1>3
<1> DEFINE Old(k) == IF k < i THEN k ELSE k + 1
<1>5. ASSUME NEW k \in 1..(Len(waiting) - 1)
      PROVE  Old(k) \in 1..Len(waiting) /\ waiting'[k] = waiting[Old(k)]
  BY <1>1, <1>2
<1>6. PICK k, l \in 1..(Len(waiting) - 1) : k < l /\ waiting'[k] = u /\ waiting'[l] = t
  BY <1>4 DEF Before
<1>7. Old(k) < Old(l)
  BY <1>1, <1>2, <1>6
<1> HIDE DEF Old
<1> QED BY <1>5, <1>6, <1>7 DEF Before

\* t waits through a step of x; W is what x takes.
LEMMA NobodyPasses ==
    ASSUME IInv, NEW x \in Tasks, NEW t \in Tasks \ {x}, Waits(t), OthersStay(x),
           ~(Waits(x) /\ Waits(x)'),
           NEW W, Held(x)' \subseteq Held(x) \cup W, SameLock(W, Wanted(t)) => Ahead(x, t),
           \A u \in Tasks : Before(u, t)' => Before(u, t),
           NEW u \in Tasks, WaitsFor(t, u)'
    PROVE  WaitsFor(t, u)
<1>1. Wanted(t)' = Wanted(t) /\ u # t
  BY DEF OthersStay, Wanted, WaitsFor
<1>2. ASSUME Ahead(u, t)' PROVE Ahead(u, t)
  <2>1. Before(u, t)' /\ Before(u, t)
    BY <1>2 DEF Ahead, Before
  <2>2. Waits(u) /\ Waits(u)'
    BY <2>1 DEF Before, Waits
  <2>3. Wanted(u)' = Wanted(u)
    BY <2>2 DEF OthersStay, Wanted
  <2>4. SameLock(Wanted(u), Wanted(t))
    BY <1>1, <1>2, <2>3 DEF Ahead, SameLock
  <2> QED BY <2>1, <2>4 DEF Ahead, Before
<1>3. ASSUME Keeps(u, Wanted(t))' PROVE Keeps(u, Wanted(t)) \/ Ahead(u, t)
  <2>1. PICK g \in Held(u)', w \in Wanted(t) : Excludes(g, w)
    BY <1>1, <1>3 DEF Keeps, Excludes
  <2>2. CASE g \in Held(u)
    BY <2>1, <2>2 DEF Keeps
  <2>3. CASE g \notin Held(u)
    <3>1. u = x
      BY <2>1, <2>3 DEF OthersStay, Held
    <3>2. g \in W
      BY <2>1, <2>3, <3>1
    <3> QED BY <2>1, <3>1, <3>2 DEF SameLock, Excludes
  <2> QED BY <2>2, <2>3
<1> QED BY <1>1, <1>2, <1>3 DEF WaitsFor


\* x takes a lock at once only when nobody waits for it.
LEMMA LeavePassesNobody ==
    ASSUME IInv, NEW x \in Tasks, NEW j \in DOMAIN Script, NEW i \in Nat,
           ~Waits(x), Held(x) = Guards(j, i), i < Len(Script[j]),
           job' = [job EXCEPT ![x] = j], Leave(x, j, i),
           NEW t \in Waiters, NEW u \in Tasks, WaitsFor(t, u)'
    PROVE  WaitsFor(t, u)
<1> USE DEF IInv, TypeOK
<1>1. t \in Tasks \ {x} /\ Waits(t)
  BY DEF Waiters
<1>2. CASE /\ Free(x, News(j, i))
           /\ Arrive(x, j, i + 1)
           /\ UNCHANGED waiting
  <2>1. at' = [at EXCEPT ![x] = i + 1]
    BY <1>2 DEF Arrive
  <2>2. OthersStay(x) /\ ~Waits(x)'
    BY <1>2, <2>1 DEF OthersStay, Waits
  <2>3. Held(x)' = Guards(j, i + 1)
    BY <2>1, <2>2 DEF Held
  <2>4. Held(x)' \subseteq Held(x) \cup News(j, i)
    BY <2>3 DEF News
  <2>5. ~SameLock(News(j, i), Wanted(t))
    BY <1>1, <1>2 DEF Free, SameLock
  <2>6. \A v \in Tasks : Before(v, t)' => Before(v, t)
    BY <1>2 DEF Before
  <2> QED BY <1>1, <2>2, <2>4, <2>5, <2>6, NobodyPasses
<1>3. CASE /\ ~Free(x, News(j, i))
           /\ waiting' = Append(waiting, x)
           /\ at' = [at EXCEPT ![x] = i]
           /\ UNCHANGED fresh
  <2>1. OthersStay(x)
    BY <1>3, Queued DEF OthersStay
  <2>2. Held(x)' \subseteq Held(x) \cup {}
    BY <1>3, HeldGuards, <2>1, Queued DEF Held
  <2>3. ~SameLock({}, Wanted(t))
    BY DEF SameLock
  <2>4. \A v \in Tasks : Before(v, t)' => Before(v, t)
    BY <1>1, <1>3, QueuedLast
  <2> QED BY <1>1, <2>1, <2>2, <2>3, <2>4, NobodyPasses
<1> QED BY <1>2, <1>3 DEF Leave

\* The lock goes to one who asked for it before t.
LEMMA GrantedPassesNobody ==
    ASSUME IInv, NEW x \in Tasks, Granted(x),
           NEW t \in Waiters, NEW u \in Tasks, WaitsFor(t, u)'
    PROVE  WaitsFor(t, u)
<1> USE DEF IInv, TypeOK
<1>1. t \in Tasks /\ Waits(t)
  BY DEF Waiters
<1>2. /\ Waits(x) /\ ~Waits(x)'
      /\ \A v \in Tasks \ {x} : Waits(v)' <=> Waits(v)
  BY Dequeued DEF Granted, QueueInv
<1>3. t # x
  BY <1>2 DEF WaitsFor
<1>4. at' = [at EXCEPT ![x] = at[x] + 1] /\ job' = job
  BY DEF Granted, Arrive
<1>5. OthersStay(x)
  BY <1>2, <1>4 DEF OthersStay
<1>6. Held(x)' \subseteq Held(x) \cup Wanted(x)
  BY <1>2, <1>4 DEF Held, Wanted, News
<1>7. ASSUME SameLock(Wanted(x), Wanted(t)) PROVE Ahead(x, t)
  <2>1. PICK k, l \in 1..Len(waiting) : waiting[k] = x /\ waiting[l] = t
    BY <1>1, <1>2 DEF Waits
  <2>2. ~Ahead(t, x)
    BY <1>1, <1>3 DEF Granted
  <2>3. SameLock(Wanted(t), Wanted(x))
    BY <1>7 DEF SameLock
  <2>4. ~(l < k)
    BY <2>1, <2>2, <2>3 DEF Ahead
  <2>5. k # l
    BY <1>3, <2>1
  <2>6. k < l
    BY <2>4, <2>5
  <2> QED BY <1>7, <2>1, <2>6 DEF Ahead
<1>8. \A v \in Tasks : Before(v, t)' => Before(v, t)
  BY <1>1, DequeuedInOrder DEF Granted
<1> QED BY <1>1, <1>2, <1>3, <1>5, <1>6, <1>7, <1>8, NobodyPasses

\* A task that comes to its end, or whose client hangs up, takes nothing.
LEMMA DonePassesNobody ==
    ASSUME IInv, NEW x \in Tasks, Done(x),
           (UNCHANGED waiting /\ ~Waits(x)) \/ StopWaiting(x),
           NEW t \in Waiters, NEW u \in Tasks, WaitsFor(t, u)'
    PROVE  WaitsFor(t, u)
<1> USE DEF IInv, TypeOK
<1>1. t \in Tasks /\ Waits(t)
  BY DEF Waiters
<1>2. ~Waits(x)' /\ \A v \in Tasks \ {x} : Waits(v)' <=> Waits(v)
  <2>1. CASE StopWaiting(x)
    BY <2>1, Dequeued DEF QueueInv
  <2>2. CASE UNCHANGED waiting /\ ~Waits(x)
    BY <2>2 DEF Waits
  <2> QED BY <2>1, <2>2
<1>3. t # x
  BY <1>2 DEF WaitsFor
<1>4. OthersStay(x)
  BY <1>2 DEF OthersStay, Done
<1>5. Held(x)' \subseteq Held(x) \cup {}
  BY <1>2, NoGuards DEF Held, Done, Script
<1>6. ~SameLock({}, Wanted(t))
  BY DEF SameLock
<1>7. \A v \in Tasks : Before(v, t)' => Before(v, t)
  BY <1>1, DequeuedInOrder DEF Before
<1> QED BY <1>1, <1>2, <1>3, <1>4, <1>5, <1>6, <1>7, NobodyPasses

LEMMA NextPassesNobody ==
    ASSUME IInv, [Next]_vars, NEW t \in Waiters, NEW u \in Tasks, WaitsFor(t, u)'
    PROVE  WaitsFor(t, u)
<1> USE DEF IInv, TypeOK
<1>1. ASSUME NEW x \in Tasks, Begin(x) PROVE WaitsFor(t, u)
  <2>1. PICK j \in Jobs(x) : job' = [job EXCEPT ![x] = j] /\ Leave(x, j, 0)
    BY <1>1 DEF Begin
  <2>2. j \in DOMAIN Script /\ j # "idle"
    BY DEF Jobs, Script
  <2>3. ~Waits(x) /\ at[x] = 0 /\ job[x] = "idle"
    <3>1. Len(Script["idle"]) = 0
      BY DEF Script
    <3> QED BY <1>1, <3>1 DEF Begin, QueueInv
  <2>4. PICK i \in Nat : i = 0
    OBVIOUS
  <2>5. Held(x) = Guards(j, i)
    BY <2>2, <2>3, <2>4, NoGuards DEF Held
  <2>6. i < Len(Script[j])
    BY <2>2, <2>4, ScriptLengths
  <2>7. Leave(x, j, i)
    BY <2>1, <2>4
  <2> QED BY <2>1, <2>2, <2>3, <2>5, <2>6, <2>7, LeavePassesNobody
<1>2. ASSUME NEW x \in Tasks, Continue(x) PROVE WaitsFor(t, u)
  <2>1. job[x] \in DOMAIN Script /\ at[x] \in Nat
    OBVIOUS
  <2>2. at[x] < Len(Script[job[x]])
    BY <1>2, <2>1, ScriptLengths DEF Continue, AtEnd
  <2>3. Held(x) = Guards(job[x], at[x]) /\ ~Waits(x) /\ Leave(x, job[x], at[x])
    BY <1>2 DEF Continue, Held
  <2>4. job' = [job EXCEPT ![x] = job[x]]
    BY <1>2 DEF Continue
  <2> QED BY <2>1, <2>2, <2>3, <2>4, LeavePassesNobody
<1>3. ASSUME NEW x \in Tasks, Finish(x) PROVE WaitsFor(t, u)
  <2>1. ~Waits(x)
    BY <1>3 DEF Finish, AtEnd, QueueInv
  <2> QED BY <1>3, <2>1, DonePassesNobody DEF Finish
<1>4. ASSUME NEW x \in Tasks, Proceed(x) PROVE WaitsFor(t, u)
  BY <1>2, <1>3, <1>4, GrantedPassesNobody DEF Proceed
<1>5. ASSUME NEW h \in Handlers, HangUp(h) PROVE WaitsFor(t, u)
  BY <1>5, DonePassesNobody, HandlersAreTasks DEF HangUp
<1>6. CASE UNCHANGED vars
  BY <1>6 DEF vars, WaitsFor, Waits, Keeps, Ahead, Wanted, Held
<1>7. CASE Next
  BY <1>1, <1>4, <1>5, <1>7 DEF Next, RunOn, StartReturns, Tasks
<1> QED BY <1>6, <1>7

\* For any number of connections, whoever waits for a lock comes to wait for
\* nobody he did not wait for before.
THEOREM NobodyIsOvertaken == Spec => NoOvertaking
<1>1. IInv /\ [Next]_vars =>
        \A t \in Waiters, u \in Tasks : WaitsFor(t, u)' => WaitsFor(t, u)
  BY NextPassesNobody
<1> QED BY InitInv, InvNext, <1>1, PTL DEF Spec, NoOvertaking

=============================================================================
