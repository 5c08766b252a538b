-------------------------- MODULE LocalDeviceProofs --------------------------
(***************************************************************************)
(* Proofs about LocalDevice, for every set of requesters, invoke ids,      *)
(* points and values, and every size of the priority array.                *)
(***************************************************************************)
EXTENDS LocalDevice, WellFoundedInduction, TLAPS

-----------------------------------------------------------------------------
(* The priority array.  Searching it from the front finds the slot of the   *)
(* highest priority that holds a command.                                   *)

\* If a slot holds a command, one is the first that does.
LEMMA FirstCommand ==
    ASSUME NEW S \in SUBSET Nat, S # {}
    PROVE  \E i \in S : \A j \in S : i <= j
<1>1. \E i \in S : \A j \in S : ~(<<j, i>> \in OpToRel(<, Nat))
  BY NatLessThanWellFounded, WFMin
<1>2. PICK i \in S : \A j \in S : ~(<<j, i>> \in OpToRel(<, Nat))
  BY <1>1
<1>3. \A j \in S : ~(j < i)
  BY <1>2 DEF OpToRel
<1> QED
  BY <1>3

\* What resolve_present_value returns, whatever the array holds.
LEMMA ResolveExplains ==
    ASSUME NEW pa \in [Priorities -> Options]
    PROVE  LET pv == ResolvePresentValue(pa)
           IN  /\ pv \in Values \cup {Default}
               /\ \/ \E i \in Priorities :
                        pv \in pa[i] /\ \A j \in 1..(i - 1) : pa[j] = {}
                  \/ pv = Default /\ \A i \in Priorities : pa[i] = {}
<1> DEFINE first == CHOOSE i \in Commanded(pa) : \A j \in Commanded(pa) : i <= j
<1>1. CASE Commanded(pa) = {}
  BY <1>1 DEF Commanded, ResolvePresentValue
<1>2. CASE Commanded(pa) # {}
  <2>1. Commanded(pa) \in SUBSET Nat
    BY PriorityAssumption DEF Commanded, Priorities
  <2>2. first \in Commanded(pa) /\ \A j \in Commanded(pa) : first <= j
    BY <1>2, <2>1, FirstCommand
  <2> HIDE DEF first
  <2>3. first \in Priorities /\ pa[first] # {} /\ pa[first] \in SUBSET Values
    BY <2>2 DEF Commanded, Options
  <2>4. \A j \in 1..(first - 1) : pa[j] = {}
    <3> SUFFICES ASSUME NEW j \in 1..(first - 1) PROVE pa[j] = {}
      OBVIOUS
    <3>1. j \in Priorities /\ ~(first <= j)
      BY <2>3, PriorityAssumption DEF Priorities
    <3> QED
      BY <3>1, <2>2 DEF Commanded
  <2>5. ResolvePresentValue(pa) = CHOOSE v \in pa[first] : TRUE
    BY <1>2 DEF ResolvePresentValue, first
  <2>6. ResolvePresentValue(pa) \in pa[first]
    BY <2>3, <2>5
  <2> QED
    BY <2>3, <2>4, <2>6
<1> QED
  BY <1>1, <1>2

-----------------------------------------------------------------------------
(* Writes. *)

\* A write leaves a point a point; if it changes the array, the array explains
\* the present value.
LEMMA WritePointProperties ==
    ASSUME NEW pt \in PointType, NEW c \in CallType
    PROVE  /\ WritePoint(pt, c) \in PointType
           /\ WritePoint(pt, c).pa # pt.pa => Explained(WritePoint(pt, c))
<1>1. CASE c.prio \in Priorities
  <2> DEFINE pa == [pt.pa EXCEPT ![c.prio] = c.arg]
  <2>1. pa \in [Priorities -> Options]
    BY DEF PointType, CallType
  <2>2. WritePoint(pt, c) = [pt EXCEPT !.pa = pa, !.pv = ResolvePresentValue(pa)]
    BY <1>1 DEF WritePoint, UpdatePriority
  <2> HIDE DEF pa
  <2>3. /\ WritePoint(pt, c).pa = pa
        /\ WritePoint(pt, c).pv = ResolvePresentValue(pa)
        /\ WritePoint(pt, c).oos = pt.oos
    BY <2>2 DEF PointType
  <2>4. Explained(WritePoint(pt, c)) /\ ResolvePresentValue(pa) \in Values \cup {Default}
    BY <2>1, <2>3, ResolveExplains DEF Explained
  <2>5. WritePoint(pt, c) \in PointType
    BY <2>1, <2>2, <2>4 DEF PointType
  <2> QED
    BY <2>4, <2>5
<1>2. CASE c.prio \notin Priorities
  <2>1. c.arg # {} => (CHOOSE v \in c.arg : TRUE) \in Values
    BY DEF CallType, Options
  <2> QED
    BY <1>2, <2>1 DEF WritePoint, PointType
<1> QED
  BY <1>1, <1>2

\* Taking a point out of service leaves its array and its value alone.
LEMMA SetOutOfServiceProperties ==
    ASSUME NEW pt \in PointType, NEW c
    PROVE  /\ SetOutOfService(pt, c) \in PointType
           /\ SetOutOfService(pt, c).pa = pt.pa
<1> DEFINE b == c.arg # {}
<1>1. b \in BOOLEAN
  OBVIOUS
<1> HIDE DEF b
<1>2. SetOutOfService(pt, c) = IF c.ok THEN [pt EXCEPT !.oos = b] ELSE pt
  BY DEF SetOutOfService, b
<1> QED
  BY <1>1, <1>2 DEF PointType

-----------------------------------------------------------------------------
(***************************************************************************)
(* The inductive invariant: what the cache holds under an invoke id is an  *)
(* answer under that id, every acknowledged read is still there, and (when *)
(* an id is used once) it answers the one request that has the id.         *)
(***************************************************************************)
CacheInv ==
    /\ \A i \in Ids : \A f, g \in cache[i] : f = g
    /\ \A i \in Ids : \A f \in cache[i] : f.id = i
    /\ \A f \in replies : f.kind = "ack" => f \in cache[f.id]

OnceInv ==
    UniqueIds =>
        /\ \A m, n \in requests : m.id = n.id => m = n
        /\ \A i \in Ids : \A f \in cache[i] : \E m \in requests : Answers(f, m)
        /\ AnswerIsForRequest

\* The initial state is well typed.
LEMMA InitTypeOK == Init => TypeOK
<1> SUFFICES ASSUME Init PROVE TypeOK
  OBVIOUS
<1>1. points \in [Points -> PointType]
  BY DEF Init, PointType, Options
<1> QED
  BY <1>1 DEF Init, TypeOK

\* The value of a property is a sequence of options.
LEMMA PropertyValueType ==
    ASSUME NEW pt \in PointType, NEW prop \in Props
    PROVE  PropertyValue(pt, prop) \in Seq(SUBSET Int)
<1>1. CASE prop = "pa"
  <2>1. pt.pa \in [1..NumPriorities -> SUBSET Int]
    BY ValueAssumption DEF PointType, Options, Priorities
  <2> QED
    BY <1>1, <2>1, PriorityAssumption DEF PropertyValue
<1>2. CASE prop = "pv"
  <2>1. pt.pv \in Int
    BY ValueAssumption DEF PointType
  <2> QED
    BY <1>2, <2>1 DEF PropertyValue
<1>3. CASE prop = "oos"
  BY <1>3 DEF PropertyValue
<1>4. CASE prop \notin {"pv", "pa", "oos"}
  BY <1>4 DEF PropertyValue
<1> QED
  BY <1>1, <1>2, <1>3, <1>4 DEF Props

\* A frame made for a request is a frame that answers it.
LEMMA FrameProperties ==
    ASSUME NEW m \in Requests, NEW kind \in {"ack", "simple", "error"},
           NEW value \in Seq(SUBSET Int)
    PROVE  /\ Frame(m, kind, value) \in Frames
           /\ Frame(m, kind, value).id = m.id
           /\ Frame(m, kind, value).kind = kind
           /\ Answers(Frame(m, kind, value), m)
<1>1. m.peer \in Peers /\ m.id \in Ids /\ m.call \in CallType
  BY CallsAssumption DEF Requests
<1> QED
  BY <1>1 DEF Frame, Frames, Answers, CallType

\* The requests that are refused, and the kind of answer a request gets, are a
\* matter of its call alone.
Rejects(c) ==
    \/ /\ c.svc = "Read"
       /\ \/ c.obj = "device" /\ c.prop \notin {"fixed", "pv"}
          \/ c.obj \in Points /\ c.prop = "unknown"
          \/ c.obj = "missing"
    \/ /\ c.svc = "Write"
       /\ \/ c.obj = "device"
          \/ c.obj = "missing" /\ c.prop # "garbled"
          \/ c.obj \in Points /\ c.prop \notin {"pv", "oos", "garbled"}
          \/ c.obj \in Points /\ c.prop = "pv" /\ ~c.ok

KindFor(c) == IF Rejects(c) THEN "error" ELSE IF c.svc = "Read" THEN "ack" ELSE "simple"

\* A frame of the kind its request gets is a frame that answers it.
LEMMA KindForProperties ==
    ASSUME NEW m \in Requests, NEW value \in Seq(SUBSET Int)
    PROVE  LET f == Frame(m, KindFor(m.call), value)
           IN  f \in Frames /\ f.id = m.id /\ f.kind = KindFor(m.call) /\ Answers(f, m)
<1>1. KindFor(m.call) \in {"ack", "simple", "error"}
  BY DEF KindFor
<1> HIDE DEF KindFor
<1> QED
  BY <1>1, FrameProperties

\* The three ways a turn of the loop answers: from the cache, with a read's
\* answer that goes to the cache, and without touching the cache.
Resent(m) ==
    /\ m.call.svc = "Read"
    /\ \E f \in cache[m.id] : Answer(m, f)
    /\ UNCHANGED <<points, cache>>
Fresh(m) ==
    /\ m.call.svc = "Read"
    /\ cache[m.id] = {}
    /\ \E value \in Seq(SUBSET Int) : AnswerAndCache(m, Frame(m, KindFor(m.call), value))
    /\ UNCHANGED points
Plain(m) ==
    /\ KindFor(m.call) # "ack"
    /\ Answer(m, Frame(m, KindFor(m.call), <<>>))
    /\ UNCHANGED cache

\* Each of the handlers answers in one of three ways, or announces the device.
LEMMA HandleShape ==
    ASSUME TypeOK, NEW m \in requests, Handle(m)
    PROVE  \/ Resent(m) \/ Fresh(m) \/ Plain(m) \/ WhoIs(m)
<1>0. m \in Requests /\ m.call \in CallType
  BY CallsAssumption DEF TypeOK, Requests
<1>1. CASE ReadFromCache(m)
  BY <1>1 DEF ReadFromCache, Cached, IsRead, Resent
<1>2. CASE ReadDevice(m)
  <2>1. <<>> \in Seq(SUBSET Int)
    OBVIOUS
  <2>2. AnswerAndCache(m, Frame(m, KindFor(m.call), <<>>))
    BY <1>2, PointAssumption DEF ReadDevice, Uncached, IsRead, KindFor, Rejects
  <2> QED
    BY <1>2, <2>1, <2>2 DEF ReadDevice, Uncached, IsRead, Fresh
<1>3. CASE ReadPoint(m)
  <2>1. PropertyValue(points[m.call.obj], m.call.prop) \in Seq(SUBSET Int)
    BY <1>0, <1>3, PropertyValueType DEF ReadPoint, CallType, TypeOK
  <2>2. KindFor(m.call) = "ack"
    BY <1>3, PointAssumption DEF ReadPoint, Uncached, IsRead, KindFor, Rejects
  <2> QED
    BY <1>3, <2>1, <2>2 DEF ReadPoint, Uncached, IsRead, Fresh
<1>4. CASE ReadRejected(m)
  BY <1>4 DEF ReadRejected, Uncached, IsRead, Plain, KindFor, Rejects
<1>5. CASE WritePresentValue(m)
  BY <1>5, PointAssumption DEF WritePresentValue, IsWrite, Plain, KindFor, Rejects
<1>6. CASE WriteOutOfService(m)
  BY <1>6, PointAssumption DEF WriteOutOfService, IsWrite, Plain, KindFor, Rejects
<1>7. CASE WriteRejected(m)
  BY <1>7 DEF WriteRejected, IsWrite, Plain, KindFor, Rejects
<1>8. CASE SubscribeCOV(m)
  BY <1>8 DEF SubscribeCOV, Plain, KindFor, Rejects
<1> QED
  BY <1>1, <1>2, <1>3, <1>4, <1>5, <1>6, <1>7, <1>8 DEF Handle

\* What a turn of the loop does to the points.
LEMMA HandlePoints ==
    ASSUME TypeOK, NEW m \in requests, Handle(m)
    PROVE  /\ points' \in [Points -> PointType]
           /\ \A o \in Points : points'[o].pa # points[o].pa => Explained(points'[o])
<1>0. m.call \in CallType
  BY CallsAssumption DEF TypeOK, Requests
<1>1. CASE WritePresentValue(m)
  BY <1>0, <1>1, WritePointProperties DEF WritePresentValue, TypeOK
<1>2. CASE WriteOutOfService(m)
  <2>1. points[m.call.obj] \in PointType
    BY <1>2 DEF WriteOutOfService, TypeOK
  <2>2. points' = [points EXCEPT ![m.call.obj] = SetOutOfService(points[m.call.obj], m.call)]
    BY <1>2 DEF WriteOutOfService
  <2> QED
    BY <2>1, <2>2, SetOutOfServiceProperties DEF TypeOK
<1>3. CASE UNCHANGED points
  BY <1>3 DEF TypeOK
<1> QED
  BY <1>1, <1>2, <1>3
     DEF Handle, ReadFromCache, ReadDevice, ReadPoint, ReadRejected, WriteRejected,
         SubscribeCOV, WhoIs

-----------------------------------------------------------------------------

\* Every step keeps the types.
LEMMA StepTypeOK == TypeOK /\ [Next]_vars => TypeOK'
<1> SUFFICES ASSUME TypeOK, [Next]_vars PROVE TypeOK'
  OBVIOUS
<1>1. CASE UNCHANGED vars
  BY <1>1 DEF vars, TypeOK
<1>2. ASSUME NEW p \in Peers, NEW c \in Calls, NEW i \in Ids, Issue(p, c, i)
      PROVE  TypeOK'
  BY <1>2 DEF Issue, TypeOK, Requests
<1>3. ASSUME NEW m \in requests, Handle(m) PROVE TypeOK'
  <2>0. m \in Requests /\ m.id \in Ids /\ <<>> \in Seq(SUBSET Int)
    BY DEF TypeOK, Requests
  <2>1. points' \in [Points -> PointType]
    BY <1>3, HandlePoints
  <2>2. CASE Resent(m)
    BY <2>0, <2>1, <2>2 DEF Resent, Answer, TypeOK
  <2>3. CASE Fresh(m)
    BY <2>0, <2>1, <2>3, KindForProperties DEF Fresh, AnswerAndCache, Answer, TypeOK
  <2>4. CASE Plain(m)
    <3>1. PICK f \in Frames : Answer(m, f)
      BY <2>0, <2>4, KindForProperties DEF Plain
    <3> QED
      BY <2>0, <2>1, <2>4, <3>1 DEF Plain, Answer, TypeOK
  <2>5. CASE WhoIs(m)
    BY <2>5 DEF WhoIs, TypeOK
  <2> QED
    BY <1>3, <2>2, <2>3, <2>4, <2>5, HandleShape
<1> QED
  BY <1>1, <1>2, <1>3 DEF Next

\* Every step keeps the cache in agreement with what was sent.
LEMMA StepCacheInv == TypeOK /\ CacheInv /\ [Next]_vars => CacheInv'
<1> SUFFICES ASSUME TypeOK, CacheInv, [Next]_vars PROVE CacheInv'
  OBVIOUS
<1>1. CASE UNCHANGED <<cache, replies>>
  BY <1>1 DEF CacheInv
<1>2. ASSUME NEW m \in requests, Handle(m) PROVE CacheInv'
  <2>0. m \in Requests /\ m.id \in Ids /\ <<>> \in Seq(SUBSET Int)
    BY DEF TypeOK, Requests
  <2>2. CASE Resent(m)
    BY <2>0, <2>2 DEF Resent, Answer, CacheInv
  <2>3. CASE Fresh(m)
    <3>1. PICK f : /\ AnswerAndCache(m, f)
                   /\ f.id = m.id
      BY <2>0, <2>3, KindForProperties DEF Fresh
    <3>2. cache' = [cache EXCEPT ![m.id] = {f}] /\ replies' = replies \cup {f}
      BY <3>1 DEF AnswerAndCache, Answer
    <3>3. ASSUME NEW g \in replies, g.kind = "ack" PROVE g \in cache'[g.id]
      <4>1. g \in cache[g.id] /\ g.id # m.id /\ g.id \in Ids
        BY <2>3, <3>3 DEF CacheInv, Fresh, TypeOK, Frames
      <4> QED
        BY <3>2, <4>1 DEF TypeOK
    <3>4. cache'[m.id] = {f}
      BY <2>0, <3>2 DEF TypeOK
    <3>5. \A g \in replies' : g.kind = "ack" => g \in cache'[g.id]
      BY <3>1, <3>2, <3>3, <3>4
    <3>6. \A i \in Ids : cache'[i] = IF i = m.id THEN {f} ELSE cache[i]
      BY <3>2 DEF TypeOK
    <3> QED
      BY <3>1, <3>5, <3>6 DEF CacheInv
  <2>4. CASE Plain(m)
    <3>1. PICK f : Answer(m, f) /\ f.kind # "ack"
      BY <2>0, <2>4, KindForProperties DEF Plain
    <3> QED
      BY <2>4, <3>1 DEF Plain, Answer, CacheInv
  <2>5. CASE WhoIs(m)
    BY <2>5 DEF WhoIs, CacheInv
  <2> QED
    BY <1>2, <2>2, <2>3, <2>4, <2>5, HandleShape
<1> QED
  BY <1>1, <1>2 DEF Next, Issue, vars

\* The last answer is for its request.
LEMMA AnsweredFrame ==
    ASSUME NEW m, NEW f, Answer(m, f), Answers(f, m)
    PROVE  AnswerIsForRequest'
<1>1. answered' = {[request |-> m, reply |-> f]}
  BY DEF Answer
<1>2. ASSUME NEW a \in answered' PROVE Answers(a.reply, a.request)
  BY <1>1
<1> QED
  BY <1>2 DEF AnswerIsForRequest, Answers

\* While no invoke id is used twice, every cached and sent answer is that of
\* the one request with its id.
LEMMA StepOnceInv == TypeOK /\ CacheInv /\ OnceInv /\ [Next]_vars => OnceInv'
<1> SUFFICES ASSUME TypeOK, CacheInv, OnceInv, [Next]_vars, UniqueIds PROVE OnceInv'
  BY DEF OnceInv
<1> USE DEF OnceInv, AnswerIsForRequest
<1>1. CASE UNCHANGED vars
  BY <1>1 DEF vars
<1>2. ASSUME NEW p \in Peers, NEW c \in Calls, NEW i \in Ids, Issue(p, c, i)
      PROVE  OnceInv'
  BY <1>2 DEF Issue
<1>3. ASSUME NEW m \in requests, Handle(m) PROVE OnceInv'
  <2>0. m \in Requests /\ m.id \in Ids /\ <<>> \in Seq(SUBSET Int)
    BY DEF TypeOK, Requests
  <2>2. CASE Resent(m)
    <3>1. PICK f \in cache[m.id] : Answer(m, f)
      BY <2>2 DEF Resent
    <3>2. PICK n \in requests : Answers(f, n)
      BY <2>0
    <3>3. n.id = m.id
      BY <2>0, <3>2 DEF CacheInv, Answers
    <3>4. Answers(f, m)
      BY <3>2, <3>3
    <3> QED
      BY <2>2, <3>1, <3>4, AnsweredFrame DEF Resent, Answer
  <2>3. CASE Fresh(m)
    <3>1. PICK f : AnswerAndCache(m, f) /\ Answers(f, m)
      BY <2>0, <2>3, KindForProperties DEF Fresh
    <3>2. \A i \in Ids : cache'[i] = IF i = m.id THEN {f} ELSE cache[i]
      BY <3>1 DEF AnswerAndCache, TypeOK
    <3>3. requests' = requests /\ answered' = {[request |-> m, reply |-> f]}
      BY <3>1 DEF AnswerAndCache, Answer
    <3> QED
      BY <3>1, <3>2, <3>3
  <2>4. CASE Plain(m)
    <3>1. PICK f : Answer(m, f) /\ Answers(f, m)
      BY <2>0, <2>4, KindForProperties DEF Plain
    <3> QED
      BY <2>4, <3>1, AnsweredFrame DEF Plain, Answer
  <2>5. CASE WhoIs(m)
    BY <2>5 DEF WhoIs
  <2> QED
    BY <1>3, <2>2, <2>3, <2>4, <2>5, HandleShape
<1> QED
  BY <1>1, <1>2, <1>3 DEF Next

-----------------------------------------------------------------------------
(***************************************************************************)
(* Refinement.  To map an answer to the request it is for, one has to know *)
(* that what was sent, and what is cached, is for a request that was made. *)
(* What kind of answer it is follows from the request.                     *)
(***************************************************************************)
MadeFor(f, m) == Answers(f, m) /\ f.kind = KindFor(m.call)

SentInv ==
    /\ \A i \in Ids : cache[i] \subseteq replies
    /\ UniqueIds => \A f \in replies : \E m \in requests : MadeFor(f, m)

\* Every step keeps the cache within what was sent, and that for requests made.
LEMMA StepSentInv == TypeOK /\ SentInv /\ [Next]_vars => SentInv'
<1> SUFFICES ASSUME TypeOK, SentInv, [Next]_vars PROVE SentInv'
  OBVIOUS
<1>1. CASE UNCHANGED <<cache, replies>> /\ requests \subseteq requests'
  BY <1>1 DEF SentInv
<1>2. ASSUME NEW m \in requests, NEW f, Answer(m, f), MadeFor(f, m) \/ f \in replies,
             cache' = cache \/ cache' = [cache EXCEPT ![m.id] = {f}]
      PROVE  SentInv'
  <2>1. replies' = replies \cup {f} /\ requests' = requests
    BY <1>2 DEF Answer
  <2>2. \A i \in Ids : cache'[i] \subseteq cache[i] \cup {f}
    BY <1>2 DEF TypeOK
  <2> QED
    BY <1>2, <2>1, <2>2 DEF SentInv
<1>3. ASSUME NEW m \in requests, Handle(m) PROVE SentInv'
  <2>0. m \in Requests /\ m.id \in Ids /\ <<>> \in Seq(SUBSET Int)
    BY DEF TypeOK, Requests
  <2>1. CASE Resent(m)
    BY <1>2, <2>0, <2>1 DEF Resent, SentInv
  <2>2. CASE Fresh(m)
    <3>1. PICK f : AnswerAndCache(m, f) /\ MadeFor(f, m)
      BY <2>0, <2>2, KindForProperties DEF Fresh, MadeFor
    <3> QED
      BY <1>2, <3>1 DEF AnswerAndCache
  <2>3. CASE Plain(m)
    <3>1. PICK f : Answer(m, f) /\ MadeFor(f, m)
      BY <2>0, <2>3, KindForProperties DEF Plain, MadeFor
    <3> QED
      BY <1>2, <2>3, <3>1 DEF Plain
  <2>4. CASE WhoIs(m)
    BY <1>1, <2>4 DEF WhoIs
  <2> QED
    BY <1>3, <2>1, <2>2, <2>3, <2>4, HandleShape
<1> QED
  BY <1>1, <1>3 DEF Next, Issue, vars

\* What is given to a request: the answers sent under its id, and no other
\* request's answers grow with it.
LEMMA GivenGrows ==
    ASSUME UniqueIds, OnceInv, NEW m \in requests, NEW f, Answer(m, f), Answers(f, m)
    PROVE  /\ Given' = Given \cup {Told(m, f)}
           /\ Last' = {Told(m, f)}
           /\ requests' = requests
<1>1. /\ replies' = replies \cup {f} /\ requests' = requests
      /\ answered' = {[request |-> m, reply |-> f]}
  BY DEF Answer
<1>2. \A n \in requests : Answers(f, n) => n = m
  BY DEF OnceInv, Answers
<1> DEFINE Pairs == {b \in [request : requests, reply : replies] : Answers(b.reply, b.request)}
           pair == [request |-> m, reply |-> f]
<1>3. Pairs' = Pairs \cup {pair}
  <2>1. Pairs' = {b \in [request : requests', reply : replies'] : Answers(b.reply, b.request)}
    BY DEF Answers
  <2> QED
    BY <1>1, <1>2, <2>1
<1>4. Given = {Told(a.request, a.reply) : a \in Pairs} /\ Given' = {Told(a.request, a.reply) : a \in Pairs'}
  BY DEF Given, Told
<1> HIDE DEF Pairs
<1>5. Given' = Given \cup {Told(pair.request, pair.reply)}
  BY <1>3, <1>4
<1>6. Last' = {Told(pair.request, pair.reply)}
  BY <1>1 DEF Last, Told
<1> QED
  BY <1>1, <1>5, <1>6

\* All answers to a request are of the kind it has to get.
LEMMA GivenKind ==
    ASSUME UniqueIds, OnceInv, SentInv, NEW m \in requests, NEW r \in CD!AnswersTo(m)
    PROVE  /\ r.kind = KindFor(m.call)
           /\ \E f \in replies : f.kind = r.kind /\ f.id = m.id
<1>1. r \in Given /\ r.request = m
  BY DEF CD!AnswersTo
<1>2. PICK n \in requests, f \in replies : Answers(f, n) /\ r = Told(n, f)
  BY <1>1 DEF Given
<1>3. n = m /\ f.kind = r.kind /\ f.id = m.id
  BY <1>1, <1>2 DEF Told, Answers
<1>4. PICK n2 \in requests : MadeFor(f, n2)
  BY DEF SentInv
<1>5. n2 = m
  BY <1>3, <1>4 DEF MadeFor, Answers, OnceInv
<1> QED
  BY <1>3, <1>4, <1>5 DEF MadeFor

\* A read that is not in the cache was not acknowledged.
LEMMA UncachedIsUnanswered ==
    ASSUME CacheInv, UniqueIds, OnceInv, SentInv, NEW m \in requests,
           cache[m.id] = {}, KindFor(m.call) = "ack"
    PROVE  CD!AnswersTo(m) = {}
<1>1. ASSUME NEW r \in CD!AnswersTo(m) PROVE FALSE
  <2>1. PICK f \in replies : f.kind = "ack" /\ f.id = m.id
    BY GivenKind
  <2> QED
    BY <2>1 DEF CacheInv
<1> QED
  BY <1>1

\* A handler that gives an answer of its own takes a step of the abstract device.
LEMMA GivesInAbstract ==
    ASSUME TypeOK, UniqueIds, OnceInv, NEW m \in requests,
           NEW kind \in {"ack", "simple", "error"}, NEW value \in Seq(SUBSET Int),
           Answer(m, Frame(m, kind, value))
    PROVE  CD!Give(m, kind, value)
<1>1. m \in Requests
  BY DEF TypeOK
<1>2. Answers(Frame(m, kind, value), m)
  BY <1>1, FrameProperties
<1>3. Told(m, Frame(m, kind, value)) = [request |-> m, kind |-> kind, value |-> value]
  BY DEF Told, Frame
<1> QED
  BY <1>2, <1>3, GivenGrows DEF CD!Give

\* Every step is one of the abstract device, or leaves it alone.
LEMMA CachelessStep ==
    ASSUME UniqueIds, TypeOK, CacheInv, OnceInv, SentInv, [Next]_vars
    PROVE  [CD!Next]_(CD!vars)
<1>1. CASE UNCHANGED vars
  BY <1>1 DEF vars, CD!vars, Given, Last
<1>2. ASSUME NEW p \in Peers, NEW c \in Calls, NEW i \in Ids, Issue(p, c, i)
      PROVE  CD!Next
  <2> DEFINE new == [peer |-> p, id |-> i, call |-> c]
  <2>1. requests' = requests \cup {new} /\ UNCHANGED <<points, replies, answered>>
    BY <1>2 DEF Issue
  <2>2. \A r \in requests : r.id # i
    BY <1>2 DEF Issue
  <2>3. \A f \in replies : ~Answers(f, new)
    BY <2>2 DEF SentInv, MadeFor, Answers
  <2>4. Given' = Given
    <3>1. Given' = {Told(a.request, a.reply) :
                      a \in {b \in [request : requests', reply : replies'] : Answers(b.reply, b.request)}}
      BY DEF Given, Told, Answers
    <3>2. {b \in [request : requests', reply : replies'] : Answers(b.reply, b.request)}
            = {b \in [request : requests, reply : replies] : Answers(b.reply, b.request)}
      BY <2>1, <2>3
    <3> QED
      BY <3>1, <3>2 DEF Given
  <2>5. Last' = Last
    BY <2>1 DEF Last, Told
  <2>6. CD!Ask
    BY <2>1, <2>4, <2>5 DEF CD!Ask
  <2> QED
    BY <2>6 DEF CD!Next
<1>3. ASSUME NEW m \in requests, Handle(m) PROVE [CD!Next]_(CD!vars)
  <2>0. /\ m \in Requests /\ m.id \in Ids /\ <<>> \in Seq(SUBSET Int)
        /\ m.call \in CallType
    BY CallsAssumption DEF TypeOK, Requests
  <2>1. CASE ReadFromCache(m)
    <3>1. PICK f \in cache[m.id] : Answer(m, f)
      BY <2>1 DEF ReadFromCache, Cached
    <3>2. f \in replies
      BY <2>0, <3>1 DEF SentInv
    <3>3. Answers(f, m)
      BY <2>0, <3>1 DEF OnceInv, CacheInv, Answers
    <3>4. Given' = Given \cup {Told(m, f)} /\ Last' = {Told(m, f)} /\ requests' = requests
      BY <3>1, <3>3, GivenGrows
    <3>5. Told(m, f) \in Given
      <4> DEFINE pair == [request |-> m, reply |-> f]
      <4>1. pair \in {b \in [request : requests, reply : replies] : Answers(b.reply, b.request)}
        BY <3>2, <3>3
      <4>2. Told(pair.request, pair.reply) \in Given
        BY <4>1 DEF Given
      <4> QED
        BY <4>2
    <3>6. Told(m, f).request = m
      BY DEF Told
    <3>7. CD!Repeat(m)
      BY <2>1, <3>4, <3>5, <3>6 DEF CD!Repeat, ReadFromCache
    <3> QED
      BY <3>7 DEF CD!Next
  <2>2. CASE ReadDevice(m)
    <3>1. cache[m.id] = {} /\ m.call.svc = "Read" /\ m.call.obj = "device"
      BY <2>2 DEF ReadDevice, Uncached, IsRead
    <3>2. CASE m.call.prop \in {"fixed", "pv"}
      <4>0. Answer(m, Frame(m, "ack", <<>>)) /\ UNCHANGED points
        BY <2>2, <3>2 DEF ReadDevice, AnswerAndCache
      <4>1. CD!Give(m, "ack", <<>>)
        BY <2>0, <4>0, GivesInAbstract
      <4>2. Reading(points, m.call) = <<>>
        BY <2>2, PointAssumption DEF ReadDevice, Reading
      <4>3. CD!AnswersTo(m) = {}
        BY <3>1, <3>2, PointAssumption, UncachedIsUnanswered DEF KindFor, Rejects
      <4>4. CD!ReadNow(m)
        BY <3>1, <4>0, <4>1, <4>2, <4>3 DEF CD!ReadNow
      <4> QED
        BY <4>4 DEF CD!Next
    <3>3. CASE m.call.prop \notin {"fixed", "pv"}
      <4>0. Answer(m, Frame(m, "error", <<>>)) /\ UNCHANGED points
        BY <2>2, <3>3 DEF ReadDevice, AnswerAndCache
      <4>1. CD!Give(m, "error", <<>>)
        BY <2>0, <4>0, GivesInAbstract
      <4>2. CD!Refuse(m)
        BY <3>1, <3>3, <4>0, <4>1, GivenKind DEF CD!Refuse, KindFor, Rejects
      <4> QED
        BY <4>2 DEF CD!Next
    <3> QED
      BY <3>2, <3>3
  <2>3. CASE ReadPoint(m)
    <3> DEFINE value == PropertyValue(points[m.call.obj], m.call.prop)
    <3>1. CD!AnswersTo(m) = {}
      <4>1. KindFor(m.call) = "ack" /\ cache[m.id] = {}
        BY <2>3, PointAssumption DEF ReadPoint, Uncached, IsRead, KindFor, Rejects
      <4> QED
        BY <4>1, UncachedIsUnanswered
    <3>2. value \in Seq(SUBSET Int)
      BY <2>0, <2>3, PropertyValueType DEF ReadPoint, CallType, TypeOK
    <3>3. CD!Give(m, "ack", value)
      BY <2>3, <3>2, GivesInAbstract DEF ReadPoint, AnswerAndCache
    <3>4. Reading(points, m.call) = value
      BY <2>3 DEF ReadPoint, Reading
    <3>5. CD!ReadNow(m)
      BY <2>3, <3>1, <3>3, <3>4 DEF CD!ReadNow, ReadPoint, Uncached, IsRead
    <3> QED
      BY <3>5 DEF CD!Next
  <2>4. CASE ReadRejected(m)
    <3>1. \A r \in CD!AnswersTo(m) : r.kind = "error"
      <4>1. KindFor(m.call) = "error"
        BY <2>4 DEF ReadRejected, Uncached, IsRead, KindFor, Rejects
      <4> QED
        BY <4>1, GivenKind
    <3>2. CD!Give(m, "error", <<>>)
      BY <2>0, <2>4, GivesInAbstract DEF ReadRejected
    <3>3. CD!Refuse(m)
      BY <2>4, <3>1, <3>2 DEF CD!Refuse, ReadRejected
    <3> QED
      BY <3>3 DEF CD!Next
  <2>5. CASE WritePresentValue(m) \/ WriteOutOfService(m)
    <3>1. CD!Give(m, "simple", <<>>)
      BY <2>0, <2>5, GivesInAbstract DEF WritePresentValue, WriteOutOfService
    <3>2. points' = Writing(points, m.call)
      BY <2>5 DEF WritePresentValue, WriteOutOfService, Writing
    <3>3. ~CD!Refused(m)
      <4>1. KindFor(m.call) = "simple"
        BY <2>5, PointAssumption
           DEF WritePresentValue, WriteOutOfService, IsWrite, KindFor, Rejects
      <4> QED
        BY <4>1, GivenKind DEF CD!Refused
    <3>4. CD!WriteNow(m)
      BY <2>5, <3>1, <3>2, <3>3 DEF CD!WriteNow, WritePresentValue, WriteOutOfService, IsWrite
    <3> QED
      BY <3>4 DEF CD!Next
  <2>6. CASE WriteRejected(m)
    <3>1. CD!Give(m, "error", <<>>)
      BY <2>0, <2>6, GivesInAbstract DEF WriteRejected
    <3>2. \A r \in CD!AnswersTo(m) : r.kind = "error"
      <4>1. KindFor(m.call) = "error"
        BY <2>6 DEF WriteRejected, IsWrite, KindFor, Rejects
      <4> QED
        BY <4>1, GivenKind
    <3>3. CD!Refuse(m)
      BY <2>6, <3>1, <3>2 DEF CD!Refuse, WriteRejected
    <3> QED
      BY <3>3 DEF CD!Next
  <2>7. CASE SubscribeCOV(m)
    <3>1. CD!Give(m, "simple", <<>>)
      BY <2>0, <2>7, GivesInAbstract DEF SubscribeCOV
    <3>2. ~CD!Refused(m)
      <4>1. KindFor(m.call) = "simple"
        BY <2>7 DEF SubscribeCOV, KindFor, Rejects
      <4> QED
        BY <4>1, GivenKind DEF CD!Refused
    <3>3. CD!Subscribe(m)
      BY <2>7, <3>1, <3>2 DEF CD!Subscribe, SubscribeCOV
    <3> QED
      BY <3>3 DEF CD!Next
  <2>8. CASE WhoIs(m)
    BY <2>8 DEF WhoIs, CD!vars, Given, Last
  <2> QED
    BY <1>3, <2>1, <2>2, <2>3, <2>4, <2>5, <2>6, <2>7, <2>8 DEF Handle
<1> QED
  BY <1>1, <1>2, <1>3 DEF Next

-----------------------------------------------------------------------------

\* The invariant holds throughout.
THEOREM Inductive == Spec => [](TypeOK /\ CacheInv /\ OnceInv /\ SentInv)
<1>1. Init => TypeOK /\ CacheInv /\ OnceInv /\ SentInv
  BY InitTypeOK DEF Init, CacheInv, OnceInv, SentInv, AnswerIsForRequest
<1>2. TypeOK /\ CacheInv /\ OnceInv /\ SentInv /\ [Next]_vars
        => (TypeOK /\ CacheInv /\ OnceInv /\ SentInv)'
  BY StepTypeOK, StepCacheInv, StepOnceInv, StepSentInv
<1> QED
  BY <1>1, <1>2, PTL DEF Spec

\* The device's task keeps its state well-formed, whatever requesters send.
THEOREM TypeCorrect == Spec => []TypeOK
  BY Inductive, PTL

\* A retried read gets the first answer again, for any traffic between.
THEOREM RetryIsStable == Spec => []RetrySeesFirstAnswer
<1>1. TypeOK /\ CacheInv => RetrySeesFirstAnswer
  BY DEF CacheInv, RetrySeesFirstAnswer, TypeOK, Frames
<1> QED
  BY <1>1, Inductive, PTL

\* If no invoke id is ever used twice, the cache answers retries only.  (When
\* ids come round, or two requesters share one, it does not: see the run.)
THEOREM CacheServesRetries == ASSUME UniqueIds PROVE Spec => []AnswerIsForRequest
<1>1. OnceInv => AnswerIsForRequest
  BY DEF OnceInv
<1> QED
  BY <1>1, Inductive, PTL

\* No order of writes and relinquishments leaves a point that was just
\* commanded with a value its priority array does not explain.
THEOREM CommandsWin == Spec => HighestCommandWins
<1>1. TypeOK /\ [Next]_vars
        => [\A o \in Points : points'[o].pa # points[o].pa => Explained(points'[o])]_vars
  BY HandlePoints DEF Next, Issue, vars
<1> QED
  BY <1>1, TypeCorrect, PTL DEF Spec, HighestCommandWins

\* While no invoke id is used twice, nobody can tell the device from one that
\* keeps no cache and answers each request for itself.
THEOREM CacheIsTransparent == ASSUME UniqueIds PROVE Spec => ImplementsCachelessDevice
<1>1. Init => CD!Init
  BY DEF Init, CD!Init, Given, Last
<1>2. TypeOK /\ CacheInv /\ OnceInv /\ SentInv /\ [Next]_vars => [CD!Next]_(CD!vars)
  BY CachelessStep
<1> QED
  BY <1>1, <1>2, Inductive, PTL DEF Spec, ImplementsCachelessDevice, CD!Spec

=============================================================================
