------------------------------ MODULE LocalDevice ------------------------------
(***************************************************************************)
(* The bridge's own BACnet device (local_device.rs): one task that takes   *)
(* APDUs from the router one at a time and answers each before the next.   *)
(* It keeps a cache of ReadProperty answers for retries and three          *)
(* commandable points with a priority array each.                          *)
(*                                                                         *)
(* Requests travel over UDP or a hub and requesters retry, so a request    *)
(* once made may reach the device any number of times, in any order.       *)
(*                                                                         *)
(* Data.  An optional value is a set with at most one element, and the     *)
(* value of a property a sequence of options (one, sixteen or none), so    *)
(* that any two values compare.                                            *)
(***************************************************************************)
EXTENDS Integers, Sequences, FiniteSets

CONSTANTS
    Peers,          \* requesters
    Ids,            \* invoke ids (0..255)
    UniqueIds,      \* is an invoke id used for one request ever?
    Points,         \* AO:1, AV:1 and LO:1
    Values,         \* values a point is commanded to
    Default,        \* relinquish_default (0.0), also the first present_value
    NumPriorities,  \* 16
    Calls           \* the calls peers make

ASSUME PriorityAssumption == NumPriorities \in Nat \ {0}
ASSUME ValueAssumption == Values \subseteq Int /\ Default \in Int
ASSUME PointAssumption == "device" \notin Points /\ "missing" \notin Points

Priorities == 1..NumPriorities
Objects == Points \cup {"device", "missing"}
Props == {"pv", "pa", "oos", "fixed", "unknown", "garbled"}
Services == {"Read", "Write", "SubscribeCOV", "WhoIs"}

Options == {{}} \cup {{v} : v \in Values}

\* prop "garbled": the property identifier does not parse; ok: the value
\* written does.  prio is 0 when the request has none.
CallType == [svc : Services, obj : Objects, prop : Props, arg : Options,
             prio : Nat, ok : BOOLEAN]

ASSUME CallsAssumption == Calls \subseteq CallType

Requests == [peer : Peers, id : Ids, call : Calls]
Frames == [to : Peers, id : Ids, kind : {"ack", "simple", "error"}, obj : Objects,
           prop : Props, value : Seq(SUBSET Int)]

VARIABLES
    points,     \* the objects map
    cache,      \* [Ids -> the cached answer]
    requests,   \* every request made so far
    replies,    \* every answer sent so far
    iAm,        \* was the device announced?
    answered    \* the last request answered, with its answer

vars == <<points, cache, requests, replies, iAm, answered>>

PointType == [pv : Values \cup {Default}, pa : [Priorities -> Options], oos : BOOLEAN]

TypeOK ==
    /\ points \in [Points -> PointType]
    /\ cache \in [Ids -> SUBSET Frames]
    /\ requests \subseteq Requests
    /\ replies \subseteq Frames
    /\ iAm \in BOOLEAN
    /\ answered \subseteq [request : Requests, reply : Frames]

Init ==
    /\ points = [o \in Points |->
                    [pv |-> Default, pa |-> [i \in Priorities |-> {}], oos |-> FALSE]]
    /\ cache = [i \in Ids |-> {}]
    /\ requests = {}
    /\ replies = {}
    /\ iAm = FALSE
    /\ answered = {}

-----------------------------------------------------------------------------
(* Requesters.  A requester keeps its outstanding invoke ids distinct.  It  *)
(* has 256 and comes back to each in the end; two requesters need not agree.*)

Answers(f, m) ==
    /\ f.to = m.peer /\ f.id = m.id
    /\ f.obj = m.call.obj /\ f.prop = m.call.prop

Outstanding(m) == m.call.svc # "WhoIs" /\ ~\E f \in replies : Answers(f, m)

Issue(p, c, i) ==
    /\ \A r \in requests :
            r.id = i => ~UniqueIds /\ ~(r.peer = p /\ Outstanding(r))
    /\ requests' = requests \cup {[peer |-> p, id |-> i, call |-> c]}
    /\ UNCHANGED <<points, cache, replies, iAm, answered>>

-----------------------------------------------------------------------------
(* Answers. *)

Frame(m, kind, value) ==
    [to |-> m.peer, id |-> m.id, kind |-> kind, obj |-> m.call.obj,
     prop |-> m.call.prop, value |-> value]

Answer(m, f) ==
    /\ replies' = replies \cup {f}
    /\ answered' = {[request |-> m, reply |-> f]}
    /\ UNCHANGED <<requests, iAm>>

\* Seeded fault: the answer is sent and not cached.
AnswerAndForget(m, f) ==
    /\ Answer(m, f)
    /\ UNCHANGED cache

AnswerAndCache(m, f) ==
    /\ Answer(m, f)
    /\ cache' = [cache EXCEPT ![m.id] = {f}]

-----------------------------------------------------------------------------
(* ReadProperty. *)

\* Seeded fault: any cached answer will do.
CachedAny(i) == UNION {cache[j] : j \in Ids}

Cached(i) == cache[i]

IsRead(m) == m.call.svc = "Read"

\* Not in the cache, and with a property to read.
Uncached(m) == IsRead(m) /\ cache[m.id] = {} /\ m.call.prop # "garbled"

ReadFromCache(m) ==
    /\ IsRead(m)
    /\ \E f \in Cached(m.id) : Answer(m, f)
    /\ UNCHANGED <<points, cache>>

\* The device's own properties never change while the task lives.  A read
\* whose object identifier does not parse is answered for the device.
ReadDevice(m) ==
    /\ Uncached(m)
    /\ m.call.obj = "device"
    /\ AnswerAndCache(m, IF m.call.prop \in {"fixed", "pv"}
                         THEN Frame(m, "ack", <<>>) ELSE Frame(m, "error", <<>>))
    /\ UNCHANGED points

PropertyValue(pt, prop) ==
    CASE prop = "pv"    -> << {pt.pv} >>
      [] prop = "pa"    -> pt.pa
      [] prop = "oos"   -> << {IF pt.oos THEN 1 ELSE 0} >>
      [] OTHER         -> <<>>

ReadPoint(m) ==
    /\ Uncached(m)
    /\ m.call.obj \in Points
    /\ m.call.prop # "unknown"
    /\ AnswerAndCache(m, Frame(m, "ack", PropertyValue(points[m.call.obj], m.call.prop)))
    /\ UNCHANGED points

\* send_error: these two errors are not cached.
ReadRejected(m) ==
    /\ Uncached(m)
    /\ \/ m.call.obj \in Points /\ m.call.prop = "unknown"
       \/ m.call.obj = "missing"
    /\ Answer(m, Frame(m, "error", <<>>))
    /\ UNCHANGED <<points, cache>>

-----------------------------------------------------------------------------
(* WriteProperty. *)

Commanded(pa) == {i \in Priorities : pa[i] # {}}

\* Seeded fault: the array is searched from the low priorities.
ResolveLowest(pa) ==
    IF Commanded(pa) = {} THEN Default
    ELSE CHOOSE v \in pa[CHOOSE i \in Commanded(pa) :
                            \A j \in Commanded(pa) : j <= i] : TRUE

\* The first value in the array, or the default.
ResolvePresentValue(pa) ==
    IF Commanded(pa) = {} THEN Default
    ELSE CHOOSE v \in pa[CHOOSE i \in Commanded(pa) :
                            \A j \in Commanded(pa) : i <= j] : TRUE

UpdatePriority(pt, i, arg) ==
    LET pa == [pt.pa EXCEPT ![i] = arg]
    IN  [pt EXCEPT !.pa = pa, !.pv = ResolvePresentValue(pa)]

\* A write without a priority in 1..16 sets present_value behind the array's
\* back; a null without one does nothing.
WritePoint(pt, c) ==
    IF c.prio \in Priorities THEN UpdatePriority(pt, c.prio, c.arg)
    ELSE IF c.arg # {} THEN [pt EXCEPT !.pv = CHOOSE v \in c.arg : TRUE]
    ELSE pt

IsWrite(m) == m.call.svc = "Write"

\* Seeded fault: writing to an object that is not there creates it.
WriteCreates(m) ==
    /\ IsWrite(m) /\ m.call.ok
    /\ m.call.prop = "pv"
    /\ LET there == IF m.call.obj \in DOMAIN points THEN points[m.call.obj]
                    ELSE [pv |-> Default, pa |-> [i \in Priorities |-> {}], oos |-> FALSE]
       IN  points' = [o \in DOMAIN points \cup {m.call.obj} |->
                         IF o = m.call.obj THEN WritePoint(there, m.call) ELSE points[o]]
    /\ Answer(m, Frame(m, "simple", <<>>))
    /\ UNCHANGED cache

\* Seeded fault: a write drops the cached answers, which it made out of date.
WriteClearsCache(m) ==
    /\ IsWrite(m) /\ m.call.ok
    /\ m.call.obj \in Points
    /\ m.call.prop = "pv"
    /\ points' = [points EXCEPT ![m.call.obj] = WritePoint(@, m.call)]
    /\ Answer(m, Frame(m, "simple", <<>>))
    /\ cache' = [i \in Ids |-> {}]

WritePresentValue(m) ==
    /\ IsWrite(m) /\ m.call.ok
    /\ m.call.obj \in Points
    /\ m.call.prop = "pv"
    /\ points' = [points EXCEPT ![m.call.obj] = WritePoint(@, m.call)]
    /\ Answer(m, Frame(m, "simple", <<>>))
    /\ UNCHANGED cache

SetOutOfService(pt, c) == IF c.ok THEN [pt EXCEPT !.oos = c.arg # {}] ELSE pt

\* Acknowledged even when the value does not parse.
WriteOutOfService(m) ==
    /\ IsWrite(m)
    /\ m.call.obj \in Points
    /\ m.call.prop = "oos"
    /\ points' = [points EXCEPT ![m.call.obj] = SetOutOfService(@, m.call)]
    /\ Answer(m, Frame(m, "simple", <<>>))
    /\ UNCHANGED cache

\* Seeded fault: a refused write is dropped without an answer.
WriteDropped(m) ==
    /\ IsWrite(m)
    /\ m.call.obj \notin Points
    /\ UNCHANGED vars

WriteRejected(m) ==
    /\ IsWrite(m)
    /\ \/ m.call.obj = "device"
       \/ m.call.obj = "missing" /\ m.call.prop # "garbled"
       \/ m.call.obj \in Points /\ m.call.prop \notin {"pv", "oos", "garbled"}
       \/ m.call.obj \in Points /\ m.call.prop = "pv" /\ ~m.call.ok
    /\ Answer(m, Frame(m, "error", <<>>))
    /\ UNCHANGED <<points, cache>>

-----------------------------------------------------------------------------

\* A stub: acknowledged, and no notification ever follows.
SubscribeCOV(m) ==
    /\ m.call.svc = "SubscribeCOV"
    /\ Answer(m, Frame(m, "simple", <<>>))
    /\ UNCHANGED <<points, cache>>

WhoIs(m) ==
    /\ m.call.svc = "WhoIs"
    /\ iAm' = TRUE
    /\ UNCHANGED <<points, cache, requests, replies, answered>>

\* One turn of the task's loop.  A request it cannot parse, it drops.
Handle(m) ==
    \/ ReadFromCache(m) \/ ReadDevice(m) \/ ReadPoint(m) \/ ReadRejected(m)
    \/ WritePresentValue(m) \/ WriteOutOfService(m) \/ WriteRejected(m)
    \/ SubscribeCOV(m)
    \/ WhoIs(m)

Next ==
    \/ \E p \in Peers, c \in Calls, i \in Ids : Issue(p, c, i)
    \/ \E m \in requests : Handle(m)

Spec == Init /\ [][Next]_vars

\* Requesters retry until they are answered, and the device's task runs.
LiveSpec ==
    Spec /\ \A i \in Ids : WF_vars(\E m \in requests : m.id = i /\ Handle(m))

-----------------------------------------------------------------------------

\* "Re-send cached response for duplicate invoke_id" serves retries only:
\* whatever is answered, from the cache or not, answers the request in hand.
AnswerIsForRequest == \A a \in answered : Answers(a.reply, a.request)

\* A retried read gets the answer it got first, whatever was written between.
RetrySeesFirstAnswer ==
    \A f, g \in replies :
        f.to = g.to /\ f.id = g.id /\ f.kind = "ack" /\ g.kind = "ack" => f = g

\* For its requesters the device is one without a cache, that knows each request
\* from every other: a read is answered with the value of a moment after it was
\* made, and once for all, however it is repeated, delayed or overtaken.
Reading(pts, c) == IF c.obj \in Points THEN PropertyValue(pts[c.obj], c.prop) ELSE <<>>
Writing(pts, c) ==
    [pts EXCEPT ![c.obj] = IF c.prop = "pv" THEN WritePoint(@, c) ELSE SetOutOfService(@, c)]

Told(m, f) == [request |-> m, kind |-> f.kind, value |-> f.value]

Given ==
    {Told(a.request, a.reply) :
        a \in {b \in [request : requests, reply : replies] : Answers(b.reply, b.request)}}
Last == {Told(a.request, a.reply) : a \in answered}

CD == INSTANCE CachelessDevice WITH given <- Given, answered <- Last
ImplementsCachelessDevice == CD!Spec

\* Whenever a point's array changes, the present value is the command of the
\* highest priority still given, or the default when the last is relinquished.
\* (A write that names no priority sets the value and leaves the array: then,
\* and only then, the two disagree, until the next command.)
Explained(pt) ==
    \/ \E i \in Priorities :
          pt.pv \in pt.pa[i] /\ \A j \in 1..(i - 1) : pt.pa[j] = {}
    \/ pt.pv = Default /\ \A i \in Priorities : pt.pa[i] = {}

HighestCommandWins ==
    [][\A o \in Points : points'[o].pa # points[o].pa => Explained(points'[o])]_vars

\* Each request that expects an answer is answered: no read, write or
\* subscription that parses falls between the cases of the handlers.
Answerable(m) == m.call.svc # "WhoIs" /\ m.call.prop # "garbled"

EveryRequestAnswered ==
    \A i \in Ids :
        (\E m \in requests : m.id = i /\ Answerable(m))
            ~> (\E f \in replies : f.id = i)

=============================================================================
