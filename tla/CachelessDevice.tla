---------------------------- MODULE CachelessDevice ----------------------------
(***************************************************************************)
(* What the local device promises its requesters, as if it kept no cache   *)
(* and knew every request it gets from every other.  A read is             *)
(* acknowledged once, with the value that the property has at that moment; *)
(* whoever repeats the request is told the same.  A write is carried out   *)
(* each time it arrives.  A request is refused each time, or never.        *)
(*                                                                         *)
(* While no invoke id is used twice, LocalDevice implements this module.   *)
(***************************************************************************)
CONSTANTS
    Reading(_, _),      \* what a call reads of the points
    Writing(_, _)       \* the points after a call

VARIABLES
    points,
    requests,       \* every request made so far
    given,          \* every answer given so far, with the request it is for
    answered        \* the last one

vars == <<points, requests, given, answered>>

Init == requests = {} /\ given = {} /\ answered = {}

Ask ==
    /\ \E m \in requests' : requests' = requests \cup {m}
    /\ UNCHANGED <<points, given, answered>>

Give(m, kind, value) ==
    LET r == [request |-> m, kind |-> kind, value |-> value]
    IN  /\ given' = given \cup {r}
        /\ answered' = {r}
        /\ UNCHANGED requests

AnswersTo(m) == {r \in given : r.request = m}
Refused(m) == \E r \in AnswersTo(m) : r.kind = "error"

ReadNow(m) ==
    /\ m.call.svc = "Read"
    /\ AnswersTo(m) = {}
    /\ Give(m, "ack", Reading(points, m.call))
    /\ UNCHANGED points

\* What was granted is not refused later, nor the other way round.
Refuse(m) ==
    /\ \A r \in AnswersTo(m) : r.kind = "error"
    /\ Give(m, "error", <<>>)
    /\ UNCHANGED points

WriteNow(m) ==
    /\ m.call.svc = "Write"
    /\ ~Refused(m)
    /\ Give(m, "simple", <<>>)
    /\ points' = Writing(points, m.call)

Subscribe(m) ==
    /\ m.call.svc = "SubscribeCOV"
    /\ ~Refused(m)
    /\ Give(m, "simple", <<>>)
    /\ UNCHANGED points

Repeat(m) ==
    /\ \E r \in given : r.request = m /\ answered' = {r}
    /\ UNCHANGED <<points, requests, given>>

Next ==
    \/ Ask
    \/ \E m \in requests :
          ReadNow(m) \/ Refuse(m) \/ WriteNow(m) \/ Subscribe(m) \/ Repeat(m)

Spec == Init /\ [][Next]_vars

=============================================================================
