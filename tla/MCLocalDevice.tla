---------------------------- MODULE MCLocalDevice ----------------------------
(* Instances of LocalDevice for TLC: one point with two priorities. *)
EXTENDS LocalDevice

Request(s, o, p) ==
    [svc |-> s, obj |-> o, prop |-> p, arg |-> {}, prio |-> 0, ok |-> TRUE]

Write(v, n) == [Request("Write", "AO", "pv") EXCEPT !.arg = v, !.prio = n]

\* What moves the cache and the priority array.
CommandCalls ==
    { Request("Read", "AO", "pv"), Request("Read", "AO", "garbled"),
      Request("Read", "device", "unknown"),
      Write({2}, 1), Write({}, 1), Write({3}, 2), Write({2}, 0),
      [Write({2}, 1) EXCEPT !.obj = "missing"] }

\* One call for every case of every handler.
EveryCall ==
    CommandCalls \cup
    { Request("Read", "AO", "pa"), Request("Read", "AO", "unknown"),
      Request("Read", "missing", "pv"), Request("Read", "device", "fixed"),
      Write({2}, 2), [Write({2}, 1) EXCEPT !.ok = FALSE],
      Request("Write", "AO", "oos"), [Request("Write", "AO", "oos") EXCEPT !.ok = FALSE],
      Request("Write", "AO", "fixed"), Request("Write", "device", "pv"),
      Request("Write", "missing", "pv"), Request("Write", "missing", "garbled"),
      Request("SubscribeCOV", "AO", "fixed"), Request("WhoIs", "device", "fixed") }

=============================================================================
