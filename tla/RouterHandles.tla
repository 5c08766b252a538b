---------------------------- MODULE RouterHandles ----------------------------
(***************************************************************************)
(* What the main task does to the two references that lead to the BBMD of  *)
(* a router: its own `running`, and bbmd_handle, through which the task    *)
(* that copies the foreign device table reads.  Routers take turns in two  *)
(* slots.  A router may be stopped only when the handle leads to it.       *)
(*                                                                         *)
(* RouterLifecycle implements this module, FdtSync is built on it.         *)
(***************************************************************************)
CONSTANTS
    Slots,
    NoBbmd

VARIABLES
    runs,       \* the slot of the router that is up
    handle      \* the slot of bbmd_handle

vars == <<runs, handle>>

Init == runs = NoBbmd /\ handle = NoBbmd

\* A router is up that the handle does not lead to yet.
Publishing == runs \notin {NoBbmd, handle}

\* The first start makes the handle with the router.
Boot ==
    /\ runs = NoBbmd /\ handle = NoBbmd
    /\ runs' \in Slots
    /\ handle' = runs'

\* The new router is never in the slot the handle still leads to.
StartRouter ==
    /\ runs = NoBbmd
    /\ runs' \in Slots \ {handle}
    /\ UNCHANGED handle

Publish ==
    /\ Publishing
    /\ handle' = runs
    /\ UNCHANGED runs

\* The handle is left as it is.
StopRouter ==
    /\ runs # NoBbmd /\ ~Publishing
    /\ runs' = NoBbmd
    /\ UNCHANGED handle

Next == Boot \/ StartRouter \/ Publish \/ StopRouter

Spec == Init /\ [][Next]_vars

=============================================================================
