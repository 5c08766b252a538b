-------------------------------- MODULE FdtSync --------------------------------
(***************************************************************************)
(* The foreign device table of the dashboard (fdt.rs) and the task that    *)
(* copies it, every two seconds, from the BBMD of the router on the LAN    *)
(* (router_cmd.rs).  The BBMD belongs to the BACnet stack, outside this    *)
(* repository: it drops an entry whose time to live and a grace period     *)
(* are over, when it is asked for its table.                               *)
(*                                                                         *)
(* The task reads the table through bbmd_handle, which keeps the BBMD of a *)
(* stopped router until another router starts.                             *)
(*                                                                         *)
(* Time is in seconds, as the code counts it; an entry carries its age.    *)
(***************************************************************************)
EXTENDS Integers, FiniteSets

CONSTANTS
    Devices,    \* foreign devices (an address and a port)
    TTLs,       \* times to live they register with
    Grace,      \* GRACE_PERIOD_SECS, and the BBMD's own
    Period,     \* of the task's interval
    Slack,      \* a round of the task lasts no longer
    Never       \* stands for a time longer than any of interest

ASSUME TimeAssumption ==
    /\ Grace \in Nat /\ Period \in Nat /\ Slack \in Nat /\ Never \in Nat
    /\ Slack < Period /\ Slack <= Grace
ASSUME TTLAssumption ==
    /\ TTLs \subseteq Nat
    /\ \A ttl \in TTLs : 2 * (ttl + Grace) + Period + 2 * Slack < Never

\* The BBMDs in memory: that of the running router and that of the handle.
Slots == {1, 2}
NoBbmd == 0

Entries == [ttl : TTLs, age : Nat]
Tables == [Devices -> SUBSET Entries]
Empty == [d \in Devices |-> {}]

VARIABLES
    runs,       \* the running router's BBMD
    handle,     \* bbmd_handle
    bbmd,       \* [Slots -> Tables]
    mgr,        \* FdtManager's entries
    sync,       \* where the task is in its round
    snap,       \* the entries it read
    clock,      \* seconds since its round began
    since,      \* [Devices -> how long it has been registered without a break]
    gone        \* [Devices -> how long ago it was last registered]

vars == <<runs, handle, bbmd, mgr, sync, snap, clock, since, gone>>

\* The main task's part, which RouterLifecycle implements.
RH == INSTANCE RouterHandles

Publishing == RH!Publishing

\* Is e expired?  The BBMD and FdtManager agree on it.
Expired(e) == e.age > e.ttl + Grace

\* Does the running router serve d, in table t?
ServedIn(r, t, d) == r # NoBbmd /\ \E e \in t[r][d] : ~Expired(e)
Served(d) == ServedIn(runs, bbmd, d)

TypeOK ==
    /\ runs \in Slots \cup {NoBbmd} /\ handle \in Slots \cup {NoBbmd}
    /\ bbmd \in [Slots -> Tables]
    /\ mgr \in Tables /\ snap \in Tables
    /\ \A d \in Devices : \A e, f \in mgr[d] : e = f
    /\ sync \in {"idle", "adding", "ticking"}
    /\ clock \in 0..Period
    /\ since \in [Devices -> 0..Never] /\ gone \in [Devices -> 0..Never]

Init ==
    /\ runs \in {NoBbmd, 1} /\ handle = runs
    /\ bbmd = [s \in Slots |-> Empty]
    /\ mgr = Empty /\ snap = Empty
    /\ sync = "idle" /\ clock = Period
    /\ since = [d \in Devices |-> 0] /\ gone = [d \in Devices |-> Never]

\* The devices' histories after a step that takes no time.
Observed ==
    /\ since' = [d \in Devices |-> IF ServedIn(runs', bbmd', d) THEN since[d] ELSE 0]
    /\ gone' = [d \in Devices |-> IF ServedIn(runs', bbmd', d) THEN 0 ELSE gone[d]]

syncVars == <<mgr, sync, snap, clock>>

-----------------------------------------------------------------------------
(* Foreign devices, at the running router's BBMD. *)

Register(d, ttl) ==
    /\ runs # NoBbmd
    /\ bbmd' = [bbmd EXCEPT ![runs][d] = {[ttl |-> ttl, age |-> 0]}]
    /\ UNCHANGED <<runs, handle, syncVars>>
    /\ Observed

Unregister(d) ==
    /\ runs # NoBbmd
    /\ bbmd' = [bbmd EXCEPT ![runs][d] = {}]
    /\ UNCHANGED <<runs, handle, syncVars>>
    /\ Observed

-----------------------------------------------------------------------------
(* The main task. *)

\* A stopped router leaves its BBMD to the handle.
StopRouter ==
    /\ RH!StopRouter
    /\ UNCHANGED <<bbmd, syncVars>>
    /\ Observed

\* start_router makes a BBMD; devices may register before it is published.
StartRouter ==
    /\ RH!StartRouter
    /\ bbmd' = [bbmd EXCEPT ![runs'] = Empty]
    /\ UNCHANGED syncVars
    /\ Observed

\* The write waits for the task's read guard, and frees the old BBMD.
Publish ==
    /\ RH!Publish
    /\ sync # "adding"
    /\ bbmd' = [s \in Slots |-> IF s = runs THEN bbmd[s] ELSE Empty]
    /\ UNCHANGED <<syncVars, since, gone>>

-----------------------------------------------------------------------------
(* The task's round. *)

Unexpired(t) == [d \in Devices |-> {e \in t[d] : ~Expired(e)}]

\* fdt() drops what is expired and returns the rest.
Snapshot ==
    /\ sync = "idle" /\ clock = Period
    /\ handle # NoBbmd
    /\ bbmd' = [bbmd EXCEPT ![handle] = Unexpired(@)]
    /\ snap' = Unexpired(bbmd[handle])
    /\ sync' = "adding" /\ clock' = 0
    /\ UNCHANGED <<runs, handle, mgr>>
    /\ Observed

NoSnapshot ==
    /\ sync = "idle" /\ clock = Period
    /\ handle = NoBbmd
    /\ sync' = "ticking" /\ clock' = 0
    /\ UNCHANGED <<runs, handle, bbmd, mgr, snap, since, gone>>

\* Seeded fault: an entry already there is not refreshed.
AddIfAbsent(old, e) == IF old # {} THEN old ELSE {[ttl |-> e.ttl, age |-> 0]}

\* Seeded fault: an entry already there keeps its time to live.
AddKeepsTtl(old, e) ==
    {[ttl |-> o.ttl, age |-> 0] : o \in IF old # {} THEN old ELSE {e}}

\* Seeded fault: the entry is pushed without looking for the device's.
AddPushes(old, e) == old \cup {[ttl |-> e.ttl, age |-> 0]}

\* The table's entry is replaced by a new one: registered_at is now.
Add(old, e) == {[ttl |-> e.ttl, age |-> 0]}

AddAll ==
    /\ sync = "adding"
    /\ mgr' = [d \in Devices |->
                  IF snap[d] = {} THEN mgr[d]
                  ELSE UNION {Add(mgr[d], e) : e \in snap[d]}]
    /\ sync' = "ticking" /\ snap' = Empty
    /\ UNCHANGED <<runs, handle, bbmd, clock, since, gone>>

\* Seeded fault: the table is only purged while no router has run.
TickUnlessHandle ==
    /\ sync = "ticking"
    /\ mgr' = IF handle = NoBbmd THEN Unexpired(mgr) ELSE mgr
    /\ sync' = "idle"
    /\ UNCHANGED <<runs, handle, bbmd, snap, clock, since, gone>>

TickMgr ==
    /\ sync = "ticking"
    /\ mgr' = Unexpired(mgr)
    /\ sync' = "idle"
    /\ UNCHANGED <<runs, handle, bbmd, snap, clock, since, gone>>

-----------------------------------------------------------------------------
(* A second passes. *)

Older(t) == [d \in Devices |-> {[e EXCEPT !.age = @ + 1] : e \in t[d]}]

Later(n) == IF n < Never THEN n + 1 ELSE Never

\* Rounds begin on time and end within Slack; only the task's read guard
\* delays the publication of a router's BBMD.
Second ==
    /\ clock < IF sync = "idle" THEN Period ELSE Slack
    /\ Publishing => sync = "adding"
    /\ clock' = clock + 1
    /\ bbmd' = [s \in Slots |-> Older(bbmd[s])]
    /\ mgr' = Older(mgr)
    /\ since' = [d \in Devices |-> IF ServedIn(runs, bbmd', d) THEN Later(since[d]) ELSE 0]
    /\ gone' = [d \in Devices |-> IF ServedIn(runs, bbmd', d) THEN 0 ELSE Later(gone[d])]
    /\ UNCHANGED <<runs, handle, sync, snap>>

Next ==
    \/ \E d \in Devices, ttl \in TTLs : Register(d, ttl)
    \/ \E d \in Devices : Unregister(d)
    \/ StopRouter \/ StartRouter \/ Publish
    \/ Snapshot \/ NoSnapshot \/ AddAll \/ TickMgr
    \/ Second

Spec == Init /\ [][Next]_vars

-----------------------------------------------------------------------------

\* "Returns current FDT entries": a device that has been registered for a
\* round is in the table, through restarts of the router and whatever it
\* was before, and leaves it at no time while it stays registered.  The table
\* is FdtManager's, which GET /api/fdt answers with in Tailscale mode only.
RegisteredIsShown ==
    \A d \in Devices : since[d] > Period + Slack => mgr[d] # {}

\* A registration is shown with the time to live it was made with, a round
\* after it was made, not with that of an earlier one.
TtlIsCurrent ==
    \A d \in Devices : Served(d) =>
        \A e \in bbmd[runs][d] : e.age > Period + Slack =>
            \E f \in mgr[d] : f.ttl = e.ttl

\* A device that is gone is forgotten.  The handle keeps the BBMD of a stopped
\* router, so its entry there has to expire first, and the copy after it: that
\* is the bound, and nothing prolongs it.
GoneIsForgotten ==
    \A d \in Devices : \A e \in mgr[d] :
        gone[d] <= 2 * (e.ttl + Grace) + Period + 2 * Slack

=============================================================================
