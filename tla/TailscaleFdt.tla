----------------------------- MODULE TailscaleFdt -----------------------------
(***************************************************************************)
(* A bridge in Tailscale mode has two BBMDs: that of the LAN, which        *)
(* FdtSync copies, and that of its Tailscale transport                     *)
(* (bbmd_transport.rs), with which the devices on the other side register. *)
(* start_router (router.rs) puts the first in RunningRouter.bbmd_state and *)
(* drops its reference to the second, so nothing of FdtSync reads it.  The *)
(* LAN of this module has no foreign devices of its own.                   *)
(***************************************************************************)
EXTENDS FdtSync

VARIABLE remote     \* the devices the Tailscale BBMD has registered

remoteVars == <<vars, remote>>

RemoteInit == Init /\ remote = {}

\* The Tailscale BBMD is made and dropped with its router.
Bridge ==
    /\ \/ StopRouter \/ StartRouter \/ Publish
       \/ Snapshot \/ NoSnapshot \/ AddAll \/ TickMgr
       \/ Second
    /\ remote' = IF runs' = runs THEN remote ELSE {}

RegisterRemote(d) ==
    /\ runs # NoBbmd
    /\ remote' = remote \cup {d}
    /\ UNCHANGED vars

\* It unregisters, or its time to live ends.
LeaveRemote(d) ==
    /\ remote' = remote \ {d}
    /\ UNCHANGED vars

RemoteNext ==
    \/ Bridge
    \/ \E d \in Devices : RegisterRemote(d) \/ LeaveRemote(d)

\* Time goes on, and the task of the table and the main task with it.
Rounds ==
    /\ Second \/ Snapshot \/ NoSnapshot \/ AddAll \/ TickMgr \/ Publish
    /\ UNCHANGED remote

LiveSpec == RemoteInit /\ [][RemoteNext]_remoteVars /\ WF_remoteVars(Rounds)

-----------------------------------------------------------------------------

\* FSD 11.3.4: when a device registers with the BBMD in Tailscale mode, the
\* dashboard's table shows it, as long as it stays.
TailscaleDeviceIsShown ==
    \A d \in Devices : d \in remote ~> (mgr[d] # {} \/ d \notin remote)

=============================================================================
