---------------------------- MODULE AtomicUpdate ----------------------------
(***************************************************************************)
(* What a device with a boot loader promises its owner: the application is *)
(* always one complete firmware, it is replaced in one step while it is    *)
(* not running, and a firmware that was offered completely is installed    *)
(* before the application is started again.                                *)
(***************************************************************************)
CONSTANTS Pkgs, NoPkg

VARIABLES
    installed,  \* the firmware the device consists of
    offered,    \* the complete firmware waiting to be installed, or NoPkg
    running     \* is the application running?

Init == installed \in Pkgs /\ offered = NoPkg /\ running = FALSE

\* The application receives firmware, or part of it, and may stop doing so.
AppRuns ==
    /\ running
    /\ running' \in BOOLEAN /\ offered' \in Pkgs \cup {NoPkg}
    /\ UNCHANGED installed

Install ==
    /\ ~ running /\ offered # NoPkg
    /\ installed' = offered
    /\ UNCHANGED <<offered, running>>

\* The offer is dropped only because it was installed.
Settle ==
    /\ ~ running /\ installed = offered
    /\ offered' = NoPkg
    /\ UNCHANGED <<installed, running>>

Start ==
    /\ ~ running /\ (offered = NoPkg \/ installed = offered)
    /\ running' = TRUE
    /\ UNCHANGED <<installed, offered>>

Next == AppRuns \/ Install \/ Settle \/ Start

Spec == Init /\ [][Next]_<<installed, offered, running>>
=============================================================================
