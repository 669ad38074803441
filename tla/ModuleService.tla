---------------------------- MODULE ModuleService ----------------------------
(***************************************************************************)
(* What XiDriver promises the caller of Execute and of delete, without     *)
(* mutex, maps or registers.  An Execute is refused before the engine is   *)
(* touched, or starts one run of the engine and reports how that run       *)
(* ended; it gives a run up only because the driver was told to stop.  The *)
(* driver is told to stop before it is deleted, and goes only when no      *)
(* Execute is inside.                                                      *)
(***************************************************************************)
VARIABLES
    alive,      \* the driver has its device
    stopping,   \* it was told to stop
    run,        \* the Execute under way: what has become of its run
    report      \* what it is about to return, or ""

vars == <<alive, stopping, run, report>>

Refusals == {"NOFIND_MODULE", "NOSET_THRESHVALUE"}
Outcomes == {"SUCCESS", "OVERFLOW"}

Init == ~alive /\ stopping = TRUE /\ run = "none" /\ report = ""

Create ==
    /\ ~alive /\ run = "none" /\ report = ""
    /\ alive' = TRUE /\ stopping' = FALSE
    /\ UNCHANGED <<run, report>>

Accept ==
    /\ alive /\ run = "none" /\ report = ""
    /\ run' = "accepted"
    /\ UNCHANGED <<alive, stopping, report>>

Refuse ==
    /\ run = "accepted"
    /\ run' = "reported" /\ report' \in Refusals
    /\ UNCHANGED <<alive, stopping>>

Start ==
    /\ run = "accepted"
    /\ run' = "busy"
    /\ UNCHANGED <<alive, stopping, report>>

Finish ==
    /\ run = "busy"
    /\ run' = "done"
    /\ UNCHANGED <<alive, stopping, report>>

Report ==
    /\ run = "done"
    /\ run' = "reported" /\ report' \in Outcomes
    /\ UNCHANGED <<alive, stopping>>

GiveUp ==
    /\ run \in {"busy", "done"} /\ stopping
    /\ run' = "reported" /\ report' = "TERMINATE"
    /\ UNCHANGED <<alive, stopping>>

(* The call is out of the driver, which may go from here on.               *)
Leave ==
    /\ run = "reported"
    /\ run' = "none"
    /\ UNCHANGED <<alive, stopping, report>>

Return ==
    /\ run = "none" /\ report # ""
    /\ report' = ""
    /\ UNCHANGED <<alive, stopping, run>>

Stop ==
    /\ alive
    /\ stopping' = TRUE
    /\ UNCHANGED <<alive, run, report>>

Destroy ==
    /\ alive /\ stopping /\ run = "none"
    /\ alive' = FALSE
    /\ UNCHANGED <<stopping, run, report>>

Next ==
    \/ Create \/ Accept \/ Refuse \/ Start \/ Finish \/ Report \/ GiveUp
    \/ Leave \/ Return \/ Stop \/ Destroy

Spec == Init /\ [][Next]_vars
=============================================================================
