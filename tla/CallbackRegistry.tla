-------------------------- MODULE CallbackRegistry --------------------------
(***************************************************************************)
(* What XiPictureDriver promises the owner of an image callback, without   *)
(* threads, mutex or registers: one handler is registered at a time, only  *)
(* the registered handler is called, one call at a time, and neither a     *)
(* registration nor the end of the driver's life can happen in the middle  *)
(* of a call.  So when registerImageCallback(NULL) or delete has returned, *)
(* the caller may unload the old handler and free what it uses.            *)
(***************************************************************************)
CONSTANTS Handlers, NULL

VARIABLES
    alive,      \* the driver exists: its memory is mapped
    registered, \* the registered handler, or NULL
    running     \* the handler being called, or NULL

vars == <<alive, registered, running>>

Init == ~alive /\ registered = NULL /\ running = NULL

Create ==
    /\ ~alive
    /\ alive' = TRUE /\ registered' = NULL
    /\ UNCHANGED running

Register ==
    /\ alive /\ running = NULL
    /\ registered' \in Handlers \cup {NULL}
    /\ UNCHANGED <<alive, running>>

Call ==
    /\ alive /\ running = NULL /\ registered # NULL
    /\ running' = registered
    /\ UNCHANGED <<alive, registered>>

Return ==
    /\ running' = NULL
    /\ UNCHANGED <<alive, registered>>

Destroy ==
    /\ running = NULL
    /\ alive' = FALSE
    /\ UNCHANGED <<registered, running>>

Next == Create \/ Register \/ Call \/ Return \/ Destroy

Spec == Init /\ [][Next]_vars
=============================================================================
