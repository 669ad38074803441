---------------------------- MODULE MCEventList ----------------------------
(* A small instance of EventList: one thread that uses the block module    *)
(* and owns the device, the others add "test" events.                      *)
EXTENDS EventList

CONSTANTS c1, c2

MCCalls ==
    [c \in Clients |->
        IF c = c1 THEN {"new", "delete", "block", "sync"} ELSE {"test"}]
=============================================================================
