--------------------------- MODULE MCFrameCapture ---------------------------
(* Small instances of FrameCapture for TLC: who calls what.                *)
EXTENDS FrameCapture

CONSTANTS c1, c2

(* Everything an application can do, from a main thread and a second one.  *)
AllCalls ==
    [c \in Clients |->
        IF c = c1 THEN {"new", "delete", "register", "mode", "capture", "trigger",
                        "grab", "picture"}
                  ELSE {"register", "has"}]

(* Hardware-trigger streaming: test/Picture.cpp and test/XiNetServer.cpp.  *)
StreamCalls ==
    [c \in Clients |->
        IF c = c1 THEN {"new", "delete", "register", "mode"} ELSE {"register"}]

(* Soft-trigger grabbing: test/Driver.cpp.                                 *)
GrabCalls ==
    [c \in Clients |-> IF c = c1 THEN {"new", "delete", "grab", "mode"} ELSE {"register"}]
=============================================================================
