--------------------------- MODULE MCModuleRunner ---------------------------
(* A small instance of ModuleRunner: a threshold that does not fit in a    *)
(* uint8_t, flags that are set and cleared, a picture of one size.         *)
EXTENDS ModuleRunner

MCValues ==
    [p \in Params |->
        CASE p = "ThreshValue" -> {257}
          [] p \in {"MirrorX", "MirrorY"} -> {0, 1}
          [] OTHER -> {1}]
=============================================================================
