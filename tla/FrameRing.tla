----------------------------- MODULE FrameRing -----------------------------
(***************************************************************************)
(* The FPGA side of the camera, as src/src/XiPictureDriver.cpp uses it     *)
(* through the mapped registers: a ring of frame buffers in DDR, the       *)
(* trigger-mode register 0xFC, the capture-enable register 0xDC, the soft  *)
(* trigger 0xE4, the ready register 0xD4 (index in bits 4-5, status in     *)
(* bits 0-3) and the lock register 0xD8 (bit 4+n locks buffer n, bit n     *)
(* releases it).  The gateware is not part of the repository: everything   *)
(* here is external and assumes only what the driver relies on.            *)
(***************************************************************************)
CONSTANTS
    Bufs,       \* the frame buffers, Fb1..Fb4 in the driver
    NoBuf,      \* "no buffer"
    OldModes,   \* what an earlier process may have left in 0xFC ...
    OldReady    \* ... and in the status bits of 0xD4

ASSUME BufAssumption == NoBuf \notin Bufs
ASSUME LeftoverAssumption == OldModes \subseteq {0, 1} /\ OldReady \subseteq BOOLEAN

VARIABLES
    mode,       \* register 0xFC: 0 soft trigger, 1 hardware trigger
    capture,    \* register 0xDC: capture enabled
    trig,       \* a soft trigger (0xE4) not yet turned into an exposure
    lockReg,    \* register 0xD8: the buffers the FPGA may not write
    filling,    \* the buffer being written by the FPGA, or NoBuf
    readyBuf,   \* register 0xD4, bits 4-5: index of the newest frame
    readySt,    \* register 0xD4, bits 0-3 are not all zero
    fresh       \* history: b's frame was exposed after the last soft trigger

hwVars == <<mode, capture, trig, lockReg, filling, readyBuf, readySt, fresh>>

HwTypeOK ==
    /\ mode \in {0, 1}
    /\ capture \in BOOLEAN
    /\ trig \in BOOLEAN
    /\ lockReg \subseteq Bufs
    /\ filling \in Bufs \cup {NoBuf}
    /\ readyBuf \in Bufs
    /\ readySt \in BOOLEAN
    /\ fresh \in [Bufs -> BOOLEAN]

(* What an earlier process or the power-up left behind: a mode, capture on *)
(* or off, a frame pending or not, no buffer locked.                       *)
HwInit ==
    /\ mode \in OldModes
    /\ capture \in BOOLEAN
    /\ trig = FALSE
    /\ lockReg = {}
    /\ filling = NoBuf
    /\ readyBuf \in Bufs
    /\ readySt \in OldReady
    /\ fresh = [b \in Bufs |-> FALSE]

---------------------------------------------------------------------------
(* The processor's register accesses.                                      *)

WriteMode(v) ==
    /\ mode' = v
    /\ UNCHANGED <<capture, trig, lockReg, filling, readyBuf, readySt, fresh>>

WriteCapture(on) ==
    /\ capture' = on
    /\ UNCHANGED <<mode, trig, lockReg, filling, readyBuf, readySt, fresh>>

(* Every frame exposed so far is now older than the newest trigger.        *)
WriteTrigger ==
    /\ trig' = TRUE
    /\ fresh' = [b \in Bufs |-> FALSE]
    /\ UNCHANGED <<mode, capture, lockReg, filling, readyBuf, readySt>>

(* A write of the lock register with lock bits "locks" and release bits    *)
(* "releases": the written lock bits replace the old ones (this is why the *)
(* driver reads the register and ORs into it), a release bit wins over the *)
(* lock bit it finds set, clears the pending status of its buffer and      *)
(* reads back as zero.                                                     *)
WriteLock(locks, releases) ==
    /\ lockReg' = locks \ releases
    /\ readySt' = (readySt /\ readyBuf \notin releases)
    /\ UNCHANGED <<mode, capture, trig, filling, readyBuf, fresh>>

---------------------------------------------------------------------------
(* The FPGA: an exposure goes to a buffer that is neither locked nor the   *)
(* newest pending frame; it is published when it is complete.              *)

MayFill(b) ==
    /\ capture /\ filling = NoBuf
    /\ b \notin lockReg
    /\ ~(readySt /\ b = readyBuf)

HardExposure(b) ==
    /\ mode = 1
    /\ MayFill(b)
    /\ filling' = b
    /\ fresh' = [fresh EXCEPT ![b] = TRUE]
    /\ UNCHANGED <<mode, capture, trig, lockReg, readyBuf, readySt>>

SoftExposure(b) ==
    /\ mode = 0 /\ trig
    /\ MayFill(b)
    /\ filling' = b
    /\ trig' = FALSE
    /\ fresh' = [fresh EXCEPT ![b] = TRUE]
    /\ UNCHANGED <<mode, capture, lockReg, readyBuf, readySt>>

Publish ==
    /\ filling # NoBuf
    /\ readyBuf' = filling
    /\ readySt' = TRUE
    /\ filling' = NoBuf
    /\ UNCHANGED <<mode, capture, trig, lockReg, fresh>>

HwNext == Publish \/ \E b \in Bufs : HardExposure(b) \/ SoftExposure(b)
=============================================================================
