---------------------------- MODULE FrameCapture ----------------------------
(***************************************************************************)
(* XiPictureDriver (src/src/XiPictureDriver.cpp) and the frame grabbing of *)
(* XiImageDevice and XiDriver on top of it: the image thread that waits    *)
(* for a hardware-triggered frame and calls the registered handler, the    *)
(* clients that register handlers, switch the trigger mode, grab frames    *)
(* and create and delete the driver, and the FPGA (module FrameRing).      *)
(*                                                                         *)
(* Every access to shared memory or to a register is a step of its own;    *)
(* usleep is a scheduling point.  A client makes one call at a time and    *)
(* the driver is deleted only when no other call is in progress (what C++  *)
(* requires of the caller), so every race seen here is inside the driver.  *)
(***************************************************************************)
EXTENDS FrameRing

CONSTANTS
    Clients,    \* application threads
    Image,      \* the image thread
    Handlers,   \* callback functions
    NULL,       \* no handler
    Free,       \* owner of a free mutex
    Calls,      \* Calls[c]: the operations client c performs
    First,      \* buffer 0
    ModeValues  \* the values written to 0xFC by setRegisterValue

ASSUME ClientAssumption ==
    /\ Image \notin Clients /\ Free \notin Clients /\ Image # Free
ASSUME HandlerAssumption == NULL \notin Handlers
ASSUME FirstAssumption == First \in Bufs
ASSUME CallAssumption == ModeValues \subseteq {0, 1}

VARIABLES
    obj,        \* life of the XiPictureDriver: none, starting, live, closing
    mapped,     \* the registers and the frame memory are mapped
    working,    \* m_ClassWorking
    handler,    \* m_CallBackHandler
    owner,      \* holder of m_ImageCallBackMutex
    ipc,        \* image thread: next step
    ibuf,       \* image thread: buffNo
    iready,     \* image thread: the status it last read with buffNo
    ireg,       \* image thread: status read from 0xD8
    running,    \* the handler being called, or NULL
    cpc,        \* clients: next step of the current call
    arg,        \* clients: argument of registerImageCallback
    cbuf,       \* clients: buffNo
    cready,     \* clients: the status read with buffNo
    creg        \* clients: status read from 0xD8

objVars == <<obj, mapped, working, handler, owner>>
imgVars == <<ipc, ibuf, iready, ireg, running>>
cliVars == <<cpc, arg, cbuf, cready, creg>>
vars == <<hwVars, objVars, imgVars, cliVars>>

ImageSteps == {"off", "test", "lock", "check", "read", "wait", "lockR", "lockW",
               "unlockR", "unlockW", "recheck", "call", "callback", "unlock"}

ClientSteps == {"idle", "newCapture", "newMode", "regLock", "regStore",
                "regUnlock", "hasLock", "hasUnlock", "grabTrigger",
                "grabSwitch", "grabRead", "grabWait", "grabLockR", "grabLockW",
                "grabCopy", "grabUnlockR", "grabUnlockW", "picUnlockR",
                "picUnlockW", "picRead", "picWait", "picLockR", "picLockW",
                "join", "unmap"}

TypeOK ==
    /\ HwTypeOK
    /\ obj \in {"none", "starting", "live", "closing"}
    /\ mapped \in BOOLEAN /\ working \in BOOLEAN
    /\ handler \in Handlers \cup {NULL}
    /\ owner \in Clients \cup {Image, Free}
    /\ ipc \in ImageSteps
    /\ ibuf \in Bufs \cup {NoBuf} /\ iready \in BOOLEAN /\ ireg \subseteq Bufs
    /\ running \in Handlers \cup {NULL}
    /\ cpc \in [Clients -> ClientSteps]
    /\ arg \in [Clients -> Handlers \cup {NULL}]
    /\ cbuf \in [Clients -> Bufs \cup {NoBuf}]
    /\ cready \in [Clients -> BOOLEAN]
    /\ creg \in [Clients -> SUBSET Bufs]

Init ==
    /\ HwInit
    /\ obj = "none" /\ mapped = FALSE /\ working = FALSE
    /\ handler = NULL /\ owner = Free
    /\ ipc = "off" /\ ibuf = NoBuf /\ iready = FALSE /\ ireg = {}
    /\ running = NULL
    /\ cpc = [c \in Clients |-> "idle"]
    /\ arg = [c \in Clients |-> NULL]
    /\ cbuf = [c \in Clients |-> NoBuf]
    /\ cready = [c \in Clients |-> FALSE]
    /\ creg = [c \in Clients |-> {}]

---------------------------------------------------------------------------
(* Plausible mistakes in the code below; TLC uses them to show that the    *)
(* properties at the end of this module can fail.  No action refers to     *)
(* them.                                                                   *)

(* The constructor forgets to clear m_CallBackHandler.                     *)
NewKeepsHandler(c) ==
    /\ cpc[c] = "idle" /\ "new" \in Calls[c] /\ obj = "none"
    /\ obj' = "starting" /\ mapped' = TRUE /\ working' = TRUE
    /\ ipc' = "test"
    /\ cpc' = [cpc EXCEPT ![c] = "newCapture"]
    /\ UNCHANGED <<hwVars, handler, owner, ibuf, iready, ireg, running,
                   arg, cbuf, cready, creg>>

(* The constructor writes the value of the continuous mode to 0xFC.        *)
NewModeContinuous(c) ==
    /\ cpc[c] = "newMode"
    /\ WriteMode(2) /\ obj' = "live"
    /\ cpc' = [cpc EXCEPT ![c] = "idle"]
    /\ UNCHANGED <<mapped, working, handler, owner, imgVars,
                   arg, cbuf, cready, creg>>

(* The destructor does not wait for the thread.                            *)
JoinDetached(c) ==
    /\ cpc[c] = "join"
    /\ cpc' = [cpc EXCEPT ![c] = "unmap"]
    /\ UNCHANGED <<hwVars, objVars, imgVars, arg, cbuf, cready, creg>>

(* registerImageCallback stores the pointer without taking the mutex.      *)
RegisterLockSkipped(c) ==
    /\ cpc[c] = "regLock"
    /\ cpc' = [cpc EXCEPT ![c] = "regStore"]
    /\ UNCHANGED <<hwVars, objVars, imgVars, arg, cbuf, cready, creg>>

(* GrabPicture returns without unlockBuff.                                 *)
GrabCopyReturns(c) ==
    /\ cpc[c] = "grabCopy"
    /\ cpc' = [cpc EXCEPT ![c] = "idle"]
    /\ UNCHANGED <<hwVars, objVars, imgVars, arg, cbuf, cready, creg>>

(* getReadyBuffNo does not wait for the status.                            *)
GrabWaitOnce(c) ==
    /\ cpc[c] = "grabWait"
    /\ cpc' = [cpc EXCEPT ![c] = "grabLockR"]
    /\ UNCHANGED <<hwVars, objVars, imgVars, arg, cbuf, cready, creg>>

(* GrabPicture waits without having triggered.                             *)
GrabTriggerSkipped(c) ==
    /\ cpc[c] = "grabTrigger"
    /\ cpc' = [cpc EXCEPT ![c] = "grabRead"]
    /\ UNCHANGED <<hwVars, objVars, imgVars, arg, cbuf, cready, creg>>

(* unlockBuff clears the lock bit instead of writing the release bit, so   *)
(* the pending status stays.                                               *)
GrabUnlockClearsBit(c) ==
    /\ cpc[c] = "grabUnlockW"
    /\ WriteLock(creg[c] \ {cbuf[c]}, {})
    /\ cpc' = [cpc EXCEPT ![c] = "idle"]
    /\ creg' = [creg EXCEPT ![c] = {}]
    /\ cbuf' = [cbuf EXCEPT ![c] = NoBuf]
    /\ cready' = [cready EXCEPT ![c] = FALSE]
    /\ UNCHANGED <<objVars, imgVars, arg>>

(* ImageThread leaves the mutex locked when there is nothing to do.        *)
ImageCheckKeepsLock ==
    /\ ipc = "check"
    /\ ipc' = IF mode = 1 /\ handler # NULL THEN "read" ELSE "test"
    /\ UNCHANGED <<hwVars, objVars, ibuf, iready, ireg, running, cliVars>>

(* HardTrigerGetReadyBuffNo does not look at m_ClassWorking.               *)
ImageWaitForever ==
    /\ ipc = "wait"
    /\ ipc' = IF mode = 1 /\ ~iready THEN "read" ELSE "lockR"
    /\ UNCHANGED <<hwVars, objVars, ibuf, iready, ireg, running, cliVars>>

(* ImageThread does not look at m_ClassWorking again before the call.      *)
ImageRecheckNoStop ==
    /\ ipc = "recheck"
    /\ ipc' = IF handler # NULL /\ mode = 1 THEN "call" ELSE "unlock"
    /\ UNCHANGED <<hwVars, objVars, ibuf, iready, ireg, running, cliVars>>

---------------------------------------------------------------------------
(* Construction: the thread is started before the registers are set.       *)

At(c, s) == cpc[c] = s
Goto(c, s) == cpc' = [cpc EXCEPT ![c] = s]

New(c) ==
    /\ At(c, "idle") /\ "new" \in Calls[c]
    /\ obj = "none"
    /\ obj' = "starting" /\ mapped' = TRUE
    /\ handler' = NULL /\ working' = TRUE
    /\ ipc' = "test"
    /\ Goto(c, "newCapture")
    /\ UNCHANGED <<hwVars, owner, ibuf, iready, ireg, running,
                   arg, cbuf, cready, creg>>

NewCapture(c) ==
    /\ At(c, "newCapture")
    /\ WriteCapture(TRUE)
    /\ Goto(c, "newMode")
    /\ UNCHANGED <<objVars, imgVars, arg, cbuf, cready, creg>>

NewMode(c) ==
    /\ At(c, "newMode")
    /\ WriteMode(0)
    /\ obj' = "live"
    /\ Goto(c, "idle")
    /\ UNCHANGED <<mapped, working, handler, owner, imgVars,
                   arg, cbuf, cready, creg>>

(* A call may begin on a live object only.                                 *)
Begin(c, call) == At(c, "idle") /\ call \in Calls[c] /\ obj = "live"

(* Destruction: m_ClassWorking is cleared, the thread joined, the memory   *)
(* unmapped.                                                               *)
Delete(c) ==
    /\ Begin(c, "delete")
    /\ \A d \in Clients : At(d, "idle")
    /\ obj' = "closing" /\ working' = FALSE
    /\ Goto(c, "join")
    /\ UNCHANGED <<hwVars, mapped, handler, owner, imgVars,
                   arg, cbuf, cready, creg>>

Join(c) ==
    /\ At(c, "join") /\ ipc = "off"
    /\ Goto(c, "unmap")
    /\ UNCHANGED <<hwVars, objVars, imgVars, arg, cbuf, cready, creg>>

Unmap(c) ==
    /\ At(c, "unmap")
    /\ mapped' = FALSE /\ obj' = "none"
    /\ Goto(c, "idle")
    /\ UNCHANGED <<hwVars, working, handler, owner, imgVars,
                   arg, cbuf, cready, creg>>

---------------------------------------------------------------------------
(* registerImageCallback and hasRegisterImageCallBack.                     *)

Register(c) ==
    /\ Begin(c, "register")
    /\ \E h \in Handlers \cup {NULL} : arg' = [arg EXCEPT ![c] = h]
    /\ Goto(c, "regLock")
    /\ UNCHANGED <<hwVars, objVars, imgVars, cbuf, cready, creg>>

RegisterLock(c) ==
    /\ At(c, "regLock") /\ owner = Free
    /\ owner' = c
    /\ Goto(c, "regStore")
    /\ UNCHANGED <<hwVars, obj, mapped, working, handler, imgVars,
                   arg, cbuf, cready, creg>>

RegisterStore(c) ==
    /\ At(c, "regStore")
    /\ handler' = arg[c]
    /\ Goto(c, "regUnlock")
    /\ UNCHANGED <<hwVars, obj, mapped, working, owner, imgVars,
                   arg, cbuf, cready, creg>>

RegisterUnlock(c) ==
    /\ At(c, "regUnlock")
    /\ owner' = Free
    /\ arg' = [arg EXCEPT ![c] = NULL]
    /\ Goto(c, "idle")
    /\ UNCHANGED <<hwVars, obj, mapped, working, handler, imgVars,
                   cbuf, cready, creg>>

HasRegister(c) ==
    /\ Begin(c, "has")
    /\ Goto(c, "hasLock")
    /\ UNCHANGED <<hwVars, objVars, imgVars, arg, cbuf, cready, creg>>

HasLock(c) ==
    /\ At(c, "hasLock") /\ owner = Free
    /\ owner' = c
    /\ Goto(c, "hasUnlock")
    /\ UNCHANGED <<hwVars, obj, mapped, working, handler, imgVars,
                   arg, cbuf, cready, creg>>

HasUnlock(c) ==
    /\ At(c, "hasUnlock")
    /\ owner' = Free
    /\ Goto(c, "idle")
    /\ UNCHANGED <<hwVars, obj, mapped, working, handler, imgVars,
                   arg, cbuf, cready, creg>>

---------------------------------------------------------------------------
(* Register operations of the clients: the trigger mode (setRegisterValue),*)
(* enableCapture and softTrigger.  Each is one store.                      *)

SetTriggerMode(c) ==
    /\ Begin(c, "mode")
    /\ \E v \in ModeValues : WriteMode(v)
    /\ UNCHANGED <<objVars, imgVars, cliVars>>

EnableCapture(c) ==
    /\ Begin(c, "capture")
    /\ \E on \in BOOLEAN : WriteCapture(on)
    /\ UNCHANGED <<objVars, imgVars, cliVars>>

SoftTrigger(c) ==
    /\ Begin(c, "trigger")
    /\ WriteTrigger
    /\ UNCHANGED <<objVars, imgVars, cliVars>>

(* XiDriver::GrabPicture(buff, len): test 0xFC, trigger, wait for a ready  *)
(* buffer, lock it, copy it, release it.  In the hardware-trigger mode     *)
(* nothing is grabbed: 1 is written to 0xFC and 0 is returned.             *)
Grab(c) ==
    /\ Begin(c, "grab")
    /\ Goto(c, IF mode = 0 THEN "grabTrigger" ELSE "grabSwitch")
    /\ UNCHANGED <<hwVars, objVars, imgVars, arg, cbuf, cready, creg>>

GrabSwitch(c) ==
    /\ At(c, "grabSwitch")
    /\ WriteMode(1)
    /\ Goto(c, "idle")
    /\ UNCHANGED <<objVars, imgVars, arg, cbuf, cready, creg>>

GrabTrigger(c) ==
    /\ At(c, "grabTrigger")
    /\ WriteTrigger
    /\ Goto(c, "grabRead")
    /\ UNCHANGED <<objVars, imgVars, arg, cbuf, cready, creg>>

(* getReadyBuffNo: one load of 0xD4 gives the index and its status.        *)
GrabRead(c) ==
    /\ At(c, "grabRead")
    /\ cbuf' = [cbuf EXCEPT ![c] = readyBuf]
    /\ cready' = [cready EXCEPT ![c] = readySt]
    /\ Goto(c, "grabWait")
    /\ UNCHANGED <<hwVars, objVars, imgVars, arg, creg>>

GrabWait(c) ==
    /\ At(c, "grabWait")
    /\ Goto(c, IF working /\ ~cready[c] THEN "grabRead" ELSE "grabLockR")
    /\ UNCHANGED <<hwVars, objVars, imgVars, arg, cbuf, cready, creg>>

(* lockBuff and unlockBuff: a load and a store of 0xD8, not one access.    *)
GrabLockRead(c) ==
    /\ At(c, "grabLockR")
    /\ creg' = [creg EXCEPT ![c] = lockReg]
    /\ Goto(c, "grabLockW")
    /\ UNCHANGED <<hwVars, objVars, imgVars, arg, cbuf, cready>>

GrabLockWrite(c) ==
    /\ At(c, "grabLockW")
    /\ WriteLock(creg[c] \cup {cbuf[c]}, {})
    /\ creg' = [creg EXCEPT ![c] = {}]
    /\ Goto(c, "grabCopy")
    /\ UNCHANGED <<objVars, imgVars, arg, cbuf, cready>>

(* The memcpy lasts as long as the client stays at "grabCopy".             *)
GrabCopy(c) ==
    /\ At(c, "grabCopy")
    /\ Goto(c, "grabUnlockR")
    /\ UNCHANGED <<hwVars, objVars, imgVars, arg, cbuf, cready, creg>>

GrabUnlockRead(c) ==
    /\ At(c, "grabUnlockR")
    /\ creg' = [creg EXCEPT ![c] = lockReg]
    /\ Goto(c, "grabUnlockW")
    /\ UNCHANGED <<hwVars, objVars, imgVars, arg, cbuf, cready>>

GrabUnlockWrite(c) ==
    /\ At(c, "grabUnlockW")
    /\ WriteLock(creg[c], {cbuf[c]})
    /\ creg' = [creg EXCEPT ![c] = {}]
    /\ cbuf' = [cbuf EXCEPT ![c] = NoBuf]
    /\ cready' = [cready EXCEPT ![c] = FALSE]
    /\ Goto(c, "idle")
    /\ UNCHANGED <<objVars, imgVars, arg>>

(* GrabPicture() without arguments: release buffer 0, wait for a ready     *)
(* buffer and, if it is buffer 0, return it locked; NULL otherwise, as in  *)
(* the continuous mode (0xE0 is 2), where nothing is done.                 *)
Picture(c) ==
    /\ Begin(c, "picture")
    /\ Goto(c, "picUnlockR")
    /\ UNCHANGED <<hwVars, objVars, imgVars, arg, cbuf, cready, creg>>

PictureUnlockRead(c) ==
    /\ At(c, "picUnlockR")
    /\ creg' = [creg EXCEPT ![c] = lockReg]
    /\ Goto(c, "picUnlockW")
    /\ UNCHANGED <<hwVars, objVars, imgVars, arg, cbuf, cready>>

PictureUnlockWrite(c) ==
    /\ At(c, "picUnlockW")
    /\ WriteLock(creg[c], {First})
    /\ creg' = [creg EXCEPT ![c] = {}]
    /\ Goto(c, "picRead")
    /\ UNCHANGED <<objVars, imgVars, arg, cbuf, cready>>

PictureRead(c) ==
    /\ At(c, "picRead")
    /\ cbuf' = [cbuf EXCEPT ![c] = readyBuf]
    /\ cready' = [cready EXCEPT ![c] = readySt]
    /\ Goto(c, "picWait")
    /\ UNCHANGED <<hwVars, objVars, imgVars, arg, creg>>

PictureWait(c) ==
    /\ At(c, "picWait")
    /\ IF working /\ ~cready[c]
       THEN Goto(c, "picRead") /\ UNCHANGED <<cbuf, cready>>
       ELSE /\ Goto(c, IF cbuf[c] = First /\ working THEN "picLockR" ELSE "idle")
            /\ cbuf' = [cbuf EXCEPT ![c] = NoBuf]
            /\ cready' = [cready EXCEPT ![c] = FALSE]
    /\ UNCHANGED <<hwVars, objVars, imgVars, arg, creg>>

PictureLockRead(c) ==
    /\ At(c, "picLockR")
    /\ creg' = [creg EXCEPT ![c] = lockReg]
    /\ Goto(c, "picLockW")
    /\ UNCHANGED <<hwVars, objVars, imgVars, arg, cbuf, cready>>

PictureLockWrite(c) ==
    /\ At(c, "picLockW")
    /\ WriteLock(creg[c] \cup {First}, {})
    /\ creg' = [creg EXCEPT ![c] = {}]
    /\ Goto(c, "idle")
    /\ UNCHANGED <<objVars, imgVars, arg, cbuf, cready>>

---------------------------------------------------------------------------
(* ImageThread.                                                            *)

ImageTest ==
    /\ ipc = "test"
    /\ ipc' = IF working THEN "lock" ELSE "off"
    /\ UNCHANGED <<hwVars, objVars, ibuf, iready, ireg, running, cliVars>>

ImageLock ==
    /\ ipc = "lock" /\ owner = Free
    /\ owner' = Image
    /\ ipc' = "check"
    /\ UNCHANGED <<hwVars, obj, mapped, working, handler,
                   ibuf, iready, ireg, running, cliVars>>

ImageCheck ==
    /\ ipc = "check"
    /\ ipc' = IF mode = 1 /\ handler # NULL THEN "read" ELSE "unlock"
    /\ UNCHANGED <<hwVars, objVars, ibuf, iready, ireg, running, cliVars>>

(* HardTrigerGetReadyBuffNo: the mutex is held while it polls.             *)
ImageRead ==
    /\ ipc = "read"
    /\ ibuf' = readyBuf /\ iready' = readySt
    /\ ipc' = "wait"
    /\ UNCHANGED <<hwVars, objVars, ireg, running, cliVars>>

ImageWait ==
    /\ ipc = "wait"
    /\ ipc' = IF mode = 1 /\ working /\ ~iready THEN "read" ELSE "lockR"
    /\ UNCHANGED <<hwVars, objVars, ibuf, iready, ireg, running, cliVars>>

ImageLockRead ==
    /\ ipc = "lockR"
    /\ ireg' = lockReg
    /\ ipc' = "lockW"
    /\ UNCHANGED <<hwVars, objVars, ibuf, iready, running, cliVars>>

ImageLockWrite ==
    /\ ipc = "lockW"
    /\ WriteLock(ireg \cup {ibuf}, {})
    /\ ireg' = {}
    /\ ipc' = "unlockR"
    /\ UNCHANGED <<objVars, ibuf, iready, running, cliVars>>

ImageUnlockRead ==
    /\ ipc = "unlockR"
    /\ ireg' = lockReg
    /\ ipc' = "unlockW"
    /\ UNCHANGED <<hwVars, objVars, ibuf, iready, running, cliVars>>

ImageUnlockWrite ==
    /\ ipc = "unlockW"
    /\ WriteLock(ireg, {ibuf})
    /\ ireg' = {}
    /\ ipc' = "recheck"
    /\ UNCHANGED <<objVars, ibuf, iready, running, cliVars>>

ImageRecheck ==
    /\ ipc = "recheck"
    /\ ipc' = IF handler # NULL /\ working /\ mode = 1 THEN "call" ELSE "unlock"
    /\ UNCHANGED <<hwVars, objVars, ibuf, iready, ireg, running, cliVars>>

(* m_CallBackHandler(info): the pointer is loaded again for the call.      *)
ImageCall ==
    /\ ipc = "call"
    /\ running' = handler
    /\ ipc' = "callback"
    /\ UNCHANGED <<hwVars, objVars, ibuf, iready, ireg, cliVars>>

(* The handler returns.                                                    *)
ImageReturn ==
    /\ ipc = "callback"
    /\ running' = NULL
    /\ ipc' = "unlock"
    /\ UNCHANGED <<hwVars, objVars, ibuf, iready, ireg, cliVars>>

ImageUnlock ==
    /\ ipc = "unlock"
    /\ owner' = Free
    /\ ipc' = "test"
    /\ ibuf' = NoBuf /\ iready' = FALSE
    /\ UNCHANGED <<hwVars, obj, mapped, working, handler,
                   ireg, running, cliVars>>

---------------------------------------------------------------------------
ImageNext ==
    \/ ImageTest \/ ImageLock \/ ImageCheck \/ ImageRead \/ ImageWait
    \/ ImageLockRead \/ ImageLockWrite \/ ImageUnlockRead \/ ImageUnlockWrite
    \/ ImageRecheck \/ ImageCall \/ ImageReturn \/ ImageUnlock

(* The calls a client may choose to make ...                               *)
CallNext(c) ==
    \/ New(c) \/ Delete(c) \/ Register(c) \/ HasRegister(c) \/ Grab(c)
    \/ Picture(c) \/ SetTriggerMode(c) \/ EnableCapture(c) \/ SoftTrigger(c)

(* ... and the steps of a call under way: waiting for the mutex, the rest. *)
MutexNext(c) == RegisterLock(c) \/ HasLock(c)

StepNext(c) ==
    \/ NewCapture(c) \/ NewMode(c) \/ Join(c) \/ Unmap(c)
    \/ RegisterStore(c) \/ RegisterUnlock(c) \/ HasUnlock(c)
    \/ GrabSwitch(c) \/ GrabTrigger(c) \/ GrabRead(c) \/ GrabWait(c)
    \/ GrabLockRead(c) \/ GrabLockWrite(c) \/ GrabCopy(c)
    \/ GrabUnlockRead(c) \/ GrabUnlockWrite(c)
    \/ PictureUnlockRead(c) \/ PictureUnlockWrite(c) \/ PictureRead(c)
    \/ PictureWait(c) \/ PictureLockRead(c) \/ PictureLockWrite(c)

FpgaNext == HwNext /\ UNCHANGED <<objVars, imgVars, cliVars>>

Next ==
    \/ FpgaNext
    \/ ImageNext
    \/ \E c \in Clients : CallNext(c) \/ MutexNext(c) \/ StepNext(c)

Spec == Init /\ [][Next]_vars

(* Fairness: threads are scheduled; a thread waiting for the mutex gets it *)
(* in the end, since the image thread sleeps outside it once per turn; the *)
(* handler returns; the FPGA ends an exposure and serves a soft trigger.   *)
(* Nothing makes a hardware trigger come, nor a client make a call.        *)
Fairness ==
    /\ WF_vars(ImageNext)
    /\ WF_vars(Publish /\ FpgaNext)
    /\ WF_vars((\E b \in Bufs : SoftExposure(b)) /\ FpgaNext)
    /\ \A c \in Clients : WF_vars(StepNext(c)) /\ SF_vars(MutexNext(c))

FairSpec == Spec /\ Fairness

---------------------------------------------------------------------------
(* Properties.                                                             *)

(* The handler being called is the registered one: once                    *)
(* registerImageCallback has returned, the handler it replaced is not      *)
(* running and is never called again.                                      *)
RunningIsRegistered == running # NULL => handler = running

(* No thread is inside the driver once its memory is unmapped: neither the *)
(* image thread (which the destructor joins) nor a handler.                *)
NoAccessAfterUnmap ==
    ~mapped => /\ ipc = "off" /\ running = NULL
               /\ \A c \in Clients : At(c, "idle")

(* The driver implements the promise of module CallbackRegistry.           *)
Registry == INSTANCE CallbackRegistry WITH alive <- mapped, registered <- handler
ImplementsRegistry == Registry!Spec

(* A handler is called only for a frame whose ready status was seen: the   *)
(* stop of the driver ends the wait early but never lets an old buffer out.*)
CallbackFrameReady == running # NULL => iready

(* While GrabPicture copies a buffer the FPGA is not writing it.           *)
GrabIntact == \A c \in Clients : At(c, "grabCopy") => filling # cbuf[c]

(* GrabPicture copies a frame exposed after its own trigger, not one left  *)
(* pending by an earlier grab (with no frame pending when the driver       *)
(* starts: an inherited one puts every later grab one frame behind).       *)
GrabFresh == \A c \in Clients : At(c, "grabCopy") => fresh[cbuf[c]]

(* The lock register shows exactly the buffers between a lockBuff and its  *)
(* unlockBuff: no lock is lost, none is left behind (in an application     *)
(* without GrabPicture(), whose caller keeps a lock it cannot give back).  *)
HeldBufs ==
    {cbuf[c] : c \in {d \in Clients :
        cpc[d] \in {"grabCopy", "grabUnlockR", "grabUnlockW"}}}
    \cup (IF ipc \in {"unlockR", "unlockW"} THEN {ibuf} ELSE {})
LocksAreHeld == lockReg = HeldBufs

(* While a handler uses the frame it was given the FPGA does not write it. *)
CallbackFrameIntact == running # NULL => filling # ibuf

(* The destructor returns, whatever the trigger mode and however few       *)
(* frames arrive.                                                          *)
DeleteReturns == obj = "closing" ~> obj = "none"

(* registerImageCallback returns if hardware triggers keep coming: the     *)
(* image thread holds the mutex while it waits for one.                    *)
TriggersKeepComing == WF_vars((\E b \in Bufs : HardExposure(b)) /\ FpgaNext)
RegisterReturns ==
    \A c \in Clients : TriggersKeepComing => (At(c, "regLock") ~> At(c, "idle"))

(* A soft-triggered GrabPicture returns.                                   *)
GrabReturns == \A c \in Clients : At(c, "grabTrigger") ~> At(c, "idle")
=============================================================================
