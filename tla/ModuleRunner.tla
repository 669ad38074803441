---------------------------- MODULE ModuleRunner ----------------------------
(***************************************************************************)
(* XiDriver's module interface (src/src/XiDriver.cpp) and the parts of     *)
(* XiImageDevice it runs on: ExecuteProcedure selects an FPGA module,      *)
(* SetInputParam and SetInputObject collect its inputs, Execute programs   *)
(* the engine and waits for it under ModueMutex, GetOutputParam and        *)
(* GetOutputObject read the results, and the destructor terminates a       *)
(* running Execute.                                                        *)
(*                                                                         *)
(* One application thread, the worker, uses the interface; another, the    *)
(* owner, creates and deletes the driver.  The owner may delete it while   *)
(* the worker is inside Execute and holds the mutex (what Terminate and    *)
(* the mutex are for), but not during another call.                        *)
(***************************************************************************)
EXTENDS Naturals

CONSTANTS
    Params,     \* names given to SetInputParam
    Values,     \* Values[p]: the values given for p
    Counts,     \* run counts the block engine can report (0x30C)
    None        \* NULL as a name

ASSUME ValueAssumption ==
    Values \in [Params -> SUBSET Nat] /\ Counts \subseteq Nat \ {0}
ASSUME NoneAssumption == None \notin Params \cup {"BlockModule", "MirrorModule"}

Modules == {"BlockModule", "MirrorModule"}

(* The members of Herror, without their prefix.                            *)
Herror == {"SUCCESS", "NOFIND_MODULE", "NAME_IS_NULL", "NOFIND_PARAM",
           "NOFIND_OBJECT", "OVERFLOW", "TERMINATE", "NOSET_THRESHVALUE"}

(* Addresses of the results in DDR: both modules write to 0x1F400000.      *)
ResultAddress == 100

VARIABLES
    engine,     \* engine[m]: "idle", "busy" or "done" (0x308, 0x40C bit 0)
    stale,      \* history: stale[m], "done" is left from before the start
    overflow,   \* bit 1 of 0x308
    count,      \* register 0x30C
    reg,        \* registers 0x304, 0x31C, 0x404, 0x408, 0x410
    device,     \* ImageDevice points to a live XiImageDevice
    devWorking, \* XiImageDeviceWorking
    name,       \* ModuleName
    inp,        \* IntPutData
    out,        \* OutPutData
    err,        \* ErrNumber
    locked,     \* ModueMutex: "free", "worker" or "owner"
    wpc,        \* worker: next step
    opc,        \* owner: next step
    given,      \* history: inputs accepted since ExecuteProcedure, <<name, value>>
    runs        \* history: counts of the runs since ExecuteProcedure

engVars == <<engine, stale, overflow, count, reg>>
drvVars == <<name, inp, out, err>>
devVars == <<device, devWorking>>
histVars == <<given, runs>>
vars == <<engVars, drvVars, devVars, histVars, locked, wpc, opc>>

InNames == {"ThreshValue", "Width", "Height", "MirrorX", "MirrorY", "InputImage"}
OutNames == {"HrunCount", "HrunOutPutBuff", "OutputImage", "OutPutImage"}

EmptyMap == [k \in {} |-> 0]

(* std::map::insert leaves the value of a key that is already there;       *)
(* operator[] adds a key that is not, with the value 0.                    *)
Insert(map, k, v) ==
    [x \in DOMAIN map \cup {k} |-> IF x \in DOMAIN map THEN map[x] ELSE v]

WorkerSteps == {"idle", "lock", "begin", "clear", "setup", "start", "wait",
                "check", "result", "unlock", "return"}
OwnerSteps == {"alive", "terminate", "clear", "lock", "unlock", "delDevice", "gone"}

TypeOK ==
    /\ engine \in [Modules -> {"idle", "busy", "done"}]
    /\ stale \in [Modules -> BOOLEAN] /\ overflow \in BOOLEAN
    /\ count \in Nat
    /\ reg \in [thr : 0..255, src : {0, 1}, mx : {0, 1}, my : {0, 1}, msrc : {0, 1}]
    /\ device \in BOOLEAN /\ devWorking \in BOOLEAN
    /\ name \in Modules \cup {""}
    /\ DOMAIN inp \subseteq InNames /\ \A k \in DOMAIN inp : inp[k] \in Nat
    /\ DOMAIN out \subseteq OutNames /\ \A k \in DOMAIN out : out[k] \in Nat
    /\ err \in Herror /\ locked \in {"free", "worker", "owner"}
    /\ wpc \in WorkerSteps /\ opc \in OwnerSteps
    /\ given \subseteq InNames \X Nat /\ runs \subseteq Nat

(* Before the driver exists; ErrNumber is never initialised.               *)
Init ==
    /\ engine = [m \in Modules |-> "idle"] /\ stale = [m \in Modules |-> FALSE]
    /\ overflow = FALSE /\ count = 0
    /\ reg = [thr |-> 0, src |-> 0, mx |-> 0, my |-> 0, msrc |-> 0]
    /\ device = FALSE /\ devWorking = FALSE
    /\ name = "" /\ inp = EmptyMap /\ out = EmptyMap
    /\ err \in Herror /\ locked = "free"
    /\ wpc = "idle" /\ opc = "gone"
    /\ given = {} /\ runs = {}

---------------------------------------------------------------------------
(* Plausible mistakes in the code below; TLC uses them to show that the    *)
(* properties at the end of this module can fail.  No action refers to     *)
(* them.                                                                   *)

(* The destructor does not wait for the mutex.                             *)
DeleteLockSkipped ==
    /\ opc = "lock"
    /\ opc' = "delDevice"
    /\ UNCHANGED <<engVars, drvVars, devVars, histVars, locked, wpc>>

(* The destructor waits for Execute before it calls Terminate: lock and    *)
(* Terminate in the wrong order.                                           *)
TerminateLate ==
    /\ opc = "terminate" /\ locked = "free"
    /\ devWorking' = FALSE
    /\ opc' = "clear"
    /\ UNCHANGED <<engVars, drvVars, device, histVars, locked, wpc>>

(* ExecuteProcedure keeps the inputs, or the results, of the procedure     *)
(* before.                                                                 *)
ProcedureKeeps(n, inputs) ==
    /\ wpc = "idle" /\ opc = "alive" /\ n \in Modules
    /\ out' = IF inputs THEN EmptyMap ELSE out
    /\ inp' = IF inputs THEN inp ELSE EmptyMap
    /\ given' = {} /\ runs' = {}
    /\ name' = n /\ err' = "SUCCESS"
    /\ UNCHANGED <<engVars, devVars, locked, wpc, opc>>
ProcedureKeepsInputs(n) == ProcedureKeeps(n, TRUE)
ProcedureKeepsResults(n) == ProcedureKeeps(n, FALSE)

(* The engine is started over a result that was not cleared.               *)
ExecuteNoClear ==
    /\ wpc = "clear"
    /\ wpc' = "setup"
    /\ UNCHANGED <<engVars, drvVars, devVars, histVars, locked, opc>>

(* The threshold is written without the conversion to uint8_t.             *)
SetupWide ==
    /\ wpc = "setup" /\ name = "BlockModule"
    /\ inp' = Insert(inp, "ThreshValue", 0)
    /\ reg' = [reg EXCEPT !.thr = inp'["ThreshValue"]]
    /\ wpc' = "start"
    /\ UNCHANGED <<engine, stale, overflow, count, name, out, err,
                   devVars, histVars, locked, opc>>

(* waitBlockModuleFinished does not look at XiImageDeviceWorking again     *)
(* after its loop.                                                         *)
CheckIgnoresTerminate ==
    /\ wpc = "check"
    /\ err' = IF name = "BlockModule" /\ overflow THEN "OVERFLOW" ELSE "SUCCESS"
    /\ wpc' = "result"
    /\ UNCHANGED <<engVars, name, inp, out, devVars, histVars, locked, opc>>

(* waitBlockModuleFinished does not look at XiImageDeviceWorking.          *)
WaitIgnoresTerminate ==
    /\ wpc = "wait"
    /\ engine[name] = "done"
    /\ wpc' = "check"
    /\ UNCHANGED <<engVars, drvVars, devVars, histVars, locked, opc>>

---------------------------------------------------------------------------
(* The engines.  They start when told to and finish when a picture comes.  *)
(* 2 in the control register clears the state, 1 starts.                   *)

WriteClear(m) ==
    /\ engine' = [engine EXCEPT ![m] = "idle"]
    /\ stale' = [stale EXCEPT ![m] = FALSE]
    /\ UNCHANGED <<overflow, count, reg>>

WriteStart(m) ==
    /\ engine' = [engine EXCEPT ![m] = IF @ = "idle" THEN "busy" ELSE @]
    /\ stale' = [stale EXCEPT ![m] = engine[m] = "done"]
    /\ UNCHANGED <<overflow, count, reg>>

EngineDone(m) ==
    /\ engine[m] = "busy"
    /\ engine' = [engine EXCEPT ![m] = "done"]
    /\ IF m = "BlockModule"
       THEN overflow' \in BOOLEAN /\ count' \in Counts
       ELSE UNCHANGED <<overflow, count>>
    /\ UNCHANGED <<stale, reg, drvVars, devVars, histVars, locked, wpc, opc>>

---------------------------------------------------------------------------
(* The owner.  The constructor starts with no module selected.             *)

New ==
    /\ opc = "gone" /\ wpc = "idle"
    /\ device' = TRUE /\ devWorking' = TRUE
    /\ name' = "" /\ inp' = EmptyMap /\ out' = EmptyMap /\ err' \in Herror
    /\ opc' = "alive"
    /\ given' = {} /\ runs' = {}
    /\ UNCHANGED <<engVars, locked, wpc>>

(* ~XiDriver: Terminate; the maps are cleared before the mutex is taken;   *)
(* taking it waits for a running Execute.                                  *)
Delete ==
    /\ opc = "alive" /\ wpc # "lock"
    /\ opc' = "terminate"
    /\ UNCHANGED <<engVars, drvVars, devVars, histVars, locked, wpc>>

Terminate ==
    /\ opc = "terminate"
    /\ devWorking' = FALSE
    /\ opc' = "clear"
    /\ UNCHANGED <<engVars, drvVars, device, histVars, locked, wpc>>

DeleteClear ==
    /\ opc = "clear"
    /\ out' = EmptyMap /\ inp' = EmptyMap
    /\ opc' = "lock"
    /\ UNCHANGED <<engVars, name, err, devVars, histVars, locked, wpc>>

DeleteLock ==
    /\ opc = "lock" /\ locked = "free"
    /\ locked' = "owner"
    /\ opc' = "unlock"
    /\ UNCHANGED <<engVars, drvVars, devVars, histVars, wpc>>

DeleteUnlock ==
    /\ opc = "unlock"
    /\ locked' = "free"
    /\ opc' = "delDevice"
    /\ UNCHANGED <<engVars, drvVars, devVars, histVars, wpc>>

(* delete ImageDevice is one step that returns: the event thread, which its *)
(* destructor joins, is module EventList's.                                *)
DeleteDevice ==
    /\ opc = "delDevice"
    /\ device' = FALSE
    /\ opc' = "gone"
    /\ UNCHANGED <<engVars, drvVars, devWorking, histVars, locked, wpc>>

---------------------------------------------------------------------------
(* The worker's calls outside Execute.  None of them takes the mutex; each *)
(* sets ErrNumber and returns it.                                          *)

Calling == wpc = "idle" /\ opc = "alive"
Return(e) == err' = e

ExecuteProcedure(n) ==
    /\ Calling
    /\ IF n = None
       THEN Return("NAME_IS_NULL") /\ UNCHANGED <<name, inp, out, histVars>>
       ELSE /\ out' = EmptyMap /\ inp' = EmptyMap
            /\ given' = {} /\ runs' = {}
            /\ IF n \in Modules THEN name' = n /\ Return("SUCCESS")
                                ELSE name' = "" /\ Return("NOFIND_MODULE")
    /\ UNCHANGED <<engVars, devVars, locked, wpc, opc>>

Accepted == IF name = "BlockModule" THEN {"ThreshValue", "Width", "Height"}
                                    ELSE {"Width", "Height", "MirrorX", "MirrorY"}

Given(k, v) ==
    /\ inp' = Insert(inp, k, v)
    /\ given' = given \cup {<<k, v>>}

SetInputParam(k, v) ==
    /\ Calling
    /\ \/ /\ k = None
          /\ Return("NAME_IS_NULL") /\ UNCHANGED <<inp, given>>
       \/ /\ k # None /\ name = ""
          /\ Return("NOFIND_MODULE") /\ UNCHANGED <<inp, given>>
       \/ /\ k # None /\ name # "" /\ k \notin Accepted
          /\ Return("NOFIND_PARAM") /\ UNCHANGED <<inp, given>>
       \/ /\ k # None /\ name # "" /\ k \in Accepted
          /\ Given(k, v) /\ Return("SUCCESS")
    /\ UNCHANGED <<engVars, name, out, devVars, runs, locked, wpc, opc>>

SetInputObject(k) ==
    /\ Calling
    /\ \/ /\ k = None
          /\ Return("NAME_IS_NULL") /\ UNCHANGED <<inp, given>>
       \/ /\ k # None /\ name = ""
          /\ Return("NOFIND_MODULE") /\ UNCHANGED <<inp, given>>
       \/ /\ k # None /\ name # "" /\ k # "InputImage"
          /\ Return("NOFIND_OBJECT") /\ UNCHANGED <<inp, given>>
       \/ /\ k = "InputImage" /\ name # ""
          /\ Given(k, 1) /\ Return("SUCCESS")
    /\ UNCHANGED <<engVars, name, out, devVars, runs, locked, wpc, opc>>

(* *pdata = OutPutData[k]: the caller gets out'[k].                        *)
Fetch(k) == out' = Insert(out, k, 0) /\ Return("SUCCESS")

GetOutput(k, known, unknownError) ==
    /\ Calling
    /\ \/ /\ k = None
          /\ Return("NAME_IS_NULL") /\ UNCHANGED out
       \/ /\ k # None /\ k \in known
          /\ Fetch(k)
       \/ /\ k # None /\ k \notin known
          /\ Return(unknownError) /\ UNCHANGED out
    /\ UNCHANGED <<engVars, name, inp, devVars, histVars, locked, wpc, opc>>

GetOutputParam(k) ==
    GetOutput(k, IF name = "BlockModule" THEN {"HrunCount"} ELSE {},
              IF name = "BlockModule" THEN "NOFIND_PARAM" ELSE "NOFIND_MODULE")

GetOutputObject(k) ==
    GetOutput(k, CASE name = "BlockModule" -> {"HrunOutPutBuff"}
                   [] name = "MirrorModule" -> {"OutPutImage"}
                   [] OTHER -> {},
              IF name = "" THEN "NOFIND_MODULE" ELSE "NOFIND_PARAM")

---------------------------------------------------------------------------
(* Execute, step by step.                                                  *)

Execute ==
    /\ Calling
    /\ wpc' = "lock"
    /\ UNCHANGED <<engVars, drvVars, devVars, histVars, locked, opc>>

ExecuteLock ==
    /\ wpc = "lock" /\ locked = "free"
    /\ locked' = "worker"
    /\ wpc' = "begin"
    /\ UNCHANGED <<engVars, drvVars, devVars, histVars, opc>>

ExecuteBegin ==
    /\ wpc = "begin"
    /\ \/ /\ name = ""
          /\ err' = "NOFIND_MODULE" /\ wpc' = "unlock"
       \/ /\ name = "BlockModule" /\ "ThreshValue" \notin DOMAIN inp
          /\ err' = "NOSET_THRESHVALUE" /\ wpc' = "unlock"
       \/ /\ \/ name = "MirrorModule"
             \/ name = "BlockModule" /\ "ThreshValue" \in DOMAIN inp
          /\ err' = "SUCCESS" /\ wpc' = "clear"
    /\ UNCHANGED <<engVars, name, inp, out, devVars, histVars, locked, opc>>

ExecuteClear ==
    /\ wpc = "clear"
    /\ WriteClear(name)
    /\ wpc' = "setup"
    /\ UNCHANGED <<drvVars, devVars, histVars, locked, opc>>

(* The picture comes from the application if all of it was given.          *)
FromSoc == IF {"InputImage", "Width", "Height"} \subseteq DOMAIN inp THEN 1 ELSE 0
Flag(k, old) == IF k \notin DOMAIN inp THEN old ELSE IF inp[k] # 0 THEN 1 ELSE 0

(* IntPutData["ThreshValue"] goes through a uint8_t.  The destructor may   *)
(* have emptied the map by now: operator[] then adds the key with 0.       *)
ExecuteSetup ==
    /\ wpc = "setup"
    /\ \/ /\ name = "BlockModule"
          /\ inp' = Insert(inp, "ThreshValue", 0)
          /\ reg' = [reg EXCEPT !.thr = inp'["ThreshValue"] % 256, !.src = FromSoc]
       \/ /\ name = "MirrorModule"
          /\ reg' = [reg EXCEPT !.mx = Flag("MirrorX", @), !.my = Flag("MirrorY", @),
                                !.msrc = FromSoc]
          /\ UNCHANGED inp
    /\ wpc' = "start"
    /\ UNCHANGED <<engine, stale, overflow, count, name, out, err,
                   devVars, histVars, locked, opc>>

ExecuteStart ==
    /\ wpc = "start"
    /\ WriteStart(name)
    /\ wpc' = "wait"
    /\ UNCHANGED <<drvVars, devVars, histVars, locked, opc>>

(* waitBlockModuleFinished, waitMirrorModuleFinished: poll until the engine*)
(* is done or the device is told to stop, then look at the latter again.   *)
ExecuteWait ==
    /\ wpc = "wait"
    /\ engine[name] = "done" \/ ~devWorking
    /\ wpc' = "check"
    /\ UNCHANGED <<engVars, drvVars, devVars, histVars, locked, opc>>

ExecuteCheck ==
    /\ wpc = "check"
    /\ \/ /\ devWorking
          /\ err' = IF name = "BlockModule" /\ overflow THEN "OVERFLOW" ELSE "SUCCESS"
          /\ wpc' = "result"
       \/ /\ ~devWorking
          /\ err' = "TERMINATE"
          /\ wpc' = IF name = "BlockModule" THEN "unlock" ELSE "result"
    /\ UNCHANGED <<engVars, name, inp, out, devVars, histVars, locked, opc>>

ExecuteResult ==
    /\ wpc = "result"
    /\ \/ /\ name = "BlockModule"
          /\ out' = Insert(Insert(out, "HrunCount", count), "HrunOutPutBuff", ResultAddress)
          /\ runs' = runs \cup {count}
       \/ /\ name = "MirrorModule"
          /\ out' = Insert(out, "OutputImage", ResultAddress)
          /\ UNCHANGED runs
    /\ wpc' = "unlock"
    /\ UNCHANGED <<engVars, name, inp, err, devVars, given, locked, opc>>

ExecuteUnlock ==
    /\ wpc = "unlock"
    /\ locked' = "free"
    /\ wpc' = "return"
    /\ UNCHANGED <<engVars, drvVars, devVars, histVars, opc>>

(* return ErrNumber, which is read after the mutex is released (the owner  *)
(* may have deleted the object by then).                                   *)
ExecuteReturn ==
    /\ wpc = "return"
    /\ wpc' = "idle"
    /\ UNCHANGED <<engVars, drvVars, devVars, histVars, locked, opc>>

---------------------------------------------------------------------------
CallNext ==
    \/ Execute
    \/ \E n \in Modules \cup {"testModule", None} : ExecuteProcedure(n)
    \/ \E k \in Params : \E v \in Values[k] : SetInputParam(k, v)
    \/ SetInputParam(None, 0)
    \/ \E k \in {"InputImage", "Width", None} : SetInputObject(k)
    \/ \E k \in {"HrunCount", "Width", None} : GetOutputParam(k)
    \/ \E k \in OutNames \cup {None} : GetOutputObject(k)

WorkerNext ==
    \/ ExecuteLock \/ ExecuteBegin \/ ExecuteClear \/ ExecuteSetup \/ ExecuteStart
    \/ ExecuteWait \/ ExecuteCheck \/ ExecuteResult \/ ExecuteUnlock \/ ExecuteReturn

OwnerNext == Terminate \/ DeleteClear \/ DeleteLock \/ DeleteUnlock \/ DeleteDevice

Next ==
    \/ CallNext \/ WorkerNext
    \/ New \/ Delete \/ OwnerNext
    \/ \E m \in Modules : EngineDone(m)

Spec == Init /\ [][Next]_vars

(* Threads are scheduled.  Nothing makes an engine finish: with pictures   *)
(* from the sensor it waits for a trigger.                                 *)
FairSpec == Spec /\ WF_vars(WorkerNext) /\ WF_vars(OwnerNext)

---------------------------------------------------------------------------
(* Properties.                                                             *)

(* The device outlives an Execute that uses it: the destructor waits for   *)
(* the mutex.                                                              *)
Executing == wpc \in WorkerSteps \ {"idle", "lock", "return"}
DeviceOutlivesExecute == Executing => device

(* The driver implements the promise of module ModuleService: one run of   *)
(* the engine for one Execute, given up only when the driver was told to   *)
(* stop, and a device that goes only when no Execute is inside.            *)
Service == INSTANCE ModuleService WITH
    alive <- device,
    stopping <- ~devWorking,
    run <- CASE wpc \in {"begin", "clear", "setup", "start"} -> "accepted"
             [] wpc \in {"wait", "check"} ->
                    IF engine[name] = "done" THEN "done" ELSE "busy"
             [] wpc \in {"result", "unlock"} -> "reported"
             [] OTHER -> "none",
    report <- IF wpc \in {"result", "unlock", "return"} THEN err ELSE ""
ImplementsService == Service!Spec

(* Execute reports a finished run only if the engine finished the run this *)
(* Execute started.                                                        *)
FinishedMeansDone ==
    (wpc \in {"result", "unlock"} /\ err \in {"SUCCESS", "OVERFLOW"})
        => engine[name] = "done" /\ ~stale[name]

(* What a run is programmed with, when it starts, was accepted by the      *)
(* driver since ExecuteProcedure: the threshold, cut to eight bits, and    *)
(* each flag that was given have a value that was given for them, and the  *)
(* source is the application exactly if all of a picture was given.  A     *)
(* name that was given once has the value it was given; what a flag that   *)
(* was not given has, and which of several values counts, FlagsAreOwn and  *)
(* ValueIsTaken ask.  (Unless the driver is being deleted, when the result *)
(* is not delivered.)                                                      *)
GivenNames == {g[1] : g \in given}
SocGiven == {"InputImage", "Width", "Height"} \subseteq GivenNames
FlagIsOwn(k, bit) ==
    k \in GivenNames => \E g \in given : g[1] = k /\ (bit = 1 <=> g[2] # 0)
InputsAreOwn ==
    (wpc = "start" /\ opc = "alive") =>
        IF name = "BlockModule"
        THEN /\ \E g \in given : g[1] = "ThreshValue" /\ reg.thr = g[2] % 256
             /\ reg.src = 1 <=> SocGiven
        ELSE /\ FlagIsOwn("MirrorX", reg.mx) /\ FlagIsOwn("MirrorY", reg.my)
             /\ reg.msrc = 1 <=> SocGiven

(* A count read with GetOutputParam is 0 (no run yet) or that of a run     *)
(* since ExecuteProcedure.                                                 *)
CountIsOwn == "HrunCount" \in DOMAIN out => out["HrunCount"] \in runs \cup {0}

(* Deleting the driver returns, even while Execute waits for a picture     *)
(* that never comes.                                                       *)
DeleteReturns == opc \notin {"alive", "gone"} ~> opc = "gone"

(* Execute returns once its engine has finished or the driver is told to   *)
(* stop.                                                                   *)
ExecuteReturns == (wpc = "wait" /\ (engine[name] = "done" \/ ~devWorking)) ~> wpc = "idle"

(* A run mirrors the picture along an axis only if its own procedure asked *)
(* for that axis.                                                          *)
FlagsAreOwn ==
    (wpc = "start" /\ opc = "alive" /\ name = "MirrorModule") =>
        /\ reg.mx = 1 => \E g \in given : g[1] = "MirrorX" /\ g[2] # 0
        /\ reg.my = 1 => \E g \in given : g[1] = "MirrorY" /\ g[2] # 0

(* An input that SetInputParam accepts is the one the next Execute takes.  *)
ValueIsTaken ==
    [][\A k \in Params : \A v \in Values[k] :
            SetInputParam(k, v) /\ err' = "SUCCESS" => inp'[k] = v]_vars

(* The result of a MirrorModule run can be read by its documented name.    *)
OutputImageReadable ==
    [][(name = "MirrorModule" /\ "OutputImage" \in DOMAIN out
            /\ GetOutputObject("OutputImage")) => err' = "SUCCESS"]_vars

(* A count read after a run is that of the latest run.                     *)
CountIsLatest ==
    [][(name = "BlockModule" /\ engine[name] = "done" /\ runs # {}
            /\ GetOutputParam("HrunCount")) => out'["HrunCount"] = count]_vars
=============================================================================
