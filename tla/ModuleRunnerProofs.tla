------------------------- MODULE ModuleRunnerProofs -------------------------
(***************************************************************************)
(* What TLAPS proves about ModuleRunner for any inputs and any counts:     *)
(* that the device outlives an Execute, that a run reported as finished    *)
(* has finished, that a count is one of the procedure's own, that a run is *)
(* programmed with the procedure's own inputs, and the types.              *)
(***************************************************************************)
EXTENDS ModuleRunner, TLAPS

---------------------------------------------------------------------------
(* The destructor against Execute.                                         *)

(* The mutex is owned exactly inside the two critical sections.            *)
OwnerInv ==
    /\ locked = "worker" <=> Executing
    /\ locked = "owner" <=> opc = "unlock"

(* The object exists while its owner has not deleted it; no call starts    *)
(* once the destructor has, and past the mutex none is in progress.        *)
LifeInv ==
    /\ device <=> opc # "gone"
    /\ wpc \in WorkerSteps /\ opc \in OwnerSteps
    /\ opc # "alive" => wpc # "lock"
    /\ opc \in {"unlock", "delDevice", "gone"} => ~Executing
    /\ device \in BOOLEAN

DeleteInv == OwnerInv /\ LifeInv

(* Every step keeps the owner of the mutex and the life of the device.     *)
THEOREM DeleteInvariant == Spec => []DeleteInv
<1>. USE DEF DeleteInv, OwnerInv, LifeInv, Executing, WorkerSteps, OwnerSteps,
             engVars, drvVars, devVars, histVars
<1>1. Init => DeleteInv
  BY DEF Init
<1>2. DeleteInv /\ [Next]_vars => DeleteInv'
  <2>. SUFFICES ASSUME DeleteInv, [Next]_vars PROVE DeleteInv'
    OBVIOUS
  <2>1. CASE Execute
    BY <2>1 DEF Execute, Calling
  <2>2. ASSUME NEW n \in Modules \cup {"testModule", None}, ExecuteProcedure(n)
         PROVE  DeleteInv'
    BY <2>2 DEF ExecuteProcedure, Calling, Return
  <2>3. ASSUME NEW k \in Params, NEW v \in Values[k], SetInputParam(k, v)
         PROVE  DeleteInv'
    BY <2>3 DEF SetInputParam, Calling, Return, Given, Accepted
  <2>4. CASE SetInputParam(None, 0)
    BY <2>4 DEF SetInputParam, Calling, Return, Given, Accepted
  <2>5. ASSUME NEW k \in {"InputImage", "Width", None}, SetInputObject(k)
         PROVE  DeleteInv'
    BY <2>5 DEF SetInputObject, Calling, Return, Given
  <2>6. ASSUME NEW k \in {"HrunCount", "Width", None}, GetOutputParam(k)
         PROVE  DeleteInv'
    BY <2>6 DEF GetOutputParam, GetOutput, Calling, Return, Fetch
  <2>7. ASSUME NEW k \in OutNames \cup {None}, GetOutputObject(k)
         PROVE  DeleteInv'
    BY <2>7 DEF GetOutputObject, GetOutput, Calling, Return, Fetch
  <2>8. CASE ExecuteLock
    BY <2>8 DEF ExecuteLock
  <2>9. CASE ExecuteBegin
    BY <2>9 DEF ExecuteBegin
  <2>10. CASE ExecuteClear
    BY <2>10 DEF ExecuteClear, WriteClear
  <2>11. CASE ExecuteSetup
    BY <2>11 DEF ExecuteSetup
  <2>12. CASE ExecuteStart
    BY <2>12 DEF ExecuteStart, WriteStart
  <2>13. CASE ExecuteWait
    BY <2>13 DEF ExecuteWait
  <2>14. CASE ExecuteCheck
    BY <2>14 DEF ExecuteCheck
  <2>15. CASE ExecuteResult
    BY <2>15 DEF ExecuteResult
  <2>16. CASE ExecuteUnlock
    BY <2>16 DEF ExecuteUnlock
  <2>17. CASE ExecuteReturn
    BY <2>17 DEF ExecuteReturn
  <2>18. CASE New
    BY <2>18 DEF New
  <2>19. CASE Delete
    BY <2>19 DEF Delete
  <2>20. CASE Terminate
    BY <2>20 DEF Terminate
  <2>21. CASE DeleteClear
    BY <2>21 DEF DeleteClear
  <2>22. CASE DeleteLock
    BY <2>22 DEF DeleteLock
  <2>23. CASE DeleteUnlock
    BY <2>23 DEF DeleteUnlock
  <2>24. CASE DeleteDevice
    BY <2>24 DEF DeleteDevice
  <2>25. ASSUME NEW m \in Modules, EngineDone(m) PROVE DeleteInv'
    BY <2>25 DEF EngineDone
  <2>26. CASE UNCHANGED vars
    BY <2>26 DEF vars
  <2>. QED
    BY <2>1, <2>2, <2>3, <2>4, <2>5, <2>6, <2>7, <2>8, <2>9, <2>10, <2>11,
       <2>12, <2>13, <2>14, <2>15, <2>16, <2>17, <2>18, <2>19, <2>20,
       <2>21, <2>22, <2>23, <2>24, <2>25, <2>26
       DEF Next, CallNext, WorkerNext, OwnerNext
<1>. QED
  BY <1>1, <1>2, PTL DEF Spec

(* The device outlives an Execute that uses it: the destructor does not get *)
(* past the mutex while one is in progress.                                *)
THEOREM DeviceOutlivesExecuteHolds == Spec => []DeviceOutlivesExecute
<1>1. DeleteInv => DeviceOutlivesExecute
  BY DEF DeleteInv, OwnerInv, LifeInv, DeviceOutlivesExecute
<1>. QED
  BY <1>1, DeleteInvariant, PTL

---------------------------------------------------------------------------
(* A run from the clearing of the engine to its result.                    *)

EngineType ==
    /\ engine \in [Modules -> {"idle", "busy", "done"}]
    /\ stale \in [Modules -> BOOLEAN]
    /\ devWorking \in BOOLEAN

(* A cleared engine is idle until it is started; from then on it runs or   *)
(* has finished this run; the wait ends with the engine done, or with the  *)
(* device told to stop, which it stays until the driver is gone.           *)
RunInv ==
    /\ wpc \in {"clear", "setup", "start", "wait", "check", "result"}
           => name \in Modules
    /\ wpc \in {"setup", "start"} => engine[name] = "idle" /\ ~stale[name]
    /\ wpc \in {"wait", "check"} => engine[name] # "idle" /\ ~stale[name]
    /\ wpc = "check" => engine[name] = "done" \/ ~devWorking
    /\ FinishedMeansDone

ExecuteInv == EngineType /\ RunInv

(* Every step keeps what is known of the engine in each step of Execute.   *)
THEOREM ExecuteInvariant == Spec => []ExecuteInv
<1>. USE DEF ExecuteInv, EngineType, RunInv, FinishedMeansDone, Modules,
             engVars, drvVars, devVars, histVars
<1>1. Init => ExecuteInv
  BY DEF Init
<1>2. ExecuteInv /\ [Next]_vars => ExecuteInv'
  <2>. SUFFICES ASSUME ExecuteInv, [Next]_vars PROVE ExecuteInv'
    OBVIOUS
  <2>1. CASE Execute
    BY <2>1 DEF Execute, Calling
  <2>2. ASSUME NEW n \in Modules \cup {"testModule", None}, ExecuteProcedure(n)
         PROVE  ExecuteInv'
    BY <2>2 DEF ExecuteProcedure, Calling, Return
  <2>3. ASSUME NEW k \in Params, NEW v \in Values[k], SetInputParam(k, v)
         PROVE  ExecuteInv'
    BY <2>3 DEF SetInputParam, Calling, Return, Given, Accepted
  <2>4. CASE SetInputParam(None, 0)
    BY <2>4 DEF SetInputParam, Calling, Return, Given, Accepted
  <2>5. ASSUME NEW k \in {"InputImage", "Width", None}, SetInputObject(k)
         PROVE  ExecuteInv'
    BY <2>5 DEF SetInputObject, Calling, Return, Given
  <2>6. ASSUME NEW k \in {"HrunCount", "Width", None}, GetOutputParam(k)
         PROVE  ExecuteInv'
    BY <2>6 DEF GetOutputParam, GetOutput, Calling, Return, Fetch
  <2>7. ASSUME NEW k \in OutNames \cup {None}, GetOutputObject(k)
         PROVE  ExecuteInv'
    BY <2>7 DEF GetOutputObject, GetOutput, Calling, Return, Fetch
  <2>8. CASE ExecuteLock
    BY <2>8 DEF ExecuteLock
  <2>9. CASE ExecuteBegin
    BY <2>9 DEF ExecuteBegin
  <2>10. CASE ExecuteClear
    BY <2>10 DEF ExecuteClear, WriteClear
  <2>11. CASE ExecuteSetup
    BY <2>11 DEF ExecuteSetup
  <2>12. CASE ExecuteStart
    BY <2>12 DEF ExecuteStart, WriteStart
  <2>13. CASE ExecuteWait
    BY <2>13 DEF ExecuteWait
  <2>14. CASE ExecuteCheck
    BY <2>14 DEF ExecuteCheck
  <2>15. CASE ExecuteResult
    BY <2>15 DEF ExecuteResult
  <2>16. CASE ExecuteUnlock
    BY <2>16 DEF ExecuteUnlock
  <2>17. CASE ExecuteReturn
    BY <2>17 DEF ExecuteReturn
  <2>18. CASE New
    BY <2>18 DEF New
  <2>19. CASE Delete
    BY <2>19 DEF Delete
  <2>20. CASE Terminate
    BY <2>20 DEF Terminate
  <2>21. CASE DeleteClear
    BY <2>21 DEF DeleteClear
  <2>22. CASE DeleteLock
    BY <2>22 DEF DeleteLock
  <2>23. CASE DeleteUnlock
    BY <2>23 DEF DeleteUnlock
  <2>24. CASE DeleteDevice
    BY <2>24 DEF DeleteDevice
  <2>25. ASSUME NEW m \in Modules, EngineDone(m) PROVE ExecuteInv'
    BY <2>25 DEF EngineDone
  <2>26. CASE UNCHANGED vars
    BY <2>26 DEF vars
  <2>. QED
    BY <2>1, <2>2, <2>3, <2>4, <2>5, <2>6, <2>7, <2>8, <2>9, <2>10, <2>11,
       <2>12, <2>13, <2>14, <2>15, <2>16, <2>17, <2>18, <2>19, <2>20,
       <2>21, <2>22, <2>23, <2>24, <2>25, <2>26
       DEF Next, CallNext, WorkerNext, OwnerNext
<1>. QED
  BY <1>1, <1>2, PTL DEF Spec

(* Execute reports a finished run only if the engine finished the run this *)
(* Execute started.                                                        *)
THEOREM FinishedMeansDoneHolds == Spec => []FinishedMeansDone
<1>1. ExecuteInv => FinishedMeansDone
  BY DEF ExecuteInv, RunInv
<1>. QED
  BY <1>1, ExecuteInvariant, PTL

---------------------------------------------------------------------------
(* The promise of module ModuleService.                                    *)

(* The destructor is past Terminate, and the worker is outside Execute,    *)
(* with the device told to stop.  Before the first object there is none.   *)
StopInv ==
    /\ devWorking \in BOOLEAN
    /\ opc \in {"clear", "lock", "unlock", "delDevice", "gone"} => ~devWorking

(* Every step keeps the device stopped from Terminate to the next object.  *)
THEOREM StopInvariant == Spec => []StopInv
<1>. USE DEF StopInv, engVars, drvVars, devVars, histVars
<1>1. Init => StopInv
  BY DEF Init
<1>2. StopInv /\ [Next]_vars => StopInv'
  <2>. SUFFICES ASSUME StopInv, [Next]_vars PROVE StopInv'
    OBVIOUS
  <2>1. CASE Execute
    BY <2>1 DEF Execute, Calling
  <2>2. ASSUME NEW n \in Modules \cup {"testModule", None}, ExecuteProcedure(n)
         PROVE  StopInv'
    BY <2>2 DEF ExecuteProcedure, Calling, Return
  <2>3. ASSUME NEW k \in Params, NEW v \in Values[k], SetInputParam(k, v)
         PROVE  StopInv'
    BY <2>3 DEF SetInputParam, Calling, Return, Given, Accepted
  <2>4. CASE SetInputParam(None, 0)
    BY <2>4 DEF SetInputParam, Calling, Return, Given, Accepted
  <2>5. ASSUME NEW k \in {"InputImage", "Width", None}, SetInputObject(k)
         PROVE  StopInv'
    BY <2>5 DEF SetInputObject, Calling, Return, Given
  <2>6. ASSUME NEW k \in {"HrunCount", "Width", None}, GetOutputParam(k)
         PROVE  StopInv'
    BY <2>6 DEF GetOutputParam, GetOutput, Calling, Return, Fetch
  <2>7. ASSUME NEW k \in OutNames \cup {None}, GetOutputObject(k)
         PROVE  StopInv'
    BY <2>7 DEF GetOutputObject, GetOutput, Calling, Return, Fetch
  <2>8. CASE ExecuteLock
    BY <2>8 DEF ExecuteLock
  <2>9. CASE ExecuteBegin
    BY <2>9 DEF ExecuteBegin
  <2>10. CASE ExecuteClear
    BY <2>10 DEF ExecuteClear
  <2>11. CASE ExecuteSetup
    BY <2>11 DEF ExecuteSetup
  <2>12. CASE ExecuteStart
    BY <2>12 DEF ExecuteStart
  <2>13. CASE ExecuteWait
    BY <2>13 DEF ExecuteWait
  <2>14. CASE ExecuteCheck
    BY <2>14 DEF ExecuteCheck
  <2>15. CASE ExecuteResult
    BY <2>15 DEF ExecuteResult
  <2>16. CASE ExecuteUnlock
    BY <2>16 DEF ExecuteUnlock
  <2>17. CASE ExecuteReturn
    BY <2>17 DEF ExecuteReturn
  <2>18. CASE New
    BY <2>18 DEF New
  <2>19. CASE Delete
    BY <2>19 DEF Delete
  <2>20. CASE Terminate
    BY <2>20 DEF Terminate
  <2>21. CASE DeleteClear
    BY <2>21 DEF DeleteClear
  <2>22. CASE DeleteLock
    BY <2>22 DEF DeleteLock
  <2>23. CASE DeleteUnlock
    BY <2>23 DEF DeleteUnlock
  <2>24. CASE DeleteDevice
    BY <2>24 DEF DeleteDevice
  <2>25. ASSUME NEW m \in Modules, EngineDone(m)
         PROVE  StopInv'
    BY <2>25 DEF EngineDone
  <2>26. CASE UNCHANGED vars
    BY <2>26 DEF vars
  <2>. QED
    BY <2>1, <2>2, <2>3, <2>4, <2>5, <2>6, <2>7, <2>8, <2>9, <2>10, <2>11,
       <2>12, <2>13, <2>14, <2>15, <2>16, <2>17, <2>18, <2>19, <2>20,
       <2>21, <2>22, <2>23, <2>24, <2>25, <2>26
       DEF Next, CallNext, WorkerNext, OwnerNext
<1>. QED
  BY <1>1, <1>2, PTL DEF Spec

(* The steps of Execute as those of the promise: taking the mutex accepts  *)
(* the call, the start of the engine starts its run, the last look at      *)
(* devWorking reports it, and giving the mutex back leaves the driver.     *)
THEOREM RefinesService == Spec => ImplementsService
<1>1. Init => Service!Init
  BY DEF Init, Service!Init
<1>2. DeleteInv /\ ExecuteInv /\ StopInv /\ [Next]_vars => [Service!Next]_(Service!vars)
  <2>. SUFFICES ASSUME DeleteInv, ExecuteInv, StopInv, [Next]_vars
                PROVE  [Service!Next]_(Service!vars)
    OBVIOUS
  <2>. USE DEF Service!vars, engVars, drvVars, devVars, histVars
  <2>1. CASE Execute
    BY <2>1 DEF Execute, Calling
  <2>2. ASSUME NEW n \in Modules \cup {"testModule", None}, ExecuteProcedure(n)
         PROVE  [Service!Next]_(Service!vars)
    BY <2>2 DEF ExecuteProcedure, Calling, Return
  <2>3. ASSUME NEW k \in Params, NEW v \in Values[k], SetInputParam(k, v)
         PROVE  [Service!Next]_(Service!vars)
    BY <2>3 DEF SetInputParam, Calling, Return, Given, Accepted
  <2>4. CASE SetInputParam(None, 0)
    BY <2>4 DEF SetInputParam, Calling, Return, Given, Accepted
  <2>5. ASSUME NEW k \in {"InputImage", "Width", None}, SetInputObject(k)
         PROVE  [Service!Next]_(Service!vars)
    BY <2>5 DEF SetInputObject, Calling, Return, Given
  <2>6. ASSUME NEW k \in {"HrunCount", "Width", None}, GetOutputParam(k)
         PROVE  [Service!Next]_(Service!vars)
    BY <2>6 DEF GetOutputParam, GetOutput, Calling, Return, Fetch
  <2>7. ASSUME NEW k \in OutNames \cup {None}, GetOutputObject(k)
         PROVE  [Service!Next]_(Service!vars)
    BY <2>7 DEF GetOutputObject, GetOutput, Calling, Return, Fetch
  <2>8. CASE ExecuteLock
    BY <2>8 DEF ExecuteLock, Service!Next, Service!Accept, DeleteInv, OwnerInv, LifeInv, Executing, WorkerSteps, OwnerSteps
  <2>9. CASE ExecuteBegin
    BY <2>9 DEF ExecuteBegin, Service!Next, Service!Refuse, Service!Refusals
  <2>10. CASE ExecuteClear
    BY <2>10 DEF ExecuteClear
  <2>11. CASE ExecuteSetup
    BY <2>11 DEF ExecuteSetup
  <2>12. CASE ExecuteStart
    BY <2>12 DEF ExecuteStart, WriteStart, Service!Next, Service!Start, ExecuteInv, RunInv, EngineType
  <2>13. CASE ExecuteWait
    BY <2>13 DEF ExecuteWait
  <2>14. CASE ExecuteCheck
    BY <2>14 DEF ExecuteCheck, Service!Next, Service!Report, Service!GiveUp,
       Service!Outcomes, ExecuteInv, RunInv, EngineType
  <2>15. CASE ExecuteResult
    BY <2>15 DEF ExecuteResult
  <2>16. CASE ExecuteUnlock
    BY <2>16 DEF ExecuteUnlock, Service!Next, Service!Leave
  <2>17. CASE ExecuteReturn
    BY <2>17 DEF ExecuteReturn, Service!Next, Service!Return
  <2>18. CASE New
    BY <2>18 DEF New, Service!Next, Service!Create, DeleteInv, OwnerInv, LifeInv, Executing, WorkerSteps, OwnerSteps
  <2>19. CASE Delete
    BY <2>19 DEF Delete
  <2>20. CASE Terminate
    BY <2>20 DEF Terminate, Service!Next, Service!Stop, DeleteInv, OwnerInv, LifeInv, Executing, WorkerSteps, OwnerSteps
  <2>21. CASE DeleteClear
    BY <2>21 DEF DeleteClear
  <2>22. CASE DeleteLock
    BY <2>22 DEF DeleteLock
  <2>23. CASE DeleteUnlock
    BY <2>23 DEF DeleteUnlock
  <2>24. CASE DeleteDevice
    BY <2>24 DEF DeleteDevice, Service!Next, Service!Destroy, DeleteInv, OwnerInv, LifeInv, Executing, WorkerSteps, OwnerSteps, StopInv
  <2>25. ASSUME NEW m \in Modules, EngineDone(m)
         PROVE  [Service!Next]_(Service!vars)
    BY <2>25 DEF EngineDone, Service!Next, Service!Finish, ExecuteInv, RunInv, EngineType
  <2>26. CASE UNCHANGED vars
    BY <2>26 DEF vars
  <2>. QED
    BY <2>1, <2>2, <2>3, <2>4, <2>5, <2>6, <2>7, <2>8, <2>9, <2>10, <2>11,
       <2>12, <2>13, <2>14, <2>15, <2>16, <2>17, <2>18, <2>19, <2>20,
       <2>21, <2>22, <2>23, <2>24, <2>25, <2>26
       DEF Next, CallNext, WorkerNext, OwnerNext
<1>. QED
  BY <1>1, <1>2, DeleteInvariant, ExecuteInvariant, StopInvariant, PTL
     DEF Spec, ImplementsService, Service!Spec

---------------------------------------------------------------------------
(* The results.                                                            *)

(* Insert gives the new key a value, the old one if it has one, and leaves *)
(* the others alone.                                                       *)
LEMMA InsertValue ==
    ASSUME NEW map, NEW k, NEW v, NEW x
    PROVE  /\ x \in DOMAIN Insert(map, k, v) <=> x \in DOMAIN map \/ x = k
           /\ x \in DOMAIN map => Insert(map, k, v)[x] = map[x]
           /\ x \notin DOMAIN map /\ x = k => Insert(map, k, v)[x] = v
BY DEF Insert

(* Reading a result that is not there adds it with the value 0.            *)
LEMMA FetchKeeps ==
    ASSUME NEW k, CountIsOwn, runs' = runs, out' = out \/ out' = Insert(out, k, 0)
    PROVE  CountIsOwn'
<1>1. CASE out' = out
  BY <1>1 DEF CountIsOwn
<1>2. CASE out' = Insert(out, k, 0)
  BY <1>2, InsertValue DEF CountIsOwn
<1>. QED
  BY <1>1, <1>2

(* Every step keeps the count of the procedure's own runs: a new procedure *)
(* empties the map and the runs together.                                  *)
THEOREM CountIsOwnHolds == Spec => []CountIsOwn
<1>. USE DEF CountIsOwn, EmptyMap, engVars, drvVars, devVars, histVars
<1>1. Init => CountIsOwn
  BY DEF Init
<1>2. CountIsOwn /\ [Next]_vars => CountIsOwn'
  <2>. SUFFICES ASSUME CountIsOwn, [Next]_vars PROVE CountIsOwn'
    OBVIOUS
  <2>1. CASE Execute
    BY <2>1 DEF Execute, Calling
  <2>2. ASSUME NEW n \in Modules \cup {"testModule", None}, ExecuteProcedure(n)
         PROVE  CountIsOwn'
    BY <2>2 DEF ExecuteProcedure, Calling, Return
  <2>3. ASSUME NEW k \in Params, NEW v \in Values[k], SetInputParam(k, v)
         PROVE  CountIsOwn'
    BY <2>3 DEF SetInputParam, Calling, Return, Given, Accepted
  <2>4. CASE SetInputParam(None, 0)
    BY <2>4 DEF SetInputParam, Calling, Return, Given, Accepted
  <2>5. ASSUME NEW k \in {"InputImage", "Width", None}, SetInputObject(k)
         PROVE  CountIsOwn'
    BY <2>5 DEF SetInputObject, Calling, Return, Given
  <2>6. ASSUME NEW k \in {"HrunCount", "Width", None}, GetOutputParam(k)
         PROVE  CountIsOwn'
    <3>1. runs' = runs /\ (out' = out \/ out' = Insert(out, k, 0))
      BY <2>6 DEF GetOutputParam, GetOutputObject, GetOutput, Fetch
    <3>. QED
      BY <3>1, FetchKeeps
  <2>7. ASSUME NEW k \in OutNames \cup {None}, GetOutputObject(k)
         PROVE  CountIsOwn'
    <3>1. runs' = runs /\ (out' = out \/ out' = Insert(out, k, 0))
      BY <2>7 DEF GetOutputParam, GetOutputObject, GetOutput, Fetch
    <3>. QED
      BY <3>1, FetchKeeps
  <2>8. CASE ExecuteLock
    BY <2>8 DEF ExecuteLock
  <2>9. CASE ExecuteBegin
    BY <2>9 DEF ExecuteBegin
  <2>10. CASE ExecuteClear
    BY <2>10 DEF ExecuteClear, WriteClear
  <2>11. CASE ExecuteSetup
    BY <2>11 DEF ExecuteSetup
  <2>12. CASE ExecuteStart
    BY <2>12 DEF ExecuteStart, WriteStart
  <2>13. CASE ExecuteWait
    BY <2>13 DEF ExecuteWait
  <2>14. CASE ExecuteCheck
    BY <2>14 DEF ExecuteCheck
  <2>15. CASE ExecuteResult
    <3>1. CASE name = "BlockModule"
      <4>. DEFINE mid == Insert(out, "HrunCount", count)
      <4>1. /\ out' = Insert(mid, "HrunOutPutBuff", ResultAddress)
            /\ runs' = runs \cup {count}
        BY <2>15, <3>1 DEF ExecuteResult
      <4>2. /\ "HrunCount" \in DOMAIN mid
            /\ mid["HrunCount"] \in runs \cup {0, count}
        BY InsertValue
      <4>3. out'["HrunCount"] = mid["HrunCount"]
        BY <4>1, <4>2, InsertValue
      <4>. QED
        BY <4>1, <4>2, <4>3
    <3>2. CASE name = "MirrorModule"
      <4>1. out' = Insert(out, "OutputImage", ResultAddress) /\ runs' = runs
        BY <2>15, <3>2 DEF ExecuteResult
      <4>2. /\ "HrunCount" \in DOMAIN out' => "HrunCount" \in DOMAIN out
            /\ "HrunCount" \in DOMAIN out => out'["HrunCount"] = out["HrunCount"]
        BY <4>1, InsertValue
      <4>. QED
        BY <4>1, <4>2
    <3>. QED
      BY <2>15, <3>1, <3>2 DEF ExecuteResult
  <2>16. CASE ExecuteUnlock
    BY <2>16 DEF ExecuteUnlock
  <2>17. CASE ExecuteReturn
    BY <2>17 DEF ExecuteReturn
  <2>18. CASE New
    BY <2>18 DEF New
  <2>19. CASE Delete
    BY <2>19 DEF Delete
  <2>20. CASE Terminate
    BY <2>20 DEF Terminate
  <2>21. CASE DeleteClear
    BY <2>21 DEF DeleteClear
  <2>22. CASE DeleteLock
    BY <2>22 DEF DeleteLock
  <2>23. CASE DeleteUnlock
    BY <2>23 DEF DeleteUnlock
  <2>24. CASE DeleteDevice
    BY <2>24 DEF DeleteDevice
  <2>25. ASSUME NEW m \in Modules, EngineDone(m) PROVE CountIsOwn'
    BY <2>25 DEF EngineDone
  <2>26. CASE UNCHANGED vars
    BY <2>26 DEF vars
  <2>. QED
    BY <2>1, <2>2, <2>3, <2>4, <2>5, <2>6, <2>7, <2>8, <2>9, <2>10, <2>11,
       <2>12, <2>13, <2>14, <2>15, <2>16, <2>17, <2>18, <2>19, <2>20,
       <2>21, <2>22, <2>23, <2>24, <2>25, <2>26
       DEF Next, CallNext, WorkerNext, OwnerNext
<1>. QED
  BY <1>1, <1>2, PTL DEF Spec

---------------------------------------------------------------------------
(* The inputs.                                                             *)

Registers == [thr : 0..255, src : {0, 1}, mx : {0, 1}, my : {0, 1}, msrc : {0, 1}]

(* Until the driver is deleted the map has an entry exactly for the names  *)
(* given since the module was selected, each with a value given for it; so *)
(* the threshold Execute found there is one of its own, and the registers  *)
(* are programmed from it.                                                 *)
InputInv ==
    /\ reg \in Registers
    /\ \A k \in DOMAIN inp : inp[k] \in Nat
    /\ opc = "alive" => /\ DOMAIN inp = GivenNames
                        /\ \A k \in DOMAIN inp : <<k, inp[k]>> \in given
    /\ wpc \in {"clear", "setup", "start"} => name \in Modules
    /\ (wpc \in {"clear", "setup", "start"} /\ opc = "alive" /\ name = "BlockModule")
           => "ThreshValue" \in GivenNames
    /\ InputsAreOwn

(* The names given, with one more, and with none.                          *)
LEMMA NamesWith ==
    ASSUME NEW k, NEW v, given' = given \cup {<<k, v>>}
    PROVE  GivenNames' = GivenNames \cup {k}
<1>1. \A g \in given' : g \in given \/ g[1] = k
  OBVIOUS
<1>2. <<k, v>> \in given' /\ <<k, v>>[1] = k
  OBVIOUS
<1>3. given \subseteq given'
  OBVIOUS
<1>. QED
  BY ONLY <1>1, <1>2, <1>3 DEF GivenNames

LEMMA NoNames == given' = {} => GivenNames' = {}
BY DEF GivenNames

(* An input more, given outside Execute.                                   *)
LEMMA GivenKeeps ==
    ASSUME NEW k, NEW v \in Nat, InputInv, wpc = "idle", Given(k, v),
           reg' = reg, wpc' = wpc, opc' = opc, name' = name
    PROVE  InputInv'
<1>1. \A x \in DOMAIN inp' : inp'[x] \in Nat
  BY InsertValue DEF Given, InputInv
<1>2. DOMAIN inp' = DOMAIN inp \cup {k}
  BY DEF Given, Insert
<1>3. GivenNames' = GivenNames \cup {k}
  BY NamesWith DEF Given
<1>4. ASSUME opc = "alive", NEW x \in DOMAIN inp'
      PROVE  <<x, inp'[x]>> \in given'
  <2>1. CASE x \in DOMAIN inp
    <3>1. inp'[x] = inp[x]
      BY <1>2, <2>1 DEF Given, Insert
    <3>. QED
      BY <1>4, <2>1, <3>1 DEF Given, InputInv
  <2>2. CASE x \notin DOMAIN inp
    <3>1. x = k /\ inp'[x] = v
      BY <1>2, <2>2 DEF Given, Insert
    <3>. QED
      BY <3>1 DEF Given
  <2>. QED
    BY <2>1, <2>2
<1>. QED
  BY <1>1, <1>2, <1>3, <1>4 DEF InputInv, InputsAreOwn

(* The inputs and the registers stay, no run comes nearer to its start     *)
(* without its threshold, and the driver does not come back.               *)
LEMMA InputsStay ==
    ASSUME InputInv, UNCHANGED <<inp, given, reg, name>>,
           opc' = "alive" => opc = "alive",
           wpc' = "start" => wpc = "start",
           wpc' \in {"clear", "setup", "start"} =>
               /\ name \in Modules
               /\ (opc = "alive" /\ name = "BlockModule") => "ThreshValue" \in GivenNames
    PROVE  InputInv'
<1>1. GivenNames' = GivenNames
  BY DEF GivenNames
<1>. QED
  BY <1>1 DEF InputInv, InputsAreOwn, SocGiven, FlagIsOwn

(* The same when the worker keeps its place or leaves the preparation.     *)
LEMMA InputsRest ==
    ASSUME InputInv, UNCHANGED <<inp, given, reg, name>>,
           opc' = "alive" => opc = "alive",
           wpc' = wpc \/ wpc' \notin {"clear", "setup", "start"}
    PROVE  InputInv'
<1>1. wpc' = "start" => wpc = "start"
  OBVIOUS
<1>2. wpc' \in {"clear", "setup", "start"} =>
          /\ name \in Modules
          /\ (opc = "alive" /\ name = "BlockModule") => "ThreshValue" \in GivenNames
  BY DEF InputInv
<1>. QED
  BY <1>1, <1>2, InputsStay

(* Every step keeps the inputs and the registers made of them the selected *)
(* procedure's own.                                                        *)
THEOREM InputInvariant == Spec => []InputInv
<1>. USE DEF Modules, engVars, drvVars, devVars, histVars
<1>1. Init => InputInv
  <2>. SUFFICES ASSUME Init PROVE InputInv
    OBVIOUS
  <2>1. reg \in Registers
    <3>1. reg = [thr |-> 0, src |-> 0, mx |-> 0, my |-> 0, msrc |-> 0]
      BY DEF Init
    <3>. QED
      BY ONLY <3>1 DEF Registers
  <2>2. DOMAIN inp = {} /\ opc = "gone" /\ wpc = "idle"
    BY DEF Init, EmptyMap
  <2>. QED
    BY <2>1, <2>2 DEF InputInv, InputsAreOwn
<1>2. InputInv /\ [Next]_vars => InputInv'
  <2>. SUFFICES ASSUME InputInv, [Next]_vars PROVE InputInv'
    OBVIOUS
  <2>1. CASE Execute
    BY <2>1, InputsRest DEF Execute, Calling
  <2>2. ASSUME NEW n \in Modules \cup {"testModule", None}, ExecuteProcedure(n)
         PROVE  InputInv'
    <3>1. wpc' = wpc /\ opc' = opc /\ reg' = reg /\ wpc = "idle"
      BY <2>2 DEF ExecuteProcedure, Calling
    <3>2. CASE n = None
      BY <2>2, <3>1, <3>2, InputsRest DEF ExecuteProcedure
    <3>3. CASE n # None
      <4>1. DOMAIN inp' = {} /\ GivenNames' = {}
        BY <2>2, <3>3, NoNames DEF ExecuteProcedure, EmptyMap
      <4>. QED
        BY <3>1, <4>1 DEF InputInv, InputsAreOwn
    <3>. QED
      BY <3>2, <3>3
  <2>3. ASSUME NEW k \in Params, NEW v \in Values[k], SetInputParam(k, v)
         PROVE  InputInv'
    <3>1. v \in Nat
      BY ValueAssumption
    <3>2. \/ Given(k, v) \/ UNCHANGED <<inp, given>>
      BY <2>3 DEF SetInputParam
    <3>3. wpc = "idle" /\ UNCHANGED <<reg, wpc, opc, name>>
      BY <2>3 DEF SetInputParam, Calling
    <3>. QED
      BY <3>1, <3>2, <3>3, GivenKeeps, InputsRest
  <2>4. CASE SetInputParam(None, 0)
    BY <2>4, InputsRest DEF SetInputParam, Calling
  <2>5. ASSUME NEW k \in {"InputImage", "Width", None}, SetInputObject(k)
         PROVE  InputInv'
    <3>1. \/ Given(k, 1) \/ UNCHANGED <<inp, given>>
      BY <2>5 DEF SetInputObject
    <3>2. wpc = "idle" /\ UNCHANGED <<reg, wpc, opc, name>>
      BY <2>5 DEF SetInputObject, Calling
    <3>. QED
      BY <3>1, <3>2, GivenKeeps, InputsRest
  <2>6. ASSUME NEW k \in {"HrunCount", "Width", None}, GetOutputParam(k)
         PROVE  InputInv'
    BY <2>6, InputsRest DEF GetOutputParam, GetOutput
  <2>7. ASSUME NEW k \in OutNames \cup {None}, GetOutputObject(k)
         PROVE  InputInv'
    BY <2>7, InputsRest DEF GetOutputObject, GetOutput
  <2>8. CASE ExecuteLock
    BY <2>8, InputsRest DEF ExecuteLock
  <2>9. CASE ExecuteBegin
    <3>1. wpc' # "start" /\ opc' = opc /\ UNCHANGED <<inp, given, reg, name>>
      BY <2>9 DEF ExecuteBegin
    <3>2. wpc' = "clear" =>
              /\ name \in Modules
              /\ name = "BlockModule" => "ThreshValue" \in DOMAIN inp
      BY <2>9 DEF ExecuteBegin
    <3>3. opc = "alive" => DOMAIN inp = GivenNames
      BY DEF InputInv
    <3>4. wpc' \in {"clear", "unlock"}
      BY <2>9 DEF ExecuteBegin
    <3>5. wpc' \in {"clear", "setup", "start"} =>
              /\ name \in Modules
              /\ (opc = "alive" /\ name = "BlockModule") => "ThreshValue" \in GivenNames
      BY <3>2, <3>3, <3>4
    <3>6. opc' = "alive" => opc = "alive"
      BY <3>1
    <3>. QED
      BY <3>1, <3>5, <3>6, InputsStay
  <2>10. CASE ExecuteClear
    <3>1. /\ wpc = "clear" /\ wpc' = "setup" /\ opc' = opc
          /\ UNCHANGED <<inp, given, reg, name>>
      BY <2>10 DEF ExecuteClear, WriteClear
    <3>2. /\ name \in Modules
          /\ (opc = "alive" /\ name = "BlockModule") => "ThreshValue" \in GivenNames
      BY <3>1 DEF InputInv
    <3>. QED
      BY <3>1, <3>2, InputsStay
  <2>11. CASE ExecuteSetup
    <3>1. FromSoc \in {0, 1}
      BY DEF FromSoc
    <3>2. /\ wpc = "setup" /\ wpc' = "start"
          /\ opc' = opc /\ UNCHANGED <<given, name>>
      BY <2>11 DEF ExecuteSetup
    <3>3. GivenNames' = GivenNames
      BY <3>2 DEF GivenNames
    <3>4. ASSUME opc = "alive"
          PROVE  /\ DOMAIN inp = GivenNames
                 /\ \A k \in GivenNames : <<k, inp[k]>> \in given
                 /\ name = "BlockModule" => "ThreshValue" \in GivenNames
                 /\ FromSoc = 1 <=> SocGiven'
      BY <3>2, <3>3, <3>4 DEF InputInv, FromSoc, SocGiven
    <3>5. CASE name = "BlockModule"
      <4>. DEFINE t == inp'["ThreshValue"] % 256
      <4>1. inp' = Insert(inp, "ThreshValue", 0)
        BY <2>11, <3>5 DEF ExecuteSetup
      <4>2. /\ "ThreshValue" \in DOMAIN inp'
            /\ \A x \in DOMAIN inp' : inp'[x] \in Nat
        BY <4>1, InsertValue DEF Insert, InputInv
      <4>3. ASSUME opc = "alive"
            PROVE  /\ "ThreshValue" \in DOMAIN inp
                   /\ DOMAIN inp' = GivenNames
                   /\ \A x \in GivenNames : inp'[x] = inp[x]
        <5>1. "ThreshValue" \in DOMAIN inp
          BY <3>4, <3>5, <4>3
        <5>. QED
          BY <3>4, <4>1, <4>3, <5>1 DEF Insert
      <4>4. t \in 0..255
        BY <4>2
      <4>5. opc = "alive" => \E g \in given : g[1] = "ThreshValue" /\ t = g[2] % 256
        <5>. SUFFICES ASSUME opc = "alive"
                      PROVE  \E g \in given : g[1] = "ThreshValue" /\ t = g[2] % 256
          OBVIOUS
        <5>1. <<"ThreshValue", inp["ThreshValue"]>> \in given
          BY <3>4, <3>5
        <5>2. inp'["ThreshValue"] = inp["ThreshValue"]
          BY <3>4, <3>5, <4>3
        <5>. QED
          BY <5>1, <5>2
      <4>. HIDE DEF t
      <4>6. reg' = [reg EXCEPT !.thr = t, !.src = FromSoc]
        BY <2>11, <3>5 DEF ExecuteSetup, t
      <4>7. reg' \in Registers /\ reg'.thr = t /\ reg'.src = FromSoc
        <5>1. reg \in Registers
          BY DEF InputInv
        <5>. QED
          BY ONLY <3>1, <4>4, <4>6, <5>1 DEF Registers
      <4>8. InputsAreOwn'
        BY <3>2, <3>4, <3>5, <4>5, <4>7 DEF InputsAreOwn
      <4>. QED
        BY <3>2, <3>3, <3>4, <3>5, <4>2, <4>3, <4>7, <4>8 DEF InputInv
    <3>6. CASE name = "MirrorModule"
      <4>. DEFINE x == Flag("MirrorX", reg.mx)
                  y == Flag("MirrorY", reg.my)
      <4>1. reg \in Registers /\ reg.mx \in {0, 1} /\ reg.my \in {0, 1}
        BY DEF Registers, InputInv
      <4>2. x \in {0, 1} /\ y \in {0, 1}
        BY <4>1 DEF Flag
      <4>3. ASSUME opc = "alive"
            PROVE  FlagIsOwn("MirrorX", x) /\ FlagIsOwn("MirrorY", y)
        <5>1. \A k \in GivenNames : <<k, inp[k]>> \in given
          BY <3>4, <4>3
        <5>2. /\ "MirrorX" \in GivenNames => (x = 1 <=> inp["MirrorX"] # 0)
              /\ "MirrorY" \in GivenNames => (y = 1 <=> inp["MirrorY"] # 0)
          BY <3>4, <4>3 DEF Flag
        <5>. QED
          BY <5>1, <5>2 DEF FlagIsOwn
      <4>4. inp' = inp /\ reg' = [reg EXCEPT !.mx = x, !.my = y, !.msrc = FromSoc]
        BY <2>11, <3>6 DEF ExecuteSetup
      <4>. HIDE DEF x, y
      <4>5. /\ reg' \in Registers
            /\ reg'.mx = x /\ reg'.my = y /\ reg'.msrc = FromSoc
        BY ONLY <3>1, <4>1, <4>2, <4>4 DEF Registers
      <4>6. InputsAreOwn'
        BY <3>2, <3>3, <3>4, <3>6, <4>3, <4>5 DEF InputsAreOwn, FlagIsOwn
      <4>. QED
        BY <3>2, <3>3, <3>4, <3>6, <4>4, <4>5, <4>6 DEF InputInv
    <3>. QED
      BY <2>11, <3>5, <3>6 DEF ExecuteSetup
  <2>12. CASE ExecuteStart
    BY <2>12, InputsRest DEF ExecuteStart, WriteStart
  <2>13. CASE ExecuteWait
    BY <2>13, InputsRest DEF ExecuteWait
  <2>14. CASE ExecuteCheck
    BY <2>14, InputsRest DEF ExecuteCheck
  <2>15. CASE ExecuteResult
    BY <2>15, InputsRest DEF ExecuteResult
  <2>16. CASE ExecuteUnlock
    BY <2>16, InputsRest DEF ExecuteUnlock
  <2>17. CASE ExecuteReturn
    BY <2>17, InputsRest DEF ExecuteReturn
  <2>18. CASE New
    <3>1. DOMAIN inp' = {} /\ GivenNames' = {}
      BY <2>18, NoNames DEF New, EmptyMap
    <3>2. wpc' = "idle" /\ reg' = reg
      BY <2>18 DEF New
    <3>. QED
      BY <3>1, <3>2 DEF InputInv, InputsAreOwn
  <2>19. CASE Delete
    BY <2>19, InputsRest DEF Delete
  <2>20. CASE Terminate
    BY <2>20, InputsRest DEF Terminate
  <2>21. CASE DeleteClear
    <3>1. /\ DOMAIN inp' = {} /\ opc' = "lock" /\ opc = "clear"
          /\ UNCHANGED <<given, reg, name, wpc>>
      BY <2>21 DEF DeleteClear, EmptyMap
    <3>. QED
      BY <3>1 DEF InputInv, InputsAreOwn
  <2>22. CASE DeleteLock
    BY <2>22, InputsRest DEF DeleteLock
  <2>23. CASE DeleteUnlock
    BY <2>23, InputsRest DEF DeleteUnlock
  <2>24. CASE DeleteDevice
    BY <2>24, InputsRest DEF DeleteDevice
  <2>25. ASSUME NEW m \in Modules, EngineDone(m) PROVE InputInv'
    BY <2>25, InputsRest DEF EngineDone
  <2>26. CASE UNCHANGED vars
    BY <2>26, InputsRest DEF vars
  <2>. QED
    BY <2>1, <2>2, <2>3, <2>4, <2>5, <2>6, <2>7, <2>8, <2>9, <2>10, <2>11,
       <2>12, <2>13, <2>14, <2>15, <2>16, <2>17, <2>18, <2>19, <2>20,
       <2>21, <2>22, <2>23, <2>24, <2>25, <2>26
       DEF Next, CallNext, WorkerNext, OwnerNext
<1>. QED
  BY <1>1, <1>2, PTL DEF Spec

(* A run is programmed with the inputs set since ExecuteProcedure.         *)
THEOREM InputsAreOwnHolds == Spec => []InputsAreOwn
<1>1. InputInv => InputsAreOwn
  BY DEF InputInv
<1>. QED
  BY <1>1, InputInvariant, PTL

---------------------------------------------------------------------------
(* The types.                                                              *)

ScalarType ==
    /\ overflow \in BOOLEAN /\ count \in Nat
    /\ name \in Modules \cup {""} /\ err \in Herror
    /\ locked \in {"free", "worker", "owner"}

(* Every step keeps the scalars in their types.                            *)
THEOREM ScalarTypeHolds == Spec => []ScalarType
<1>. USE ValueAssumption
     DEF ScalarType, Herror, Modules, engVars, drvVars, devVars, histVars
<1>1. Init => ScalarType
  <2>. SUFFICES ASSUME Init PROVE ScalarType
    OBVIOUS
  <2>1. count = 0 /\ name = "" /\ overflow = FALSE
    BY DEF Init
  <2>2. err \in Herror /\ locked = "free"
    BY DEF Init
  <2>. QED
    BY <2>1, <2>2
<1>2. ScalarType /\ [Next]_vars => ScalarType'
  <2>. SUFFICES ASSUME ScalarType, [Next]_vars PROVE ScalarType'
    OBVIOUS
  <2>1. CASE Execute
    BY <2>1 DEF Execute, Calling
  <2>2. ASSUME NEW n \in Modules \cup {"testModule", None}, ExecuteProcedure(n)
         PROVE  ScalarType'
    BY <2>2 DEF ExecuteProcedure, Calling, Return
  <2>3. ASSUME NEW k \in Params, NEW v \in Values[k], SetInputParam(k, v)
         PROVE  ScalarType'
    BY <2>3 DEF SetInputParam, Calling, Return, Given, Accepted
  <2>4. CASE SetInputParam(None, 0)
    BY <2>4 DEF SetInputParam, Calling, Return, Given, Accepted
  <2>5. ASSUME NEW k \in {"InputImage", "Width", None}, SetInputObject(k)
         PROVE  ScalarType'
    BY <2>5 DEF SetInputObject, Calling, Return, Given
  <2>6. ASSUME NEW k \in {"HrunCount", "Width", None}, GetOutputParam(k)
         PROVE  ScalarType'
    BY <2>6 DEF GetOutputParam, GetOutput, Calling, Return, Fetch
  <2>7. ASSUME NEW k \in OutNames \cup {None}, GetOutputObject(k)
         PROVE  ScalarType'
    BY <2>7 DEF GetOutputObject, GetOutput, Calling, Return, Fetch
  <2>8. CASE ExecuteLock
    BY <2>8 DEF ExecuteLock
  <2>9. CASE ExecuteBegin
    BY <2>9 DEF ExecuteBegin
  <2>10. CASE ExecuteClear
    BY <2>10 DEF ExecuteClear, WriteClear
  <2>11. CASE ExecuteSetup
    <3>1. UNCHANGED <<overflow, count, name, err, locked>>
      BY <2>11 DEF ExecuteSetup
    <3>. QED
      BY <3>1
  <2>12. CASE ExecuteStart
    BY <2>12 DEF ExecuteStart, WriteStart
  <2>13. CASE ExecuteWait
    BY <2>13 DEF ExecuteWait
  <2>14. CASE ExecuteCheck
    BY <2>14 DEF ExecuteCheck
  <2>15. CASE ExecuteResult
    BY <2>15 DEF ExecuteResult
  <2>16. CASE ExecuteUnlock
    BY <2>16 DEF ExecuteUnlock
  <2>17. CASE ExecuteReturn
    BY <2>17 DEF ExecuteReturn
  <2>18. CASE New
    BY <2>18 DEF New
  <2>19. CASE Delete
    BY <2>19 DEF Delete
  <2>20. CASE Terminate
    BY <2>20 DEF Terminate
  <2>21. CASE DeleteClear
    BY <2>21 DEF DeleteClear
  <2>22. CASE DeleteLock
    BY <2>22 DEF DeleteLock
  <2>23. CASE DeleteUnlock
    BY <2>23 DEF DeleteUnlock
  <2>24. CASE DeleteDevice
    BY <2>24 DEF DeleteDevice
  <2>25. ASSUME NEW m \in Modules, EngineDone(m) PROVE ScalarType'
    BY <2>25 DEF EngineDone
  <2>26. CASE UNCHANGED vars
    BY <2>26 DEF vars
  <2>. QED
    BY <2>1, <2>2, <2>3, <2>4, <2>5, <2>6, <2>7, <2>8, <2>9, <2>10, <2>11,
       <2>12, <2>13, <2>14, <2>15, <2>16, <2>17, <2>18, <2>19, <2>20,
       <2>21, <2>22, <2>23, <2>24, <2>25, <2>26
       DEF Next, CallNext, WorkerNext, OwnerNext
<1>. QED
  BY <1>1, <1>2, PTL DEF Spec

(* A map with keys of S and numbers.                                       *)
MapOf(S, map) == DOMAIN map \subseteq S /\ \A k \in DOMAIN map : map[k] \in Nat

(* It stays one with an entry more.                                        *)
LEMMA InsertType ==
    ASSUME NEW S, NEW map, NEW k \in S, NEW v \in Nat, MapOf(S, map)
    PROVE  MapOf(S, Insert(map, k, v))
BY DEF Insert, MapOf

MapType ==
    /\ MapOf(InNames, inp) /\ MapOf(OutNames, out)
    /\ given \subseteq InNames \X Nat /\ runs \subseteq Nat

(* Every step keeps the maps: known names, with numbers.                   *)
THEOREM MapTypeHolds == Spec => []MapType
<1>. USE ValueAssumption DEF MapType, engVars, drvVars, devVars, histVars
<1>0. \A S : MapOf(S, EmptyMap)
  BY DEF MapOf, EmptyMap
<1>1. Init => MapType
  BY <1>0 DEF Init
<1>2. MapType /\ ScalarType /\ [Next]_vars => MapType'
  <2>. SUFFICES ASSUME MapType, ScalarType, [Next]_vars PROVE MapType'
    OBVIOUS
  <2>1. CASE Execute
    BY <2>1, <1>0 DEF Execute, Calling
  <2>2. ASSUME NEW n \in Modules \cup {"testModule", None}, ExecuteProcedure(n)
         PROVE  MapType'
    BY <2>2, <1>0 DEF ExecuteProcedure, Calling, Return
  <2>3. ASSUME NEW k \in Params, NEW v \in Values[k], SetInputParam(k, v)
         PROVE  MapType'
    <3>1. v \in Nat
      OBVIOUS
    <3>2. \/ Given(k, v) /\ k \in InNames
          \/ UNCHANGED <<inp, given>>
      BY <2>3 DEF SetInputParam, Accepted, InNames
    <3>3. UNCHANGED <<out, runs>>
      BY <2>3 DEF SetInputParam
    <3>. QED
      BY <3>1, <3>2, <3>3, InsertType DEF Given
  <2>4. CASE SetInputParam(None, 0)
    BY <2>4, <1>0 DEF SetInputParam, Calling, Return, Given, Accepted
  <2>5. ASSUME NEW k \in {"InputImage", "Width", None}, SetInputObject(k)
         PROVE  MapType'
    <3>1. \/ Given(k, 1) /\ k \in InNames
          \/ UNCHANGED <<inp, given>>
      BY <2>5 DEF SetInputObject, InNames
    <3>2. UNCHANGED <<out, runs>>
      BY <2>5 DEF SetInputObject
    <3>. QED
      BY <3>1, <3>2, InsertType DEF Given
  <2>6. ASSUME NEW k \in {"HrunCount", "Width", None}, GetOutputParam(k)
         PROVE  MapType'
    <3>1. (out' = Insert(out, k, 0) /\ k \in OutNames) \/ out' = out
      BY <2>6 DEF GetOutputParam, GetOutput, Fetch, OutNames
    <3>2. UNCHANGED <<inp, given, runs>>
      BY <2>6 DEF GetOutputParam, GetOutput
    <3>. QED
      BY <3>1, <3>2, InsertType
  <2>7. ASSUME NEW k \in OutNames \cup {None}, GetOutputObject(k)
         PROVE  MapType'
    <3>1. (out' = Insert(out, k, 0) /\ k \in OutNames) \/ out' = out
      BY <2>7 DEF GetOutputObject, GetOutput, Fetch, OutNames
    <3>2. UNCHANGED <<inp, given, runs>>
      BY <2>7 DEF GetOutputObject, GetOutput
    <3>. QED
      BY <3>1, <3>2, InsertType
  <2>8. CASE ExecuteLock
    BY <2>8, <1>0 DEF ExecuteLock
  <2>9. CASE ExecuteBegin
    BY <2>9, <1>0 DEF ExecuteBegin
  <2>10. CASE ExecuteClear
    BY <2>10, <1>0 DEF ExecuteClear, WriteClear
  <2>11. CASE ExecuteSetup
    <3>1. \/ inp' = Insert(inp, "ThreshValue", 0) /\ "ThreshValue" \in InNames
          \/ inp' = inp
      BY <2>11 DEF ExecuteSetup, InNames
    <3>2. UNCHANGED <<out, given, runs>>
      BY <2>11 DEF ExecuteSetup
    <3>. QED
      BY <3>1, <3>2, InsertType
  <2>12. CASE ExecuteStart
    BY <2>12, <1>0 DEF ExecuteStart, WriteStart
  <2>13. CASE ExecuteWait
    BY <2>13, <1>0 DEF ExecuteWait
  <2>14. CASE ExecuteCheck
    BY <2>14, <1>0 DEF ExecuteCheck
  <2>15. CASE ExecuteResult
    <3>1. CASE name = "BlockModule"
      <4>. DEFINE mid == Insert(out, "HrunCount", count)
      <4>1. out' = Insert(mid, "HrunOutPutBuff", ResultAddress)
        BY <2>15, <3>1 DEF ExecuteResult
      <4>2. count \in Nat /\ ResultAddress \in Nat
        BY DEF ScalarType, ResultAddress
      <4>. "HrunCount" \in OutNames /\ "HrunOutPutBuff" \in OutNames
        BY DEF OutNames
      <4>3. MapOf(OutNames, mid)
        BY <4>2, InsertType
      <4>. HIDE DEF mid
      <4>4. MapOf(OutNames, out')
        BY <4>1, <4>2, <4>3, InsertType
      <4>5. runs' \subseteq Nat /\ UNCHANGED <<inp, given>>
        BY <2>15, <3>1, <4>2 DEF ExecuteResult
      <4>. QED
        BY <4>4, <4>5
    <3>2. CASE name = "MirrorModule"
      <4>1. out' = Insert(out, "OutputImage", ResultAddress)
        BY <2>15, <3>2 DEF ExecuteResult
      <4>. "OutputImage" \in OutNames /\ ResultAddress \in Nat
        BY DEF OutNames, ResultAddress
      <4>2. UNCHANGED <<inp, given, runs>>
        BY <2>15, <3>2 DEF ExecuteResult
      <4>. QED
        BY <4>1, <4>2, InsertType
    <3>. QED
      BY <2>15, <3>1, <3>2 DEF ExecuteResult
  <2>16. CASE ExecuteUnlock
    BY <2>16, <1>0 DEF ExecuteUnlock
  <2>17. CASE ExecuteReturn
    BY <2>17, <1>0 DEF ExecuteReturn
  <2>18. CASE New
    BY <2>18, <1>0 DEF New
  <2>19. CASE Delete
    BY <2>19, <1>0 DEF Delete
  <2>20. CASE Terminate
    BY <2>20, <1>0 DEF Terminate
  <2>21. CASE DeleteClear
    BY <2>21, <1>0 DEF DeleteClear
  <2>22. CASE DeleteLock
    BY <2>22, <1>0 DEF DeleteLock
  <2>23. CASE DeleteUnlock
    BY <2>23, <1>0 DEF DeleteUnlock
  <2>24. CASE DeleteDevice
    BY <2>24, <1>0 DEF DeleteDevice
  <2>25. ASSUME NEW m \in Modules, EngineDone(m) PROVE MapType'
    BY <2>25, <1>0 DEF EngineDone
  <2>26. CASE UNCHANGED vars
    BY <2>26, <1>0 DEF vars
  <2>. QED
    BY <2>1, <2>2, <2>3, <2>4, <2>5, <2>6, <2>7, <2>8, <2>9, <2>10, <2>11,
       <2>12, <2>13, <2>14, <2>15, <2>16, <2>17, <2>18, <2>19, <2>20,
       <2>21, <2>22, <2>23, <2>24, <2>25, <2>26
       DEF Next, CallNext, WorkerNext, OwnerNext
<1>. QED
  BY <1>1, <1>2, ScalarTypeHolds, PTL DEF Spec

(* Type correctness.                                                       *)
THEOREM TypeOKHolds == Spec => []TypeOK
<1>1. /\ EngineType /\ ScalarType /\ MapType
      /\ LifeInv /\ reg \in Registers
      => TypeOK
  BY DEF EngineType, ScalarType, MapType, MapOf, LifeInv, Registers, TypeOK
<1>2. ExecuteInv => EngineType
  BY DEF ExecuteInv
<1>3. DeleteInv => LifeInv
  BY DEF DeleteInv
<1>4. InputInv => reg \in Registers
  BY DEF InputInv
<1>. QED
  BY <1>1, <1>2, <1>3, <1>4, ExecuteInvariant, DeleteInvariant, InputInvariant,
     ScalarTypeHolds, MapTypeHolds, PTL
=============================================================================
