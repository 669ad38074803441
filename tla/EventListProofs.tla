-------------------------- MODULE EventListProofs --------------------------
(***************************************************************************)
(* What TLAPS proves about EventList for any number of clients, callbacks  *)
(* and events: the type invariant, that the list does not change under the *)
(* iterator of the event thread, and that the event thread has ended when  *)
(* the picture driver its events read is deleted; and, if one application  *)
(* thread uses the block module, that a result which is reported belongs   *)
(* to the latest start of the engine and is not overwritten while it is    *)
(* read.  Two such threads can both pass the check of isBlockModuleWorking.*)
(***************************************************************************)
EXTENDS EventList, TLAPS

USE DEF At, Goto, Begin

(* A client on its way to addEvent carries an event with a callback.       *)
EventReady == \A c \in Clients :
    cpc[c] \in {"enClear", "enStart", "enBusy", "addLock", "addPush"} => fun[c] \in Nodes

TypeInv == TypeOK /\ EventReady

(* Every step keeps the types, and the list holds events with a callback.  *)
THEOREM TypeCorrect == Spec => []TypeInv
<1>. USE DEF TypeInv, TypeOK, EventReady, Nodes, NoCall, EventSteps, ClientSteps,
             blobVars, listVars, devVars, evtVars, cliVars
<1>1. Init => TypeInv
  <2>. SUFFICES ASSUME Init PROVE TypeInv
    OBVIOUS
  <2>1. /\ overflow \in BOOLEAN /\ stale \in BOOLEAN /\ picture \in BOOLEAN
        /\ busy \in BOOLEAN /\ status \in BOOLEAN
    BY Zenon DEF Init
  <2>. QED
    BY <2>1 DEF Init
<1>2. TypeInv /\ [Next]_vars => TypeInv'
  <2>. SUFFICES ASSUME TypeInv, [Next]_vars PROVE TypeInv'
    OBVIOUS
  <2>1. CASE BlobDone
    BY <2>1 DEF BlobDone
  <2>2. CASE EventStart
    BY <2>2 DEF EventStart
  <2>3. CASE EventTest
    BY <2>3 DEF EventTest
  <2>4. CASE EventLock
    BY <2>4 DEF EventLock
  <2>5. CASE EventScan
    BY <2>5 DEF EventScan
  <2>6. CASE EventExec
    BY <2>6 DEF EventExec
  <2>7. CASE EventReturn
    <3>1. status' \in BOOLEAN
      BY <2>7, Zenon DEF EventReturn
    <3>. QED
      BY <2>7, <3>1 DEF EventReturn
  <2>8. CASE EventClear
    <3>1. overflow' \in BOOLEAN
      BY <2>8, Zenon DEF EventClear, WriteClear
    <3>2. stale' \in BOOLEAN
      BY <2>8, Zenon DEF EventClear, WriteClear
    <3>. QED
      BY <2>8, <3>1, <3>2 DEF EventClear, WriteClear
  <2>9. CASE EventRearm
    <3>1. stale' \in BOOLEAN
      BY <2>9, Zenon DEF EventRearm, WriteStart
    <3>. QED
      BY <2>9, <3>1 DEF EventRearm, WriteStart
  <2>10. CASE EventUnlock
    BY <2>10 DEF EventUnlock
  <2>11. ASSUME NEW c \in Clients, New(c) PROVE TypeInv'
    BY <2>11 DEF New
  <2>12. ASSUME NEW c \in Clients, Delete(c) PROVE TypeInv'
    BY <2>12 DEF Delete
  <2>13. ASSUME NEW c \in Clients, Block(c) PROVE TypeInv'
    BY <2>13, SMTT(20) DEF Block
  <2>14. ASSUME NEW c \in Clients, BlockWait(c) PROVE TypeInv'
    <3>1. cpc' = cpc \/ cpc' = [cpc EXCEPT ![c] = "syncClear"]
      BY <2>14, Zenon DEF BlockWait
    <3>2. UNCHANGED <<blobVars, listVars, devVars, evtVars, fun>>
      BY <2>14, Zenon DEF BlockWait
    <3>. QED
      BY <3>1, <3>2
  <2>15. ASSUME NEW c \in Clients, AddModule(c) PROVE TypeInv'
    BY <2>15 DEF AddModule
  <2>16. ASSUME NEW c \in Clients, AddLock(c) PROVE TypeInv'
    BY <2>16 DEF AddLock
  <2>17. ASSUME NEW c \in Clients, NewList(c) PROVE TypeInv'
    BY <2>17 DEF NewList
  <2>18. ASSUME NEW c \in Clients, NewFlags(c) PROVE TypeInv'
    <3>1. busy' \in BOOLEAN
      BY <2>18, Zenon DEF NewFlags
    <3>. QED
      BY <2>18, <3>1 DEF NewFlags
  <2>19. ASSUME NEW c \in Clients, Stop(c) PROVE TypeInv'
    <3>1. workThread' \in BOOLEAN
      BY <2>19, Zenon DEF Stop
    <3>. QED
      BY <2>19, <3>1 DEF Stop
  <2>20. ASSUME NEW c \in Clients, Join(c) PROVE TypeInv'
    BY <2>20 DEF Join
  <2>21. ASSUME NEW c \in Clients, DeletePicture(c) PROVE TypeInv'
    <3>1. picture' \in BOOLEAN
      BY <2>21, Zenon DEF DeletePicture
    <3>. QED
      BY <2>21, <3>1 DEF DeletePicture
  <2>22. ASSUME NEW c \in Clients, EnableClear(c) PROVE TypeInv'
    <3>1. overflow' \in BOOLEAN
      BY <2>22, Zenon DEF EnableClear, WriteClear
    <3>2. stale' \in BOOLEAN
      BY <2>22, Zenon DEF EnableClear, WriteClear
    <3>. QED
      BY <2>22, <3>1, <3>2 DEF EnableClear, WriteClear
  <2>23. ASSUME NEW c \in Clients, EnableStart(c) PROVE TypeInv'
    <3>1. stale' \in BOOLEAN
      BY <2>23, Zenon DEF EnableStart, WriteStart
    <3>2. blob' \in {"idle", "busy", "done"}
      BY <2>23 DEF EnableStart, WriteStart
    <3>3. cpc' \in [Clients -> ClientSteps] /\ EventReady'
      BY <2>23 DEF EnableStart
    <3>. QED
      BY <2>23, <3>1, <3>2, <3>3 DEF EnableStart, WriteStart
  <2>24. ASSUME NEW c \in Clients, EnableBusy(c) PROVE TypeInv'
    BY <2>24 DEF EnableBusy
  <2>25. ASSUME NEW c \in Clients, AddPush(c) PROVE TypeInv'
    BY <2>25 DEF AddPush
  <2>26. ASSUME NEW c \in Clients, AddUnlock(c) PROVE TypeInv'
    BY <2>26 DEF AddUnlock
  <2>27. ASSUME NEW c \in Clients, SyncPoll(c) PROVE TypeInv'
    BY <2>27 DEF SyncPoll
  <2>28. ASSUME NEW c \in Clients, SyncResult(c) PROVE TypeInv'
    <3>1. busy' \in BOOLEAN
      BY <2>28, Zenon DEF SyncResult
    <3>. QED
      BY <2>28, <3>1 DEF SyncResult
  <2>29. CASE UNCHANGED vars
    BY <2>29 DEF vars
  <2>. QED
    BY <2>1, <2>2, <2>3, <2>4, <2>5, <2>6, <2>7, <2>8, <2>9, <2>10,
       <2>11, <2>12, <2>13, <2>14, <2>15, <2>16, <2>17, <2>18, <2>19,
       <2>20, <2>21, <2>22, <2>23, <2>24, <2>25, <2>26, <2>27, <2>28,
       <2>29
       DEF Next, EventNext, CallNext, StepNext
<1>. QED
  BY <1>1, <1>2, PTL DEF Spec

(* Every variable has its type in every reachable state.                   *)
THEOREM TypeOKHolds == Spec => []TypeOK
<1>1. TypeInv => TypeOK
  BY DEF TypeInv
<1>. QED
  BY <1>1, TypeCorrect, PTL

---------------------------------------------------------------------------
(* NodeMutex is held exactly by the thread between its lock and unlock.    *)
OwnerInv ==
    /\ owner = Event <=> Scanning
    /\ \A c \in Clients : owner = c <=> cpc[c] \in {"addPush", "addUnlock"}

(* The life of the device: constructor and destructor run alone, and the   *)
(* event thread lives inside the life of the picture driver.               *)
Constructing(c) == cpc[c] \in {"newList", "newFlags"}
Destructing(c) == cpc[c] \in {"stop", "join", "delPicture"}
LifeInv ==
    /\ picture <=> obj # "none"
    /\ obj = "none" => epc \in {"none", "end"}
    /\ \A c \in Clients :
        /\ Constructing(c) => obj = "starting"
        /\ Destructing(c) => obj = "closing"
        /\ cpc[c] = "delPicture" => epc = "end"
        /\ cpc[c] = "newList" => epc \in {"none", "end"}
        /\ cpc[c] # "idle" => \/ obj = "live"
                             \/ /\ Constructing(c) \/ Destructing(c)
                                /\ \A d \in Clients \ {c} : cpc[d] = "idle"

SafeInv == OwnerInv /\ LifeInv

(* Both parts of SafeInv hold in every reachable state.                    *)
THEOREM SafetyInvariant == Spec => []SafeInv
<1>. USE DEF SafeInv, OwnerInv, LifeInv, Scanning, Constructing, Destructing
<1>1. Init => SafeInv
  BY ThreadAssumption DEF Init
<1>2. TypeInv /\ SafeInv /\ [Next]_vars => SafeInv'
  <2>. SUFFICES ASSUME TypeInv, SafeInv, [Next]_vars PROVE SafeInv'
    OBVIOUS
  <2>. USE ThreadAssumption DEF TypeInv, TypeOK, EventSteps, ClientSteps,
           blobVars, listVars, devVars, evtVars, cliVars
  <2>1. CASE BlobDone
    BY <2>1 DEF BlobDone
  <2>2. CASE EventStart
    BY <2>2 DEF EventStart
  <2>3. CASE EventTest
    BY <2>3 DEF EventTest
  <2>4. CASE EventLock
    BY <2>4 DEF EventLock
  <2>5. CASE EventScan
    BY <2>5 DEF EventScan
  <2>6. CASE EventExec
    BY <2>6 DEF EventExec
  <2>7. CASE EventReturn
    BY <2>7 DEF EventReturn
  <2>8. CASE EventClear
    BY <2>8 DEF EventClear, WriteClear
  <2>9. CASE EventRearm
    BY <2>9 DEF EventRearm, WriteStart
  <2>10. CASE EventUnlock
    BY <2>10 DEF EventUnlock
  <2>11. ASSUME NEW c \in Clients, New(c) PROVE SafeInv'
    BY <2>11 DEF New
  <2>12. ASSUME NEW c \in Clients, Delete(c) PROVE SafeInv'
    BY <2>12 DEF Delete
  <2>13. ASSUME NEW c \in Clients, Block(c) PROVE SafeInv'
    BY <2>13 DEF Block
  <2>14. ASSUME NEW c \in Clients, BlockWait(c) PROVE SafeInv'
    BY <2>14 DEF BlockWait
  <2>15. ASSUME NEW c \in Clients, AddModule(c) PROVE SafeInv'
    BY <2>15 DEF AddModule
  <2>16. ASSUME NEW c \in Clients, AddLock(c) PROVE SafeInv'
    BY <2>16 DEF AddLock
  <2>17. ASSUME NEW c \in Clients, NewList(c) PROVE SafeInv'
    BY <2>17 DEF NewList
  <2>18. ASSUME NEW c \in Clients, NewFlags(c) PROVE SafeInv'
    BY <2>18 DEF NewFlags
  <2>19. ASSUME NEW c \in Clients, Stop(c) PROVE SafeInv'
    BY <2>19 DEF Stop
  <2>20. ASSUME NEW c \in Clients, Join(c) PROVE SafeInv'
    BY <2>20 DEF Join
  <2>21. ASSUME NEW c \in Clients, DeletePicture(c) PROVE SafeInv'
    BY <2>21 DEF DeletePicture
  <2>22. ASSUME NEW c \in Clients, EnableClear(c) PROVE SafeInv'
    BY <2>22 DEF EnableClear, WriteClear
  <2>23. ASSUME NEW c \in Clients, EnableStart(c) PROVE SafeInv'
    BY <2>23 DEF EnableStart, WriteStart
  <2>24. ASSUME NEW c \in Clients, EnableBusy(c) PROVE SafeInv'
    BY <2>24 DEF EnableBusy
  <2>25. ASSUME NEW c \in Clients, AddPush(c) PROVE SafeInv'
    BY <2>25 DEF AddPush
  <2>26. ASSUME NEW c \in Clients, AddUnlock(c) PROVE SafeInv'
    BY <2>26 DEF AddUnlock
  <2>27. ASSUME NEW c \in Clients, SyncPoll(c) PROVE SafeInv'
    BY <2>27 DEF SyncPoll
  <2>28. ASSUME NEW c \in Clients, SyncResult(c) PROVE SafeInv'
    BY <2>28 DEF SyncResult
  <2>29. CASE UNCHANGED vars
    BY <2>29 DEF vars
  <2>. QED
    BY <2>1, <2>2, <2>3, <2>4, <2>5, <2>6, <2>7, <2>8, <2>9, <2>10,
       <2>11, <2>12, <2>13, <2>14, <2>15, <2>16, <2>17, <2>18, <2>19,
       <2>20, <2>21, <2>22, <2>23, <2>24, <2>25, <2>26, <2>27, <2>28,
       <2>29
       DEF Next, EventNext, CallNext, StepNext
<1>. QED
  BY <1>1, <1>2, TypeCorrect, PTL DEF Spec

(* The event thread has ended when the picture driver is deleted.          *)
THEOREM EventUsesLiveDriverHolds == Spec => []EventUsesLiveDriver
<1>1. SafeInv => EventUsesLiveDriver
  BY DEF SafeInv, LifeInv, EventUsesLiveDriver
<1>. QED
  BY <1>1, SafetyInvariant, PTL

---------------------------------------------------------------------------
(* No step changes the list while the event thread walks it.               *)
THEOREM ListStableWhileScannedHolds == Spec => ListStableWhileScanned
<1>1. TypeInv /\ SafeInv /\ [Next]_vars => [Scanning => nodes' = nodes]_vars
  <2>. SUFFICES ASSUME TypeInv, SafeInv, Next, Scanning PROVE nodes' = nodes
    BY DEF vars
  <2>. USE ThreadAssumption DEF SafeInv, OwnerInv, LifeInv, Scanning,
           blobVars, listVars, devVars, evtVars, cliVars
  <2>1. CASE BlobDone
    BY <2>1 DEF BlobDone
  <2>2. CASE EventStart
    BY <2>2 DEF EventStart
  <2>3. CASE EventTest
    BY <2>3 DEF EventTest
  <2>4. CASE EventLock
    BY <2>4 DEF EventLock
  <2>5. CASE EventScan
    BY <2>5 DEF EventScan
  <2>6. CASE EventExec
    BY <2>6 DEF EventExec
  <2>7. CASE EventReturn
    BY <2>7 DEF EventReturn
  <2>8. CASE EventClear
    BY <2>8 DEF EventClear, WriteClear
  <2>9. CASE EventRearm
    BY <2>9 DEF EventRearm, WriteStart
  <2>10. CASE EventUnlock
    BY <2>10 DEF EventUnlock
  <2>11. ASSUME NEW c \in Clients, New(c) PROVE nodes' = nodes
    BY <2>11 DEF New
  <2>12. ASSUME NEW c \in Clients, Delete(c) PROVE nodes' = nodes
    BY <2>12 DEF Delete
  <2>13. ASSUME NEW c \in Clients, Block(c) PROVE nodes' = nodes
    BY <2>13 DEF Block
  <2>14. ASSUME NEW c \in Clients, BlockWait(c) PROVE nodes' = nodes
    BY <2>14 DEF BlockWait
  <2>15. ASSUME NEW c \in Clients, AddModule(c) PROVE nodes' = nodes
    BY <2>15 DEF AddModule
  <2>16. ASSUME NEW c \in Clients, AddLock(c) PROVE nodes' = nodes
    BY <2>16 DEF AddLock
  <2>17. ASSUME NEW c \in Clients, NewList(c) PROVE nodes' = nodes
    BY <2>17 DEF NewList
  <2>18. ASSUME NEW c \in Clients, NewFlags(c) PROVE nodes' = nodes
    BY <2>18 DEF NewFlags
  <2>19. ASSUME NEW c \in Clients, Stop(c) PROVE nodes' = nodes
    BY <2>19 DEF Stop
  <2>20. ASSUME NEW c \in Clients, Join(c) PROVE nodes' = nodes
    BY <2>20 DEF Join
  <2>21. ASSUME NEW c \in Clients, DeletePicture(c) PROVE nodes' = nodes
    BY <2>21 DEF DeletePicture
  <2>22. ASSUME NEW c \in Clients, EnableClear(c) PROVE nodes' = nodes
    BY <2>22 DEF EnableClear, WriteClear
  <2>23. ASSUME NEW c \in Clients, EnableStart(c) PROVE nodes' = nodes
    BY <2>23 DEF EnableStart, WriteStart
  <2>24. ASSUME NEW c \in Clients, EnableBusy(c) PROVE nodes' = nodes
    BY <2>24 DEF EnableBusy
  <2>25. ASSUME NEW c \in Clients, AddPush(c) PROVE nodes' = nodes
    BY <2>25 DEF AddPush
  <2>26. ASSUME NEW c \in Clients, AddUnlock(c) PROVE nodes' = nodes
    BY <2>26 DEF AddUnlock
  <2>27. ASSUME NEW c \in Clients, SyncPoll(c) PROVE nodes' = nodes
    BY <2>27 DEF SyncPoll
  <2>28. ASSUME NEW c \in Clients, SyncResult(c) PROVE nodes' = nodes
    BY <2>28 DEF SyncResult
  <2>. QED
    BY <2>1, <2>2, <2>3, <2>4, <2>5, <2>6, <2>7, <2>8, <2>9, <2>10,
       <2>11, <2>12, <2>13, <2>14, <2>15, <2>16, <2>17, <2>18, <2>19,
       <2>20, <2>21, <2>22, <2>23, <2>24, <2>25, <2>26, <2>27, <2>28
       DEF Next, EventNext, CallNext, StepNext
<1>. QED
  BY <1>1, TypeCorrect, SafetyInvariant, PTL DEF Spec, ListStableWhileScanned
---------------------------------------------------------------------------
(* The block engine.                                                       *)

(* A client on its way to enable the engine, to add the event that is to   *)
(* consume its results, or to the end of its wait.                         *)
Enabling(c) == cpc[c] \in {"enClear", "enStart", "enBusy"}
Adding(c) == cpc[c] \in {"addLock", "addPush"} /\ fun[c].name = "BlockModule"
Waiting(c) == cpc[c] \in {"syncClear", "syncStart", "syncBusy", "syncWait", "syncResult"}
Using(c) == Enabling(c) \/ Adding(c) \/ Waiting(c)

(* One application thread uses the block module.                           *)
IsUser(c) == "block" \in Calls[c] \/ "sync" \in Calls[c]
OneUser == \A c, d \in Clients : IsUser(c) /\ IsUser(d) => c = d

IsBlock(i) == nodes[i].name = "BlockModule"

(* The client that uses the engine finds no event that consumes results;   *)
(* such an event is alone, and the flag is up as long as it exists.        *)
UserInv ==
    /\ \A c \in Clients :
        /\ Using(c) => IsUser(c) /\ \A i \in 1..Len(nodes) : ~IsBlock(i)
        /\ Enabling(c) => fun[c].name = "BlockModule"
        /\ Adding(c) \/ cpc[c] \in {"syncWait", "syncResult"} => busy
        /\ cpc[c] = "delPicture" => nodes = <<>>
    /\ \A i, j \in 1..Len(nodes) : IsBlock(i) /\ IsBlock(j) => i = j
    /\ \A i \in 1..Len(nodes) : IsBlock(i) => busy
    /\ obj \in {"none", "starting"} => nodes = <<>>

(* Only the client or the event in charge restarts the engine, which it    *)
(* has cleared before.                                                     *)
RunInv ==
    /\ ~stale
    /\ \A c \in Clients : cpc[c] \in {"enStart", "syncStart"} => blob = "idle"
    /\ epc = "scan" => at # 0
    /\ epc \in {"exec", "call", "clear", "rearm"} => at \in 1..Len(nodes)
    /\ epc \in {"exec", "call"} /\ IsBlock(at) => blob = "done"
    /\ epc \in {"clear", "rearm"} => IsBlock(at)
    /\ epc = "rearm" => blob = "idle"

(* The user of the engine is alone: no other call, no event.               *)
THEOREM UserInvariant == ASSUME OneUser PROVE Spec => []UserInv
<1>. USE DEF UserInv, Using, Enabling, Adding, Waiting, IsUser, IsBlock
<1>1. Init => UserInv
  BY DEF Init
<1>2. TypeInv /\ SafeInv /\ UserInv /\ [Next]_vars => UserInv'
  <2>. SUFFICES ASSUME TypeInv, SafeInv, UserInv, [Next]_vars PROVE UserInv'
    OBVIOUS
  <2>. USE ThreadAssumption DEF OneUser, TypeInv, TypeOK, EventReady, Nodes, NoCall,
           EventSteps, ClientSteps, SafeInv, OwnerInv, LifeInv, Scanning,
           Constructing, Destructing, blobVars, listVars, devVars, evtVars, cliVars
  <2>1. CASE BlobDone
    BY <2>1 DEF BlobDone
  <2>2. CASE EventStart
    BY <2>2 DEF EventStart
  <2>3. CASE EventTest
    BY <2>3 DEF EventTest
  <2>4. CASE EventLock
    BY <2>4 DEF EventLock
  <2>5. CASE EventScan
    BY <2>5 DEF EventScan
  <2>6. CASE EventExec
    BY <2>6 DEF EventExec
  <2>7. CASE EventReturn
    BY <2>7 DEF EventReturn
  <2>8. CASE EventClear
    BY <2>8 DEF EventClear, WriteClear
  <2>9. CASE EventRearm
    BY <2>9 DEF EventRearm, WriteStart
  <2>10. CASE EventUnlock
    BY <2>10 DEF EventUnlock
  <2>11. ASSUME NEW c \in Clients, New(c) PROVE UserInv'
    BY <2>11 DEF New
  <2>12. ASSUME NEW c \in Clients, Delete(c) PROVE UserInv'
    BY <2>12 DEF Delete
  <2>13. ASSUME NEW c \in Clients, Block(c) PROVE UserInv'
    BY <2>13 DEF Block
  <2>14. ASSUME NEW c \in Clients, BlockWait(c) PROVE UserInv'
    BY <2>14 DEF BlockWait
  <2>15. ASSUME NEW c \in Clients, AddModule(c) PROVE UserInv'
    BY <2>15 DEF AddModule
  <2>16. ASSUME NEW c \in Clients, AddLock(c) PROVE UserInv'
    BY <2>16 DEF AddLock
  <2>17. ASSUME NEW c \in Clients, NewList(c) PROVE UserInv'
    BY <2>17 DEF NewList
  <2>18. ASSUME NEW c \in Clients, NewFlags(c) PROVE UserInv'
    BY <2>18 DEF NewFlags
  <2>19. ASSUME NEW c \in Clients, Stop(c) PROVE UserInv'
    BY <2>19 DEF Stop
  <2>20. ASSUME NEW c \in Clients, Join(c) PROVE UserInv'
    BY <2>20 DEF Join
  <2>21. ASSUME NEW c \in Clients, DeletePicture(c) PROVE UserInv'
    BY <2>21 DEF DeletePicture
  <2>22. ASSUME NEW c \in Clients, EnableClear(c) PROVE UserInv'
    BY <2>22 DEF EnableClear, WriteClear
  <2>23. ASSUME NEW c \in Clients, EnableStart(c) PROVE UserInv'
    BY <2>23 DEF EnableStart, WriteStart
  <2>24. ASSUME NEW c \in Clients, EnableBusy(c) PROVE UserInv'
    BY <2>24 DEF EnableBusy
  <2>25. ASSUME NEW c \in Clients, AddPush(c) PROVE UserInv'
    BY <2>25 DEF AddPush
  <2>26. ASSUME NEW c \in Clients, AddUnlock(c) PROVE UserInv'
    BY <2>26 DEF AddUnlock
  <2>27. ASSUME NEW c \in Clients, SyncPoll(c) PROVE UserInv'
    BY <2>27 DEF SyncPoll
  <2>28. ASSUME NEW c \in Clients, SyncResult(c) PROVE UserInv'
    BY <2>28 DEF SyncResult
  <2>29. CASE UNCHANGED vars
    BY <2>29 DEF vars
  <2>. QED
    BY <2>1, <2>2, <2>3, <2>4, <2>5, <2>6, <2>7, <2>8, <2>9, <2>10,
       <2>11, <2>12, <2>13, <2>14, <2>15, <2>16, <2>17, <2>18, <2>19,
       <2>20, <2>21, <2>22, <2>23, <2>24, <2>25, <2>26, <2>27, <2>28,
       <2>29
       DEF Next, EventNext, CallNext, StepNext
<1>. QED
  BY <1>1, <1>2, TypeCorrect, SafetyInvariant, PTL DEF Spec
(* The engine is restarted only after it was cleared and its result read.  *)
THEOREM RunInvariant == ASSUME OneUser PROVE Spec => []RunInv
<1>. USE DEF RunInv, IsBlock
<1>1. Init => RunInv
  BY Zenon DEF Init
<1>2. TypeInv /\ SafeInv /\ UserInv /\ RunInv /\ [Next]_vars => RunInv'
  <2>. SUFFICES ASSUME TypeInv, SafeInv, UserInv, RunInv, [Next]_vars PROVE RunInv'
    OBVIOUS
  <2>. USE ThreadAssumption DEF OneUser, TypeInv, TypeOK, EventReady, Nodes, NoCall,
           EventSteps, ClientSteps, SafeInv, OwnerInv, LifeInv, Scanning,
           Constructing, Destructing, UserInv, Using, Enabling, Adding, Waiting, IsUser,
           blobVars, listVars, devVars, evtVars, cliVars
  <2>1. CASE BlobDone
    BY <2>1 DEF BlobDone
  <2>2. CASE EventStart
    BY <2>2 DEF EventStart
  <2>3. CASE EventTest
    BY <2>3 DEF EventTest
  <2>4. CASE EventLock
    BY <2>4 DEF EventLock
  <2>5. CASE EventScan
    <3>1. epc = "scan" /\ at # 0 /\ at \in Nat
          /\ UNCHANGED <<blob, overflow, stale, nodes, cpc>>
      BY <2>5 DEF EventScan
    <3>2. CASE epc' = "unlock"
      BY <3>1, <3>2
    <3>3. CASE at <= Len(nodes) /\ Condition(nodes[at]) /\ epc' = "exec" /\ at' = at
      BY <3>1, <3>3 DEF Condition
    <3>4. CASE at' = at + 1 /\ epc' = epc
      BY <3>1, <3>4
    <3>. QED
      BY <2>5, <3>2, <3>3, <3>4 DEF EventScan
  <2>6. CASE EventExec
    BY <2>6 DEF EventExec
  <2>7. CASE EventReturn
    BY <2>7 DEF EventReturn
  <2>8. CASE EventClear
    BY <2>8 DEF EventClear, WriteClear
  <2>9. CASE EventRearm
    BY <2>9 DEF EventRearm, WriteStart
  <2>10. CASE EventUnlock
    BY <2>10 DEF EventUnlock
  <2>11. ASSUME NEW c \in Clients, New(c) PROVE RunInv'
    BY <2>11 DEF New
  <2>12. ASSUME NEW c \in Clients, Delete(c) PROVE RunInv'
    BY <2>12 DEF Delete
  <2>13. ASSUME NEW c \in Clients, Block(c) PROVE RunInv'
    BY <2>13 DEF Block
  <2>14. ASSUME NEW c \in Clients, BlockWait(c) PROVE RunInv'
    BY <2>14 DEF BlockWait
  <2>15. ASSUME NEW c \in Clients, AddModule(c) PROVE RunInv'
    BY <2>15 DEF AddModule
  <2>16. ASSUME NEW c \in Clients, AddLock(c) PROVE RunInv'
    BY <2>16 DEF AddLock
  <2>17. ASSUME NEW c \in Clients, NewList(c) PROVE RunInv'
    BY <2>17 DEF NewList
  <2>18. ASSUME NEW c \in Clients, NewFlags(c) PROVE RunInv'
    BY <2>18 DEF NewFlags
  <2>19. ASSUME NEW c \in Clients, Stop(c) PROVE RunInv'
    BY <2>19 DEF Stop
  <2>20. ASSUME NEW c \in Clients, Join(c) PROVE RunInv'
    BY <2>20 DEF Join
  <2>21. ASSUME NEW c \in Clients, DeletePicture(c) PROVE RunInv'
    BY <2>21 DEF DeletePicture
  <2>22. ASSUME NEW c \in Clients, EnableClear(c) PROVE RunInv'
    BY <2>22 DEF EnableClear, WriteClear
  <2>23. ASSUME NEW c \in Clients, EnableStart(c) PROVE RunInv'
    <3>1. blob = "idle"
      BY <2>23 DEF EnableStart
    <3>2. stale' = FALSE
      BY <2>23, <3>1, Zenon DEF EnableStart, WriteStart
    <3>. QED
      BY <2>23, <3>1, <3>2 DEF EnableStart, WriteStart
  <2>24. ASSUME NEW c \in Clients, EnableBusy(c) PROVE RunInv'
    BY <2>24 DEF EnableBusy
  <2>25. ASSUME NEW c \in Clients, AddPush(c) PROVE RunInv'
    BY <2>25 DEF AddPush
  <2>26. ASSUME NEW c \in Clients, AddUnlock(c) PROVE RunInv'
    BY <2>26 DEF AddUnlock
  <2>27. ASSUME NEW c \in Clients, SyncPoll(c) PROVE RunInv'
    BY <2>27 DEF SyncPoll
  <2>28. ASSUME NEW c \in Clients, SyncResult(c) PROVE RunInv'
    BY <2>28 DEF SyncResult
  <2>29. CASE UNCHANGED vars
    BY <2>29 DEF vars
  <2>. QED
    BY <2>1, <2>2, <2>3, <2>4, <2>5, <2>6, <2>7, <2>8, <2>9, <2>10,
       <2>11, <2>12, <2>13, <2>14, <2>15, <2>16, <2>17, <2>18, <2>19,
       <2>20, <2>21, <2>22, <2>23, <2>24, <2>25, <2>26, <2>27, <2>28,
       <2>29
       DEF Next, EventNext, CallNext, StepNext
<1>. QED
  BY <1>1, <1>2, TypeCorrect, SafetyInvariant, UserInvariant, PTL DEF Spec

(* A callback reads a result that the engine is not overwriting.           *)
THEOREM ResultStableInCallbackHolds ==
    ASSUME OneUser PROVE Spec => []ResultStableInCallback
<1>1. RunInv => ResultStableInCallback
  BY DEF RunInv, IsBlock, ResultStableInCallback, InBlockCallback
<1>. QED
  BY <1>1, RunInvariant, PTL

(* A result is reported for the latest start of the engine.                *)
THEOREM ResultIsFreshHolds == ASSUME OneUser PROVE Spec => []ResultIsFresh
<1>1. RunInv => ResultIsFresh
  BY DEF RunInv, ResultIsFresh
<1>. QED
  BY <1>1, RunInvariant, PTL

(* The engine has one user, an event or a call that waits.                 *)
THEOREM EngineHasOneUserHolds == ASSUME OneUser PROVE Spec => []EngineHasOneUser
<1>1. UserInv => EngineHasOneUser
  BY DEF UserInv, Using, Waiting, IsBlock, EngineHasOneUser, BlockNodes
<1>. QED
  BY <1>1, UserInvariant, PTL
=============================================================================
