----------------------------- MODULE EventList -----------------------------
(***************************************************************************)
(* XiList (src/src/XiList.cpp), the list of events polled by a thread of   *)
(* its own, and its user XiImageDevice: construction and destruction, the  *)
(* BlockModule call that installs a callback, the BlockModule call that    *)
(* waits, and addModule.  The block engine of the FPGA (registers          *)
(* 0x300-0x32C) is external.                                               *)
(*                                                                         *)
(* Steps are single accesses to shared state; usleep is a scheduling point.*)
(* The device is deleted only when no other call on it is in progress.     *)
(***************************************************************************)
EXTENDS Sequences, Naturals

CONSTANTS
    Clients,    \* application threads
    Event,      \* the thread of XiList
    Callbacks,  \* user functions
    Free,       \* owner of a free mutex
    NoFun,      \* no user function
    Calls,      \* Calls[c]: the operations client c performs
    MaxNodes    \* bound: addModule is not called with more events than this

ASSUME ThreadAssumption == Event \notin Clients /\ Free \notin Clients \cup {Event}
ASSUME FunAssumption == NoFun \notin Callbacks
ASSUME BoundAssumption == MaxNodes \in Nat

VARIABLES
    blob,       \* engine: "idle", "busy" or "done" (bit 0 of 0x308)
    overflow,   \* engine: bit 1 of 0x308
    stale,      \* history: "done" is left from before the latest start
    obj,        \* life of the XiImageDevice: none, starting, live, closing
    picture,    \* mPictureDriver points to a live driver (and its registers)
    busy,       \* isBlockModuleWorking
    workThread, \* XiList::workThread
    nodes,      \* XiList::Nodes
    owner,      \* holder of XiList::NodeMutex
    epc,        \* event thread: next step
    at,         \* event thread: index of the iterator in nodes
    status,     \* event thread: pTBlockInfo->status reports an overflow
    cpc,        \* clients: next step of the current call
    fun         \* clients: the callback of the current call

blobVars == <<blob, overflow, stale>>
listVars == <<workThread, nodes, owner>>
devVars == <<obj, picture, busy>>
evtVars == <<epc, at, status>>
cliVars == <<cpc, fun>>
vars == <<blobVars, listVars, devVars, evtVars, cliVars>>

Nodes == [name : {"BlockModule", "test"}, fun : Callbacks]

EventSteps == {"none", "start", "test", "lock", "scan", "exec", "call",
               "clear", "rearm", "unlock", "end"}
ClientSteps == {"idle", "newList", "newFlags", "stop", "join", "delPicture",
                "enClear", "enStart", "enBusy", "addLock", "addPush",
                "addUnlock", "syncClear", "syncStart", "syncBusy", "syncWait",
                "syncResult"}

TypeOK ==
    /\ blob \in {"idle", "busy", "done"}
    /\ overflow \in BOOLEAN /\ stale \in BOOLEAN
    /\ obj \in {"none", "starting", "live", "closing"}
    /\ picture \in BOOLEAN /\ busy \in BOOLEAN /\ workThread \in BOOLEAN
    /\ nodes \in Seq(Nodes)
    /\ owner \in Clients \cup {Event, Free}
    /\ epc \in EventSteps
    /\ at \in Nat /\ status \in BOOLEAN
    /\ cpc \in [Clients -> ClientSteps]
    /\ fun \in [Clients -> [name : {"BlockModule", "test"}, fun : Callbacks \cup {NoFun}]]

NoCall == [name |-> "test", fun |-> NoFun]

Init ==
    /\ blob \in {"idle", "busy", "done"} /\ overflow = FALSE /\ stale = FALSE
    /\ obj = "none" /\ picture = FALSE /\ busy = FALSE
    /\ workThread \in BOOLEAN
    /\ nodes = <<>> /\ owner = Free
    /\ epc = "none" /\ at = 0 /\ status = FALSE
    /\ cpc = [c \in Clients |-> "idle"]
    /\ fun = [c \in Clients |-> NoCall]

---------------------------------------------------------------------------
(* Plausible mistakes in the code below; TLC uses them to show that the    *)
(* properties at the end of this module can fail.  No action refers to     *)
(* them.                                                                   *)

(* The destructor deletes the picture driver first.                        *)
StopAfterPicture(c) ==
    /\ cpc[c] = "stop"
    /\ workThread' = FALSE /\ picture' = FALSE
    /\ cpc' = [cpc EXCEPT ![c] = "join"]
    /\ UNCHANGED <<blobVars, nodes, owner, obj, busy, evtVars, fun>>

(* BlockModule(threshold, callback) adds its event with a NULL callback.   *)
BlockNoCallback(c) ==
    /\ cpc[c] = "idle" /\ "block" \in Calls[c] /\ obj = "live" /\ ~busy
    /\ cpc' = [cpc EXCEPT ![c] = "enClear"]
    /\ fun' = [fun EXCEPT ![c] = [name |-> "BlockModule", fun |-> NoFun]]
    /\ UNCHANGED <<blobVars, listVars, devVars, evtVars>>

(* The engine is started over a result that was not cleared.               *)
EnableNoClear(c) ==
    /\ \/ cpc[c] = "enClear" /\ cpc' = [cpc EXCEPT ![c] = "enStart"]
       \/ cpc[c] = "syncClear" /\ cpc' = [cpc EXCEPT ![c] = "syncStart"]
    /\ UNCHANGED <<blobVars, listVars, devVars, evtVars, fun>>

(* The flag that marks the engine as used is not raised.                   *)
EnableNoBusy(c) ==
    /\ \/ cpc[c] = "enBusy" /\ cpc' = [cpc EXCEPT ![c] = "addLock"]
       \/ cpc[c] = "syncBusy" /\ cpc' = [cpc EXCEPT ![c] = "syncWait"]
    /\ UNCHANGED <<blobVars, listVars, devVars, evtVars, fun>>

(* addEvent does not take the mutex.                                       *)
AddLockSkipped(c) ==
    /\ cpc[c] = "addLock"
    /\ cpc' = [cpc EXCEPT ![c] = "addPush"]
    /\ UNCHANGED <<blobVars, listVars, devVars, evtVars, fun>>

(* The thread does not look at workThread again.                           *)
EventTestForever ==
    /\ epc = "test"
    /\ epc' = "lock"
    /\ UNCHANGED <<blobVars, listVars, devVars, at, status, cliVars>>

(* The condition looks at bit 1 of 0x308, the overflow, instead of bit 0.  *)
ConditionBit1(node) == node.name = "test" \/ (blob = "done" /\ overflow)

(* BlockModuleExec re-arms the engine before it calls the user.            *)
EventExecRearms ==
    /\ epc = "exec"
    /\ status' = (nodes[at].name = "BlockModule" /\ overflow)
    /\ epc' = "call"
    /\ IF nodes[at].name = "BlockModule"
       THEN blob' = "busy" /\ overflow' = FALSE /\ stale' = FALSE
       ELSE UNCHANGED blobVars
    /\ UNCHANGED <<listVars, devVars, at, cliVars>>

---------------------------------------------------------------------------
(* The block engine.  A start finds the previous "done" still set unless   *)
(* the state was cleared before.                                           *)

WriteClear ==
    /\ blob' = "idle" /\ overflow' = FALSE /\ stale' = FALSE

WriteStart ==
    /\ blob' = IF blob = "idle" THEN "busy" ELSE blob
    /\ stale' = (blob = "done")
    /\ UNCHANGED overflow

BlobDone ==
    /\ blob = "busy"
    /\ blob' = "done"
    /\ overflow' \in BOOLEAN
    /\ UNCHANGED <<stale, listVars, devVars, evtVars, cliVars>>

---------------------------------------------------------------------------
At(c, s) == cpc[c] = s
Goto(c, s) == cpc' = [cpc EXCEPT ![c] = s]
Begin(c, call) == At(c, "idle") /\ call \in Calls[c] /\ obj = "live"

---------------------------------------------------------------------------
(* XiImageDevice::XiImageDevice: the picture driver, then the list, which  *)
(* starts its thread and leaves workThread as the allocator gave it.       *)

New(c) ==
    /\ At(c, "idle") /\ "new" \in Calls[c] /\ obj = "none"
    /\ obj' = "starting" /\ picture' = TRUE
    /\ Goto(c, "newList")
    /\ UNCHANGED <<blobVars, listVars, busy, evtVars, fun>>

NewList(c) ==
    /\ At(c, "newList")
    /\ workThread' \in BOOLEAN
    /\ epc' = "start"
    /\ Goto(c, "newFlags")
    /\ UNCHANGED <<blobVars, nodes, owner, devVars, at, status, fun>>

NewFlags(c) ==
    /\ At(c, "newFlags")
    /\ busy' = FALSE /\ obj' = "live"
    /\ Goto(c, "idle")
    /\ UNCHANGED <<blobVars, listVars, picture, evtVars, fun>>

(* XiImageDevice::~XiImageDevice: the list (TeminntionThread, join, clear) *)
(* goes before the picture driver its events use.                          *)
Delete(c) ==
    /\ Begin(c, "delete")
    /\ \A d \in Clients : At(d, "idle")
    /\ obj' = "closing"
    /\ Goto(c, "stop")
    /\ UNCHANGED <<blobVars, listVars, picture, busy, evtVars, fun>>

Stop(c) ==
    /\ At(c, "stop")
    /\ workThread' = FALSE
    /\ Goto(c, "join")
    /\ UNCHANGED <<blobVars, nodes, owner, devVars, evtVars, fun>>

Join(c) ==
    /\ At(c, "join") /\ epc = "end"
    /\ nodes' = <<>>
    /\ Goto(c, "delPicture")
    /\ UNCHANGED <<blobVars, workThread, owner, devVars, evtVars, fun>>

DeletePicture(c) ==
    /\ At(c, "delPicture")
    /\ picture' = FALSE /\ obj' = "none"
    /\ Goto(c, "idle")
    /\ UNCHANGED <<blobVars, listVars, busy, evtVars, fun>>

---------------------------------------------------------------------------
(* BlockModule(threshold, callback): unless the module is in use, enable   *)
(* the engine (clear, set up, start, raise the flag) and add an event.     *)

Block(c) ==
    /\ Begin(c, "block")
    /\ IF busy
       THEN UNCHANGED cliVars          \* returns RE_BLOCKMODULE_BUSY
       ELSE /\ Goto(c, "enClear")
            /\ \E f \in Callbacks :
                fun' = [fun EXCEPT ![c] = [name |-> "BlockModule", fun |-> f]]
    /\ UNCHANGED <<blobVars, listVars, devVars, evtVars>>

EnableClear(c) ==
    /\ \/ At(c, "enClear") /\ Goto(c, "enStart")
       \/ At(c, "syncClear") /\ Goto(c, "syncStart")
    /\ WriteClear
    /\ UNCHANGED <<listVars, devVars, evtVars, fun>>

EnableStart(c) ==
    /\ \/ At(c, "enStart") /\ Goto(c, "enBusy")
       \/ At(c, "syncStart") /\ Goto(c, "syncBusy")
    /\ WriteStart
    /\ UNCHANGED <<listVars, devVars, evtVars, fun>>

EnableBusy(c) ==
    /\ \/ At(c, "enBusy") /\ Goto(c, "addLock")
       \/ At(c, "syncBusy") /\ Goto(c, "syncWait")
    /\ busy' = TRUE
    /\ UNCHANGED <<blobVars, listVars, obj, picture, evtVars, fun>>

(* addModule("test", callback): an event whose condition always holds.     *)
AddModule(c) ==
    /\ Begin(c, "test")
    /\ Len(nodes) < MaxNodes
    /\ Goto(c, "addLock")
    /\ \E f \in Callbacks :
        fun' = [fun EXCEPT ![c] = [name |-> "test", fun |-> f]]
    /\ UNCHANGED <<blobVars, listVars, devVars, evtVars>>

(* XiList::addEvent.                                                       *)
AddLock(c) ==
    /\ At(c, "addLock") /\ owner = Free
    /\ owner' = c
    /\ Goto(c, "addPush")
    /\ UNCHANGED <<blobVars, workThread, nodes, devVars, evtVars, fun>>

AddPush(c) ==
    /\ At(c, "addPush")
    /\ nodes' = Append(nodes, fun[c])
    /\ Goto(c, "addUnlock")
    /\ UNCHANGED <<blobVars, workThread, owner, devVars, evtVars, fun>>

AddUnlock(c) ==
    /\ At(c, "addUnlock")
    /\ owner' = Free
    /\ fun' = [fun EXCEPT ![c] = NoCall]
    /\ Goto(c, "idle")
    /\ UNCHANGED <<blobVars, workThread, nodes, devVars, evtVars>>

(* BlockModule(threshold, info): enable the engine and poll for the end of *)
(* the run (0x308), then lower the flag.                                   *)
BlockWait(c) ==
    /\ Begin(c, "sync")
    /\ IF busy THEN UNCHANGED cpc ELSE Goto(c, "syncClear")
    /\ UNCHANGED <<blobVars, listVars, devVars, evtVars, fun>>

SyncPoll(c) ==
    /\ At(c, "syncWait") /\ blob = "done"
    /\ Goto(c, "syncResult")
    /\ UNCHANGED <<blobVars, listVars, devVars, evtVars, fun>>

SyncResult(c) ==
    /\ At(c, "syncResult")
    /\ busy' = FALSE
    /\ Goto(c, "idle")
    /\ UNCHANGED <<blobVars, listVars, obj, picture, evtVars, fun>>

---------------------------------------------------------------------------
(* XiList::Eventloop.  The first thing the thread does is to set the flag  *)
(* the destructor clears.                                                  *)

EventStart ==
    /\ epc = "start"
    /\ workThread' = TRUE
    /\ epc' = "test"
    /\ UNCHANGED <<blobVars, nodes, owner, devVars, at, status, cliVars>>

EventTest ==
    /\ epc = "test"
    /\ epc' = IF workThread THEN "lock" ELSE "end"
    /\ UNCHANGED <<blobVars, listVars, devVars, at, status, cliVars>>

EventLock ==
    /\ epc = "lock" /\ owner = Free
    /\ owner' = Event
    /\ at' = 1
    /\ epc' = "scan"
    /\ UNCHANGED <<blobVars, workThread, nodes, devVars, status, cliVars>>

(* pCondition: BlockModuleCondition reads 0x308, testModule is true.       *)
Condition(node) == node.name = "test" \/ blob = "done"

EventScan ==
    /\ epc = "scan"
    /\ \/ /\ at > Len(nodes)
          /\ epc' = "unlock" /\ UNCHANGED at
       \/ /\ at <= Len(nodes) /\ Condition(nodes[at])
          /\ epc' = "exec" /\ UNCHANGED at
       \/ /\ at <= Len(nodes) /\ ~Condition(nodes[at])
          /\ at' = at + 1 /\ UNCHANGED epc
    /\ UNCHANGED <<blobVars, listVars, devVars, status, cliVars>>

(* pExecute: BlockModuleExec reads the overflow bit, calls the user and    *)
(* re-arms the engine; testModuleExec only calls the user.                 *)
EventExec ==
    /\ epc = "exec"
    /\ status' = (nodes[at].name = "BlockModule" /\ overflow)
    /\ epc' = "call"
    /\ UNCHANGED <<blobVars, listVars, devVars, at, cliVars>>

EventReturn ==
    /\ epc = "call"
    /\ status' = FALSE
    /\ \/ nodes[at].name = "BlockModule" /\ epc' = "clear" /\ UNCHANGED at
       \/ nodes[at].name = "test" /\ epc' = "scan" /\ at' = at + 1
    /\ UNCHANGED <<blobVars, listVars, devVars, cliVars>>

EventClear ==
    /\ epc = "clear"
    /\ WriteClear
    /\ epc' = "rearm"
    /\ UNCHANGED <<listVars, devVars, at, status, cliVars>>

EventRearm ==
    /\ epc = "rearm"
    /\ WriteStart
    /\ epc' = "scan" /\ at' = at + 1
    /\ UNCHANGED <<listVars, devVars, status, cliVars>>

EventUnlock ==
    /\ epc = "unlock"
    /\ owner' = Free
    /\ epc' = "test" /\ at' = 0
    /\ UNCHANGED <<blobVars, workThread, nodes, devVars, status, cliVars>>

---------------------------------------------------------------------------
EventNext ==
    \/ EventStart \/ EventTest \/ EventLock \/ EventScan \/ EventExec
    \/ EventReturn \/ EventClear \/ EventRearm \/ EventUnlock

CallNext(c) == New(c) \/ Delete(c) \/ Block(c) \/ BlockWait(c) \/ AddModule(c)

StepNext(c) ==
    \/ NewList(c) \/ NewFlags(c) \/ Stop(c) \/ Join(c) \/ DeletePicture(c)
    \/ EnableClear(c) \/ EnableStart(c) \/ EnableBusy(c)
    \/ AddPush(c) \/ AddUnlock(c) \/ SyncPoll(c) \/ SyncResult(c)

Next ==
    \/ BlobDone
    \/ EventNext
    \/ \E c \in Clients : CallNext(c) \/ AddLock(c) \/ StepNext(c)

Spec == Init /\ [][Next]_vars

(* Threads are scheduled, user functions return, a waiter gets the mutex   *)
(* (the event thread sleeps 500 ms outside it per turn).  Nothing makes    *)
(* the engine finish: it waits for a picture.                              *)
Fairness ==
    /\ WF_vars(EventNext)
    /\ SF_vars(EventLock)
    /\ \A c \in Clients : WF_vars(StepNext(c)) /\ SF_vars(AddLock(c))

FairSpec == Spec /\ Fairness

---------------------------------------------------------------------------
(* Properties.                                                             *)

Scanning == epc \in {"scan", "exec", "call", "clear", "rearm", "unlock"}

(* The list does not change under the iterator of the event thread: an     *)
(* event added while callbacks run waits for the mutex.                    *)
ListStableWhileScanned == [][Scanning => nodes' = nodes]_vars

(* The event thread, which reads registers through mPictureDriver, has     *)
(* ended before the picture driver is deleted.                             *)
EventUsesLiveDriver == epc \notin {"none", "end"} => picture

(* While a BlockModule callback reads the result, the engine is not        *)
(* producing the next one into the same buffer.                            *)
InBlockCallback == epc = "call" /\ nodes[at].name = "BlockModule"
ResultStableInCallback == InBlockCallback => blob = "done"

(* A result is reported for the latest start of the engine, never for a    *)
(* run that had ended before it: to a callback and to a waiting call.      *)
ResultIsFresh ==
    (InBlockCallback \/ \E c \in Clients : At(c, "syncResult")) => ~stale

(* The engine has one user: no call waits for it while an event consumes   *)
(* its results, and two events never do.                                   *)
BlockNodes == {i \in 1..Len(nodes) : nodes[i].name = "BlockModule"}
EngineHasOneUser ==
    /\ \A i, j \in BlockNodes : i = j
    /\ (\E c \in Clients : cpc[c] \in {"syncWait", "syncResult"}) => BlockNodes = {}

(* Every finished run is reported to the registered callback, unless the   *)
(* device is deleted first.                                                *)
ResultReported ==
    (obj = "live" /\ blob = "done" /\ BlockNodes # {} /\ epc # "clear")
        ~> (InBlockCallback \/ obj # "live")

(* Once the thread runs and has been told to stop, the destructor returns. *)
StoppedDeleteReturns ==
    (\E c \in Clients : At(c, "join") /\ ~workThread /\ epc # "start") ~> obj = "none"

(* delete of a device returns.                                             *)
DeleteReturns == obj = "closing" ~> obj = "none"
=============================================================================
