# Verification of the zynq7010 camera application

The program (`src/src`, C++, about 3900 lines) runs on the ARM side of a Zynq
7010 camera.  It maps the registers and the frame memory of the FPGA, grabs
frames, calls user callbacks from threads of its own, runs two image-processing
engines (block analysis and mirror), and configures the camera, the network and
the clock.  This directory holds TLA+ models of it, TLC configurations that
check them on small instances, and TLAPS proofs for every size.

    tlc -config MCFrameCapture_safety.cfg MCFrameCapture.tla
    tlapm FrameCaptureProofs.tla

## 1. Inventory

| component | state | operations | talks to |
|---|---|---|---|
| `XiPictureDriver` | `m_ClassWorking`, `m_CallBackHandler`, `m_ImageCallBackMutex`, the mappings | construction (starts `ImageThread`), destruction (stops and joins it), `registerImageCallback`, `hasRegisterImageCallBack`, `enableCapture`, `softTrigger`, register access, `getReadyBuffNo`, `lockBuff`, `unlockBuff` | FPGA registers 0xFC, 0xDC, 0xE4, 0xD4, 0xD8; calls the user's handler from its thread |
| `XiImageDevice` | the picture driver, the event list, `isBlockModuleWorking`, `XiImageDeviceWorking` | `GrabPicture`, `BlockModule` (with a callback, or waiting), `addModule`, mirror registers, `Terminate` | `XiPictureDriver`, `XiList`, engine registers 0x300-0x32C and 0x400-0x410 |
| `XiList` | `Nodes`, `NodeMutex`, `workThread` | `addEvent`, `Eventloop`, destruction | runs the condition and the callback of every event in its own thread |
| `XiDriver` | `ModuleName`, `IntPutData`, `OutPutData`, `ErrNumber`, `ModueMutex` | `ExecuteProcedure`, `SetInputParam/Object`, `Execute`, `GetOutputParam/Object`, `GrabPicture`, `Terminate`, destruction | `XiImageDevice` |
| `MxcNetWork` (libnetwork) | the parsed `/etc/network/interfaces`, `isaddEthX` | `getNetWork`, `setNetWork` | the file; ioctl |
| `XiXmlDriver` | parameter table of `m001.xml` | `getItem`, `setItem` | registers through `/dev/Image_m` |
| `XiXmlDevice` | a camera file | `XmlSetting`, `XmlGetting` | `XiXmlDriver`, register 0x40600200 |
| `MxcDate` (libdate) | none of its own: `TZ` in the environment, the C library's zone, `/etc/timezone`, the system clock, the RTC, `g_ntpPacketStr` | construction (`initLocalZone`), `getTimeZone`, `setTimeZone`, `setEnvTimeZone`, `getEnvTimeZone`, `getSysDate`, `setSysDate`, `getRtcDate`, `setRtcDate`, `getZoneInfo`, `getNtpDate`, `NtpToSys`, `NtpToHc` | the C library, the RTC's device, an NTP server |
| `XiLog` | log4cpp categories | log | - |
| FPGA gateware, kernel modules | binary only | - | registers, frame memory |
| `test/`, `temp/` | - | command-line programs; an old copy of libdate | - |

What is hard, and what makes each part correct:

* **Image thread.**  It polls the ready register with the mutex held, releases
  the frame before the handler has used it, and reads `m_ClassWorking`, the
  mode and the handler again after an unbounded wait.  Correct means: the
  handler that runs is the registered one, no thread touches the driver after it
  is unmapped, `delete` returns without a trigger, a frame handed out was ready.
* **Grabbing.**  A soft trigger, a wait, and a lock register shared without
  atomic access.  Correct: the copied frame is that of the trigger, the FPGA
  does not write it meanwhile, no lock is left behind, the call returns.
* **Event thread.**  A list walked by one thread and extended by others, an
  engine armed by one call and re-armed by the thread, a device that may be
  deleted at any time.  Correct: the list is stable under the iterator, results
  are fresh and stable while they are read, every finished run is reported, the
  engine has one user, `delete` returns.
* **Module interface.**  Two maps that outlive a run, a mutex, a destructor that
  ends a running `Execute`.  Correct: no device use after delete, inputs and
  results belong to the selected procedure and are the latest ones, a finished
  run is a finished run, `delete` and `Execute` return.  Of the inputs and results
  the code keeps this promise in part (section 6).
* **Network file.**  Parse, edit and write back, with a truncation in between.
  Correct: lines of other interfaces survive, what was set is read back, one auto
  line whatever the history.  A crash right after the truncation loses every
  line; nothing else does.
* **XML configuration.**  A sequence of register writes made effective by one
  more; a read-back that rewrites the file.  Correct: a round trip changes
  nothing, and what a notification makes effective is the file.  The code does
  the second only if the device opens for every item (section 6), and items the
  file does not name keep what an earlier setting left.
* **Dates.**  Two calls put another zone into the process-wide `TZ`, convert
  and put the old one back, while `mktime` and `localtime_r` take the zone from
  two different places; the NTP client waits for a server and counts in an era
  that ends in 2036.  Correct: the process is left in the zone it was put in on
  every way out, a returned date is that of the instant that was read, a clock
  shows the date it was set to (in summer it does not, section 6), every call
  returns.

The hazards, one by one with their lines and the properties that cover them, are
in `PROJECT.json`.

## 2. Plan

Done, in the order of importance:

1. `FrameRing`, `FrameCapture`, refining `CallbackRegistry`; its proofs.
2. `EventList`; its proofs.
3. `ModuleRunner`, refining `ModuleService`; its proofs.
4. `NetInterfaces`; its proofs.
5. `XmlConfig`; its proofs.
6. `Dates`; its proofs.

Every safety property that a passing run checks is now also a theorem.

Next: weaken the hypotheses of the theorems about applications.  `OneUser` and
`SoftGrabbing` fix the threads by what they call; two threads that take turns
under a lock of the application would keep the properties too, and an application
that changes the trigger mode between two drivers needs a `FrameInv` that says when
no frame is left over.

## 3. Modules and the code

Every access to shared memory or to a register is a step; code between two
such accesses belongs to the step it follows.  `usleep` is a scheduling point
and has no action.  Program counters (`ipc`, `epc`, `cpc`, `wpc`, `opc`) name the
next step of a thread.  A client makes one call at a time; `Calls[c]` says which
calls it makes, so that one module serves several applications.  The section
"Plausible mistakes" of each module holds mutated actions that no action of the
specification uses; they show that each property can fail.

| module | models | state |
|---|---|---|
| `FrameRing` | the FPGA's frame ring (external) | `mode` = 0xFC, `capture` = 0xDC, `trig` = 0xE4, `readyBuf`/`readySt` = 0xD4, `lockReg` = 0xD8, `filling` = the buffer being written |
| `FrameCapture` | `XiPictureDriver` and the grabbing in `XiImageDevice`, `XiDriver` | `working` = `m_ClassWorking`, `handler` = `m_CallBackHandler`, `owner` = `m_ImageCallBackMutex` |
| `CallbackRegistry` | abstract: what the owner of a callback may rely on | `registered`, `running`, `alive` |
| `ModuleService` | abstract: what the caller of `Execute` and of `delete` may rely on | `alive`, `stopping`, `run`, `report` |
| `EventList` | `XiList` and the block-module part of `XiImageDevice` | `nodes`, `owner` = `NodeMutex`, `workThread`, `busy` = `isBlockModuleWorking`, `blob` = register 0x308 |
| `ModuleRunner` | `XiDriver` and the engine calls below it | `name`, `inp`, `out`, `err`, `locked` = `ModueMutex`, `device`, `engine`, `reg` |
| `NetInterfaces` | `MxcNetWork` | `file`, `doc` = `interfacesDoc`, `isaddEthX`; `others`, `torn`, `last` are history |
| `XmlConfig` | `XiXmlDriver`, `XiXmlDevice` | `file`, `doc`, `regs`, `applied` = what the FPGA took over at the last notification; `before`, `missed`, `asSet`, `since` are history |
| `Dates` | `MxcDate` | `env` = `TZ`, `tz` = the C library's zone, `tzfile` = `/etc/timezone`, `clock` = system clock and RTC, `packet` = `g_ntpPacketStr`, `fds`; `zone`, `source`, `from` are history |
| `FrameCaptureProofs`, `EventListProofs`, `ModuleRunnerProofs`, `NetInterfacesProofs`, `XmlConfigProofs`, `DatesProofs` | theorems | - |
| `MC*` | instances for TLC | - |

`FrameCapture` EXTENDS `FrameRing`: the processor's register operations are
operators of `FrameRing` (`WriteLock`, `WriteMode`, ...) used inside the driver's
actions, and the FPGA's own steps are `FpgaNext`.  The refinement maps
`alive` to `mapped` and `registered` to `handler`.  `GrabPicture()` without
arguments (`Picture` and the steps after it) leaves buffer 0 locked for its
caller, who has no call to give it back but the next `GrabPicture()`.

`ModuleService` knows one `Execute` and its run of the engine.  `ModuleRunner`
implements it with `alive` = `device`, `stopping` = not `devWorking`, the run read
off the step of `Execute` and the engine's done bit, and the report = `err` from
the last look at `devWorking` until the return.

What is assumed of the FPGA: an exposure goes to a buffer that is neither locked
nor the newest pending frame; a complete frame is published with its index; a
release bit clears the pending status; engines set their done bit once per
start.  The repository holds the gateware only as a bit stream, so these are
read off the way the driver uses the registers.

Not every call pattern is allowed: the driver is created and deleted when no
other call on it is in progress, as C++ requires, with the one exception the
code itself provides for: deleting `XiDriver` while `Execute` runs.

In `NetInterfaces` a line is its kind, the interfaces it names and a value;
indentation and spelling are left out, blank lines count as comments.
The file ends with a newline, is read with one system call and written with one
when it is closed.  The empty line `fgets` leaves at the end of the file is
there (`readFile`), because it makes a stanza at the end of the file non-empty.
`Pick` (the lines of some kind, in their order) and `ScanAll` (the pass over the
document) are recursive functions.  `WellFormed` says which files the code is
meant for: at most one auto line mentions the object's interface, its stanza is
directly below it, and nothing else configures that interface.
`MCNetInterfaces` assumes it, so TLC evaluates it for the files of the run.

In `XmlConfig` a text is a word or the decimal notation of a number; `strtol`
saturates at `MaxLong`, registers are unsigned and one bit wider, and `Double`
(the gamma curve, a lookup table in the code) is one register.  The table is a
constant: each item's type, register and named values.  One step handles one
item, for which the code opens the register device anew.  A crash is possible
between any two steps and between the truncation of the file and its write.  The
calls on a document in memory do the same without the file.

In `Dates` time is counted in half hours, which is what the zones of the model
tell apart, and a date is that count as a local clock shows it; breaking it down
into years and months is left out.  A library call that touches shared state
is a step: `setenv` and `tzset` are two, `mktime` reads `TZ` again by itself,
`localtime_r` does not.  A `time_t` has the 32 bits it has on this ARM; NTP's
seconds since 1900 are unsigned, wrap in 2036 and are turned back into a
`time_t` by a subtraction.  Clocks do not tick during a call.  Where the code
dereferences a NULL `TZ` (`getEnvTimeZone`, the end of `getRtcDate`) the process
ends, and so it may between any two steps; the files and the clocks stay.
Descriptors count only as sockets, most of which the client leaves open.

## 4. Runs

Bounds are given with the number of distinct states.

| run | instance | shows |
|---|---|---|
| `capture_safety` (1 918 000) | 2 buffers, 1 handler, 2 clients, every call, any registers left by an earlier process | registered handler, no access after unmap, refinement of `CallbackRegistry` |
| `capture_stream` (11 000) | hardware-trigger application | frames handed out were ready; `delete` returns with no trigger; a registration returns if triggers keep coming |
| `capture_grab` (1 800) | soft-trigger application, clean start | fresh, stable frames, balanced locks, the grab returns |
| `events` (176 000) | 3 clients, up to 5 events, 2 callbacks | everything of the event thread |
| `modules` (1 323 000) | threshold 257, both values of a flag, a size | the registers a run starts with hold values given since `ExecuteProcedure`, a result is of this procedure, a finished run is one, the device outlives it, refinement of `ModuleService`; destructor and `Execute` return |
| `network` (17 800) | 7 files, 15 settings | file round trip with crashes; lines of the others are lost by a torn save only, and then all of them |
| `xml` (1 315 000) | every type of item, 3 files, 3-bit `long`, 1 failed open or foreign driver | what a notification makes effective, item by item; set then get and get then set change nothing |
| `dates` (610 000) | a thread that uses every call but the NTP client's, one that uses the NTP client, 2 zones, a process that inherits no `TZ`, an NTP server before and after the end of the era | the zone is put back, dates are local, clocks show the dates of standard time and the server's times they were set to, every call returns |
| `callback_frame`, `event_delete`, `mirror_flags`, `block_count` | as above, smaller where one input is enough | violated: see 6 |

Two buffers are enough for a race between the frame being used and the one being
written (the FPGA needs one to write and one that is pending).  One handler and
NULL are enough to have a handler replaced: RunningIsRegistered speaks about one
running handler and one registered value, and the proofs cover any number.  Two
clients are enough for a call from another thread while the first is in a call.
257 is the smallest threshold that a `uint8_t` changes, and the flag values 0
and 1 give both outcomes of every test.  `MaxNodes` bounds only
`addModule`, which grows the list for ever; the list then has events before and
after that of the block module, and two threads that add at the same time.  Files of at most 10 lines hold the stanza first, in the middle,
last, alone and not at all.  In `xml` every item that is written has a
register of its own, as in `config/m001.xml`, so the effect of one failed open
is that on its register, and one is enough to see each item fail; 3 bits
leave values below, at and above the saturation.

In `dates` 9 is a date of standard time in Rome; a clock set to it in UTC shows
summer time when the zone is Rome.  A zone with summer time and one with half hours give every form of
offset, and every conversion has one process to disturb: a second thread that
changes the zone would make the dates wrong at once, by what C says of `TZ`
(see the hazards), so that the properties are for one such thread and one NTP client,
in any interleaving.  2^32 is scaled to 32 and 1970 to 17, so that the server's
times 15 and 20 lie at the end of the NTP era and beyond the last `time_t`; one
descriptor is enough to run out of them.

`capture_stream` and `capture_grab` restrict the application because the
properties are not true of every one: see `CallbackFrameReady` (mode steady) and
`GrabFresh` (no frame pending at the start) in the hazards.

### Fairness

Threads are scheduled (weak fairness on the steps of each thread), user functions
return.  A thread that waits for a mutex gets it in the end (strong fairness on
the lock steps): `ImageThread` and `Eventloop` sleep outside their mutex in
every turn, for 1 ms (`XiPictureDriver.cpp:302`) and 500 ms (`XiList.cpp:59`), so a
waiter does get it.  The FPGA ends an
exposure it began and serves a soft trigger.  Nothing makes a hardware trigger
come, an engine finish, an NTP server answer (`select` has a timeout, which ends
the wait) or an application make a call; `RegisterReturns`
therefore has the condition that triggers keep coming, and the destructors are
shown to return without any.  `DeleteReturns` of the module interface takes the
`delete` of the image device inside it to return; `event_delete` shows when that
one does not.

## 5. Proofs

All constants are arbitrary (any number of clients, buffers, handlers, events,
any `Calls`), under the named assumptions of the modules: thread names
differ, "no buffer" is no buffer, the modes written are 0 or 1.

`FrameCaptureProofs` (`MutualExclusion`, which the lock steps make plain, is
stated there and is no property of a run):
* `TypeCorrect`: the types, strengthened by "a thread that has read the ready
  register knows its buffer", without which the lock register's type is not
  inductive.  `TypeOKHolds` follows.
* `SafetyInvariant`: the inductive invariant `SafeInv`.  `OwnerInv` says the mutex is
  owned exactly by the thread inside its critical section; `CallInv` says what the
  image thread knows of the handler at each step; `LifeInv` ties the life of the
  object to the threads (constructor and destructor are alone, the image thread
  has ended before the memory is unmapped).  Neither mutual exclusion nor "the
  running handler is registered" is inductive alone: the second needs the first,
  the image thread's position and the fact that the handler is only stored with
  the mutex held, or by a constructor that runs when no image thread exists.
* `MutualExclusionHolds`, `RunningIsRegisteredHolds`, `NoAccessAfterUnmapHolds`
  are its consequences.
* `CallbackFrameReadyHolds` adds the assumption that the application writes only
  1 to the mode register, and an invariant on where a wait can end.
* `RefinesRegistry`: every step of the driver is a step of `CallbackRegistry` or a
  stutter.
* `GrabFreshHolds`, `GrabIntactHolds` and `LocksAreHeldHolds` are about the
  application that run `capture_grab` checks, for any number of buffers and of
  other clients.  Their hypothesis `SoftGrabbing` says: soft triggers only, no frame
  pending when the first driver starts, one thread that grabs into a buffer of its
  own, and nobody who triggers besides it.  If any of these is given up TLC finds
  a grab that takes the frame of another trigger (see the hazards).
  `GrabPicture()` without arguments is excluded too: it locks buffer 0 for its
  caller, which `LocksAreHeld` has no place for.
  `ModeInv` keeps the image thread away from the frames.  `FrameInv` follows the one
  frame there can be, from trigger to exposure to pending buffer to copy: it says
  that at most one of the three exists, that it exists only while the grab is
  under way, and that it is fresh.  `LockInv` says what the lock register and the
  value read from it are at each step between the two updates.

`EventListProofs`, for any events, clients and callbacks:
* `TypeCorrect` (every index of the event thread is inside the list),
  `SafetyInvariant` (the owner of `NodeMutex`, life of the device) and its
  consequence `EventUsesLiveDriverHolds`.
* `ListStableWhileScannedHolds`, an action property, rests on the owner of the
  mutex.
* `EngineHasOneUserHolds`, `ResultIsFreshHolds` and `ResultStableInCallbackHolds`
  have the hypothesis `OneUser`: at most one client calls `BlockModule`, as in the
  test programs and in the run, where two more clients add events of their own.
  Two clients can both pass the test of `isBlockModuleWorking` before either sets
  it, and then TLC finds a result that is not fresh (see the hazards).  `UserInv` says
  that the client finds no event that consumes results while it starts the
  engine or adds its own, that such an event is alone, and that the flag is up as
  long as it exists, which is why a second call of the same client turns back.  `RunInv` says
  what the engine's register shows at each step of the client and of the event.

`ModuleRunnerProofs`, for any names, values and counts:
* `DeleteInvariant` (owner of `ModueMutex`, life of the device) gives
  `DeviceOutlivesExecuteHolds`; that the destructor is past the mutex and no
  `Execute` is inside is what makes it inductive.
* `ExecuteInvariant` follows one run: the engine is idle after it was cleared,
  running or done with this run after it was started, and done when the wait
  ends unless the device was told to stop, which it stays while the object
  lives.  It gives `FinishedMeansDoneHolds`.
* `StopInvariant` (from Terminate on the device stays stopped) and the two
  invariants above give `RefinesService`: every step of the interface is a step of
  `ModuleService` or a stutter.  A run is reported as an outcome only from "done"
  because the wait ends with the engine done or the device stopped and the code
  then looks at the latter again.
* `InputInvariant`: until the destructor starts, the input map has entries for
  exactly the names given since `ExecuteProcedure`, each with a value that was given for
  it.  It gives `InputsAreOwnHolds`: a run starts with the threshold (cut to eight
  bits), the flags and the source that were given.  What it does not say, because
  the code does not do it, is that a flag which was not given is off
  (`FlagsAreOwn`) and that of several values the last one counts (`ValueIsTaken`);
  see section 6.
* `CountIsOwnHolds` is inductive alone.  `TypeOKHolds` collects the types, which are
  proved in parts.

`DatesProofs`, for any zones, any summer time and any width of the `time_t`:
* `TypeCorrect`: the types, with what they need to be inductive: the kernel
  takes no instant a `time_t` does not hold, a thread that is about to write
  `/etc/timezone` holds a zone that was chosen, and the sockets open in a call
  are never more than the descriptors taken, so that `close` leaves no
  negative number.  `TypeOKHolds` follows.
* `StepsOfCalls`: a thread is at a step of the call it makes.
* `ZoneIsKept`: `ZoneKept`, if one thread at most uses the calls that change the
  zone.  Inductive is what is known at each step between the swap and the end of
  the restoration: which of the two places, the environment and the C library,
  holds the zone of the process, and that the saved one is it.
* `InstantsAreKept`: what a thread holds at each step is the instant of the date,
  of the clock or of the server it started from.  It rests on
  `TimestampRoundTrip` (the NTP count gives the same `time_t` back, whether or
  not it wrapped) and `MktimeInverse`, and assumes besides that one thread at most uses
  the NTP client, whose packet is shared.
* `ClockSetAsAsked` (`ClockIsAsSet`) and `DatesReturnedAreLocal` (`DatesAreLocal`)
  follow from it, under the same two assumptions.  The first is about the dates of
  standard time and the server's times; for dates of summer it would not be true
  (section 6).

`XmlConfigProofs`, for any table, camera files and number of failed opens, under
the named assumptions on the table (a named value has one name, an item that is
written has a register of its own, a file names an item once), which hold of
`config/m001.xml` and which TLC evaluates for the run's table:
* `TypeCorrect` needs that the conversion of a text that is accepted yields a value
  of a register (`RegValueType`: `strtol` saturates, the register wraps), and that
  what is read back is a text (`ItemValueType`).
* `SetGet` and `GetSet` are the two halves of the round trip for one item: a
  canonical text reads back as it was, a restorable value is written back as it
  was.
* `SetInvariant`: the items before the next one have their values in their
  registers, unless something else touched these.
* `AppliedInvariant`: the same with nothing excused but the trigger mode, which a
  starting driver may write.  The registers are what the items reached so far,
  those without a failed open, make of what was there before the call; that
  registers without such an item still hold the old value is the half that needs every item
  to have a register of its own.  It gives `AppliedIsFileHolds`: this, no less
  and no more, is what the FPGA takes over.
* `ReadBackInvariant` and `RestoreInvariant` carry the item's round trip over the two
  loops, a crash between them, and the moment the file is empty; the first needs
  `SetInvariant`.  They give `SetThenGetHolds` and `GetThenSetHolds`.

`NetInterfacesProofs`, for files of any length that are `WellFormed`, any settings and a
crash between any two steps:
* `FileInvariant` is the inductive invariant: the file has the stanza in one place or
  none, and the lines of the others; what is about to be written has them too and
  says what was asked; an object that no longer adds the auto line works on a
  file that has one.  The last is what makes it inductive: an object adds the line
  once, and relies on finding it again.
* `OthersKeptHolds`, `RoundTripHolds`, `OneAutoHolds` and `TypeOKHolds` follow.
  `OthersKept` compares with the lines of the file before the first call; the
  variable `torn` tells whether a process has died between truncation and write
  since then, and nothing else excuses a line that is missing.
* Below it are lemmas on files.  A well-formed file is split in lines before the
  auto line, that line, the body and the rest; `ScanOutside` and `ScanInside` say
  what the pass does with each part, `WrittenStanza` and `WrittenForeign` what the
  splice makes of them, `OthersWhole` which lines belong to the others,
  and `ReadBack` what is read from a stanza that `setEthXNode` has written.
* The pass is defined by recursion on the document, so these lemmas need induction
  over data.  The library's induction theorems take the predicate as an operator,
  which cannot be instantiated here; `NatInduct` and `SeqInduct` take the set of
  the numbers or sequences for which it holds instead, and rest on the library's
  well-foundedness of `<` on the naturals.  `PickEquation` and `ScanEquation` are the
  recursion equations; existence (`PickExists`, `ScanExists`) is proved the same way.

Only model-checked: liveness (the `...Returns` properties and `ResultReported`; fairness and ENABLED
are outside this prover's reach).  The properties of section 6 are ones the code
violates, and have no theorem.

## 6. Findings

* `callback_frame`: `getImageBuff` locks and unlocks the frame before the handler
  gets its address (`XiPictureDriver.cpp:252-259`, `:297`); the FPGA may write
  it while the handler reads.  `test/image_m.c` holds the lock over the copy.
* `event_delete`: the event thread sets `workThread` to true when it starts
  (`XiList.cpp:55`); if the destructor cleared it before, the join never returns.
* `block_count`: `std::map::insert` keeps the first run's count
  (`XiDriver.cpp:162`).
* `mirror_flags`: a flag that is not given keeps its register (`XiDriver.cpp:177-191`;
  `clearMirror` does not touch it).  In the example of `doc/Module.cc:56-65` the
  second procedure asks for MirrorX and gets MirrorY of the first one as well.

Four more disagreements with what the repository says have a property and a
configuration, which TLC reports as violated, but no run in `PROJECT.json`:

* `MCModuleRunner_image.cfg` (`OutputImageReadable`): the picture of `MirrorModule`
  is stored under "OutputImage", which `doc/Module.cc:48` and `:62` read and
  `GetOutputObject` refuses (`XiDriver.cpp:211`, `:326`).
* `MCModuleRunner_repeat.cfg` (`ValueIsTaken`): `std::map::insert` keeps the first
  value given for a name, and `SetInputParam` reports success for the second
  (`XiDriver.cpp:243`), where `doc/Module.cc:21` says that it sets the threshold.
* `MCXmlConfig_open.cfg` (`AppliedIsWhole`): an item whose device fails to open is
  skipped in silence (`XiXmlDriver.cpp:35-36`) and the FPGA is notified all the same
  (`XiXmlDevice.cpp:127-130`), "when everything is set", as the comment there says.
* `MCDates_summer.cfg` (`ClockShowsDate`): `setSysDate` and `setRtcDate` fill a `tm` with
  `tm_isdst` 0, so that a date in summer is taken as standard time and set an hour
  late (`libdate.cpp:253`, `:348`); `libdate.h:63` and `:66` promise local time.

Met on the way and not stated as a finding, because no line of the repository says
otherwise: reading the settings back empties the value of a `Double` item (there
is no case for it in `ParamItemGet`), so that setting that file again
writes the curve for 0; `config/camera.xml` gives TriggerPolarity the words "Hight;Low"
while `config/m001.xml` makes it an Int, so that both mean 0.  `saveFile`
truncates `/etc/network/interfaces` before it writes it (`libnetwork.cpp:102`): a
crash in between loses the lines of every interface, and the next `setNetWork`
brings back only its own (the case `torn` of `OthersKept`).

## 7. Not modelled

* Failures of `open` and `mmap`: the constructor goes on with NULL.
* `getImage` of `XiPictureDriver` and `XiImageDevice`: public, without a caller;
  `getImageBuff` from a thread of the application, without the mutex.
* In `ModuleRunner`, a `delete` of the image device that never returns: it is one
  step there; the join inside it is in `EventList`.
* A callback that calls the driver back (it would lock a mutex its thread
  holds): immediate, no interleaving needed.
* The data race of the destructor's `clear` on the two maps with a running `Execute`
  (`XiDriver.cpp:51-52`): the steps interleave, a torn `std::map` is left out.
* Pixel data and address arithmetic of the buffers; sensor parameters; logging.
* Files of `/etc/network/interfaces` in which several interfaces share an auto
  line, or an interface's name contains that of the object's.
* Edits of that file by other programs between two calls on one object.
* ioctl, `restartNetWork`.
* A missing parameter table or camera file (`XiXmlDriver` and `XiXmlDevice` go on
  with an empty document), and an item without a Value.
* Of `MxcDate`: `getTimeInfo` and `getAllZone`, which nothing calls; the walk through
  `/usr/share/zoneinfo` and its change of the working directory; the text forms
  of dates and offsets (the minutes of a half-hour offset are lost in
  `s_offset`); the memory of `getaddrinfo`; the results the callers ignore.
* `XiLog`: it writes to log4cpp and changes no state the rest reads.
