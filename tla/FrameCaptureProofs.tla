------------------------- MODULE FrameCaptureProofs -------------------------
(***************************************************************************)
(* What TLAPS proves about FrameCapture for any number of clients, buffers *)
(* and handlers and for any calls: the type invariant, mutual exclusion on *)
(* m_ImageCallBackMutex, that only the registered handler runs, that no    *)
(* thread is inside the driver once it is unmapped, and that the driver    *)
(* implements module CallbackRegistry; for an application that grabs from  *)
(* one thread in the soft-trigger mode, that each grab copies the whole    *)
(* frame of its own trigger and leaves no buffer locked.                   *)
(***************************************************************************)
EXTENDS FrameCapture, TLAPS

USE DEF At, Goto, Begin

(* A thread that has read the ready register knows which buffer it deals   *)
(* with.                                                                   *)
ImageHasBuf == ipc \in {"wait", "lockR", "lockW", "unlockR", "unlockW"} => ibuf \in Bufs
ClientHasBuf == \A c \in Clients :
    cpc[c] \in {"grabWait", "grabLockR", "grabLockW", "grabCopy",
               "grabUnlockR", "grabUnlockW"} => cbuf[c] \in Bufs

TypeInv == TypeOK /\ ImageHasBuf /\ ClientHasBuf

(* Every step keeps the types, and the buffer numbers threads hold.        *)
THEOREM TypeCorrect == Spec => []TypeInv
<1>. USE DEF TypeInv, TypeOK, HwTypeOK, ImageHasBuf, ClientHasBuf,
             ImageSteps, ClientSteps, hwVars, objVars, imgVars, cliVars
<1>1. Init => TypeInv
  BY BufAssumption, LeftoverAssumption DEF Init, HwInit
<1>2. TypeInv /\ [Next]_vars => TypeInv'
  <2>. SUFFICES ASSUME TypeInv, [Next]_vars PROVE TypeInv'
    OBVIOUS
  <2>1. CASE FpgaNext
    <3>1. CASE Publish
      BY <2>1, <3>1 DEF FpgaNext, Publish
    <3>2. ASSUME NEW b \in Bufs, HardExposure(b) PROVE TypeInv'
      BY <2>1, <3>2 DEF FpgaNext, HardExposure, MayFill
    <3>3. ASSUME NEW b \in Bufs, SoftExposure(b) PROVE TypeInv'
      <4>1. trig' \in BOOLEAN
        BY <3>3, Zenon DEF SoftExposure
      <4>. QED
        BY <2>1, <3>3, <4>1 DEF FpgaNext, SoftExposure, MayFill
    <3>. QED
      BY <2>1, <3>1, <3>2, <3>3 DEF FpgaNext, HwNext
  <2>2. CASE ImageTest
    BY <2>2 DEF ImageTest
  <2>3. CASE ImageLock
    BY <2>3 DEF ImageLock
  <2>4. CASE ImageCheck
    BY <2>4 DEF ImageCheck
  <2>5. CASE ImageRead
    BY <2>5 DEF ImageRead
  <2>6. CASE ImageWait
    BY <2>6 DEF ImageWait
  <2>7. CASE ImageLockRead
    BY <2>7 DEF ImageLockRead
  <2>8. CASE ImageLockWrite
    BY <2>8 DEF ImageLockWrite, WriteLock
  <2>9. CASE ImageUnlockRead
    BY <2>9 DEF ImageUnlockRead
  <2>10. CASE ImageUnlockWrite
    BY <2>10 DEF ImageUnlockWrite, WriteLock
  <2>11. CASE ImageRecheck
    BY <2>11 DEF ImageRecheck
  <2>12. CASE ImageCall
    BY <2>12 DEF ImageCall
  <2>13. CASE ImageReturn
    BY <2>13 DEF ImageReturn
  <2>14. CASE ImageUnlock
    <3>1. iready' \in BOOLEAN
      BY <2>14, Zenon DEF ImageUnlock
    <3>. QED
      BY <2>14, <3>1 DEF ImageUnlock
  <2>15. ASSUME NEW c \in Clients, New(c) PROVE TypeInv'
    BY <2>15 DEF New
  <2>16. ASSUME NEW c \in Clients, Delete(c) PROVE TypeInv'
    <3>1. working' \in BOOLEAN
      BY <2>16, Zenon DEF Delete
    <3>. QED
      BY <2>16, <3>1 DEF Delete
  <2>17. ASSUME NEW c \in Clients, Register(c) PROVE TypeInv'
    BY <2>17 DEF Register
  <2>18. ASSUME NEW c \in Clients, HasRegister(c) PROVE TypeInv'
    BY <2>18 DEF HasRegister
  <2>19. ASSUME NEW c \in Clients, Grab(c) PROVE TypeInv'
    BY <2>19 DEF Grab
  <2>20. ASSUME NEW c \in Clients, SetTriggerMode(c) PROVE TypeInv'
    BY <2>20, CallAssumption DEF SetTriggerMode, WriteMode
  <2>21. ASSUME NEW c \in Clients, EnableCapture(c) PROVE TypeInv'
    BY <2>21 DEF EnableCapture, WriteCapture
  <2>22. ASSUME NEW c \in Clients, SoftTrigger(c) PROVE TypeInv'
    BY <2>22 DEF SoftTrigger, WriteTrigger
  <2>23. ASSUME NEW c \in Clients, RegisterLock(c) PROVE TypeInv'
    BY <2>23 DEF RegisterLock
  <2>24. ASSUME NEW c \in Clients, HasLock(c) PROVE TypeInv'
    BY <2>24 DEF HasLock
  <2>25. ASSUME NEW c \in Clients, NewCapture(c) PROVE TypeInv'
    BY <2>25 DEF NewCapture, WriteCapture
  <2>26. ASSUME NEW c \in Clients, NewMode(c) PROVE TypeInv'
    BY <2>26 DEF NewMode, WriteMode
  <2>27. ASSUME NEW c \in Clients, Join(c) PROVE TypeInv'
    BY <2>27 DEF Join
  <2>28. ASSUME NEW c \in Clients, Unmap(c) PROVE TypeInv'
    <3>1. mapped' \in BOOLEAN
      BY <2>28, Zenon DEF Unmap
    <3>. QED
      BY <2>28, <3>1 DEF Unmap
  <2>29. ASSUME NEW c \in Clients, RegisterStore(c) PROVE TypeInv'
    BY <2>29 DEF RegisterStore
  <2>30. ASSUME NEW c \in Clients, RegisterUnlock(c) PROVE TypeInv'
    BY <2>30 DEF RegisterUnlock
  <2>31. ASSUME NEW c \in Clients, HasUnlock(c) PROVE TypeInv'
    BY <2>31 DEF HasUnlock
  <2>32. ASSUME NEW c \in Clients, GrabSwitch(c) PROVE TypeInv'
    BY <2>32 DEF GrabSwitch, WriteMode
  <2>33. ASSUME NEW c \in Clients, GrabTrigger(c) PROVE TypeInv'
    BY <2>33 DEF GrabTrigger, WriteTrigger
  <2>34. ASSUME NEW c \in Clients, GrabRead(c) PROVE TypeInv'
    BY <2>34 DEF GrabRead
  <2>35. ASSUME NEW c \in Clients, GrabWait(c) PROVE TypeInv'
    BY <2>35 DEF GrabWait
  <2>36. ASSUME NEW c \in Clients, GrabLockRead(c) PROVE TypeInv'
    BY <2>36 DEF GrabLockRead
  <2>37. ASSUME NEW c \in Clients, GrabLockWrite(c) PROVE TypeInv'
    BY <2>37 DEF GrabLockWrite, WriteLock
  <2>38. ASSUME NEW c \in Clients, GrabCopy(c) PROVE TypeInv'
    BY <2>38 DEF GrabCopy
  <2>39. ASSUME NEW c \in Clients, GrabUnlockRead(c) PROVE TypeInv'
    BY <2>39 DEF GrabUnlockRead
  <2>40. ASSUME NEW c \in Clients, GrabUnlockWrite(c) PROVE TypeInv'
    BY <2>40 DEF GrabUnlockWrite, WriteLock
  <2>41. ASSUME NEW c \in Clients, Picture(c) PROVE TypeInv'
    BY <2>41 DEF Picture
  <2>42. ASSUME NEW c \in Clients, PictureUnlockRead(c) PROVE TypeInv'
    BY <2>42 DEF PictureUnlockRead
  <2>43. ASSUME NEW c \in Clients, PictureUnlockWrite(c) PROVE TypeInv'
    BY <2>43, FirstAssumption DEF PictureUnlockWrite, WriteLock
  <2>44. ASSUME NEW c \in Clients, PictureRead(c) PROVE TypeInv'
    BY <2>44 DEF PictureRead
  <2>45. ASSUME NEW c \in Clients, PictureWait(c) PROVE TypeInv'
    <3>1. CASE working /\ ~cready[c]
      BY <2>45, <3>1 DEF PictureWait
    <3>2. CASE ~(working /\ ~cready[c])
      <4>1. cready' \in [Clients -> BOOLEAN]
        BY <2>45, <3>2, Zenon DEF PictureWait
      <4>. QED
        BY <2>45, <3>2, <4>1 DEF PictureWait
    <3>. QED
      BY <3>1, <3>2
  <2>46. ASSUME NEW c \in Clients, PictureLockRead(c) PROVE TypeInv'
    BY <2>46 DEF PictureLockRead
  <2>47. ASSUME NEW c \in Clients, PictureLockWrite(c) PROVE TypeInv'
    BY <2>47, FirstAssumption DEF PictureLockWrite, WriteLock
  <2>48. CASE UNCHANGED vars
    BY <2>48 DEF vars
  <2>. QED
    BY <2>1, <2>2, <2>3, <2>4, <2>5, <2>6, <2>7, <2>8, <2>9, <2>10, <2>11, <2>12,
       <2>13, <2>14, <2>15, <2>16, <2>17, <2>18, <2>19, <2>20, <2>21, <2>22, <2>23, <2>24,
       <2>25, <2>26, <2>27, <2>28, <2>29, <2>30, <2>31, <2>32, <2>33, <2>34, <2>35, <2>36,
       <2>37, <2>38, <2>39, <2>40, <2>41, <2>42, <2>43, <2>44, <2>45, <2>46, <2>47, <2>48
       DEF Next, ImageNext, CallNext, MutexNext, StepNext
<1>. QED
  BY <1>1, <1>2, PTL DEF Spec

---------------------------------------------------------------------------
(* The inductive invariant behind the safety properties.                   *)

(* The critical sections of m_ImageCallBackMutex.                          *)
ImageInside == ipc \notin {"off", "test", "lock"}
ClientInside(c) == cpc[c] \in {"regStore", "regUnlock", "hasUnlock"}

(* Mutual exclusion on m_ImageCallBackMutex: at most one thread is between *)
(* its lock() and its unlock().                                            *)
MutualExclusion ==
    /\ ImageInside => \A c \in Clients : ~ClientInside(c)
    /\ \A c, d \in Clients : ClientInside(c) /\ ClientInside(d) => c = d

(* The holder of the mutex is the thread inside its critical section.      *)
OwnerInv ==
    /\ ImageInside <=> owner = Image
    /\ \A c \in Clients : ClientInside(c) <=> owner = c

(* The image thread calls the handler it found under the mutex, which no   *)
(* registration can have replaced since.                                   *)
CallInv ==
    /\ running # NULL <=> ipc = "callback"
    /\ running # NULL => running = handler
    /\ ipc = "call" => handler # NULL

(* The life of the object: constructor and destructor run alone, and the   *)
(* image thread has ended when the memory is unmapped.                     *)
Constructing(c) == cpc[c] \in {"newCapture", "newMode"}
Destructing(c) == cpc[c] \in {"join", "unmap"}
LifeInv ==
    /\ mapped <=> obj # "none"
    /\ obj = "none" => ipc = "off"
    /\ \A c \in Clients :
        /\ Constructing(c) => obj = "starting"
        /\ Destructing(c) => obj = "closing"
        /\ cpc[c] = "unmap" => ipc = "off"
        /\ cpc[c] # "idle" => \/ obj = "live"
                             \/ /\ Constructing(c) \/ Destructing(c)
                                /\ \A d \in Clients \ {c} : cpc[d] = "idle"

SafeInv == OwnerInv /\ CallInv /\ LifeInv

(* The three parts of SafeInv hold in every reachable state.               *)
THEOREM SafetyInvariant == Spec => []SafeInv
<1>. USE DEF SafeInv, OwnerInv, CallInv, LifeInv, ImageInside, ClientInside,
             Constructing, Destructing
<1>1. Init => SafeInv
  BY ClientAssumption, HandlerAssumption DEF Init
<1>2. TypeInv /\ SafeInv /\ [Next]_vars => SafeInv'
  <2>. SUFFICES ASSUME TypeInv, SafeInv, [Next]_vars PROVE SafeInv'
    OBVIOUS
  <2>. USE ClientAssumption, HandlerAssumption
           DEF TypeInv, TypeOK, ImageSteps, ClientSteps, hwVars, objVars, imgVars, cliVars
  <2>1. CASE FpgaNext
    BY <2>1 DEF FpgaNext
  <2>2. CASE ImageTest
    BY <2>2 DEF ImageTest
  <2>3. CASE ImageLock
    BY <2>3 DEF ImageLock
  <2>4. CASE ImageCheck
    BY <2>4 DEF ImageCheck
  <2>5. CASE ImageRead
    BY <2>5 DEF ImageRead
  <2>6. CASE ImageWait
    BY <2>6 DEF ImageWait
  <2>7. CASE ImageLockRead
    BY <2>7 DEF ImageLockRead
  <2>8. CASE ImageLockWrite
    BY <2>8 DEF ImageLockWrite
  <2>9. CASE ImageUnlockRead
    BY <2>9 DEF ImageUnlockRead
  <2>10. CASE ImageUnlockWrite
    BY <2>10 DEF ImageUnlockWrite
  <2>11. CASE ImageRecheck
    BY <2>11 DEF ImageRecheck
  <2>12. CASE ImageCall
    BY <2>12 DEF ImageCall
  <2>13. CASE ImageReturn
    BY <2>13 DEF ImageReturn
  <2>14. CASE ImageUnlock
    BY <2>14 DEF ImageUnlock
  <2>15. ASSUME NEW c \in Clients, New(c) PROVE SafeInv'
    BY <2>15 DEF New
  <2>16. ASSUME NEW c \in Clients, Delete(c) PROVE SafeInv'
    BY <2>16 DEF Delete
  <2>17. ASSUME NEW c \in Clients, Register(c) PROVE SafeInv'
    BY <2>17 DEF Register
  <2>18. ASSUME NEW c \in Clients, HasRegister(c) PROVE SafeInv'
    BY <2>18 DEF HasRegister
  <2>19. ASSUME NEW c \in Clients, Grab(c) PROVE SafeInv'
    BY <2>19 DEF Grab
  <2>20. ASSUME NEW c \in Clients, SetTriggerMode(c) PROVE SafeInv'
    BY <2>20 DEF SetTriggerMode
  <2>21. ASSUME NEW c \in Clients, EnableCapture(c) PROVE SafeInv'
    BY <2>21 DEF EnableCapture
  <2>22. ASSUME NEW c \in Clients, SoftTrigger(c) PROVE SafeInv'
    BY <2>22 DEF SoftTrigger
  <2>23. ASSUME NEW c \in Clients, RegisterLock(c) PROVE SafeInv'
    BY <2>23 DEF RegisterLock
  <2>24. ASSUME NEW c \in Clients, HasLock(c) PROVE SafeInv'
    BY <2>24 DEF HasLock
  <2>25. ASSUME NEW c \in Clients, NewCapture(c) PROVE SafeInv'
    BY <2>25 DEF NewCapture
  <2>26. ASSUME NEW c \in Clients, NewMode(c) PROVE SafeInv'
    BY <2>26 DEF NewMode
  <2>27. ASSUME NEW c \in Clients, Join(c) PROVE SafeInv'
    BY <2>27 DEF Join
  <2>28. ASSUME NEW c \in Clients, Unmap(c) PROVE SafeInv'
    BY <2>28 DEF Unmap
  <2>29. ASSUME NEW c \in Clients, RegisterStore(c) PROVE SafeInv'
    BY <2>29 DEF RegisterStore
  <2>30. ASSUME NEW c \in Clients, RegisterUnlock(c) PROVE SafeInv'
    BY <2>30 DEF RegisterUnlock
  <2>31. ASSUME NEW c \in Clients, HasUnlock(c) PROVE SafeInv'
    BY <2>31 DEF HasUnlock
  <2>32. ASSUME NEW c \in Clients, GrabSwitch(c) PROVE SafeInv'
    BY <2>32 DEF GrabSwitch
  <2>33. ASSUME NEW c \in Clients, GrabTrigger(c) PROVE SafeInv'
    BY <2>33 DEF GrabTrigger
  <2>34. ASSUME NEW c \in Clients, GrabRead(c) PROVE SafeInv'
    BY <2>34 DEF GrabRead
  <2>35. ASSUME NEW c \in Clients, GrabWait(c) PROVE SafeInv'
    BY <2>35 DEF GrabWait
  <2>36. ASSUME NEW c \in Clients, GrabLockRead(c) PROVE SafeInv'
    BY <2>36 DEF GrabLockRead
  <2>37. ASSUME NEW c \in Clients, GrabLockWrite(c) PROVE SafeInv'
    BY <2>37 DEF GrabLockWrite
  <2>38. ASSUME NEW c \in Clients, GrabCopy(c) PROVE SafeInv'
    BY <2>38 DEF GrabCopy
  <2>39. ASSUME NEW c \in Clients, GrabUnlockRead(c) PROVE SafeInv'
    BY <2>39 DEF GrabUnlockRead
  <2>40. ASSUME NEW c \in Clients, GrabUnlockWrite(c) PROVE SafeInv'
    BY <2>40 DEF GrabUnlockWrite
  <2>41. ASSUME NEW c \in Clients, Picture(c) PROVE SafeInv'
    BY <2>41 DEF Picture
  <2>42. ASSUME NEW c \in Clients, PictureUnlockRead(c) PROVE SafeInv'
    BY <2>42 DEF PictureUnlockRead
  <2>43. ASSUME NEW c \in Clients, PictureUnlockWrite(c) PROVE SafeInv'
    BY <2>43 DEF PictureUnlockWrite
  <2>44. ASSUME NEW c \in Clients, PictureRead(c) PROVE SafeInv'
    BY <2>44 DEF PictureRead
  <2>45. ASSUME NEW c \in Clients, PictureWait(c) PROVE SafeInv'
    BY <2>45 DEF PictureWait
  <2>46. ASSUME NEW c \in Clients, PictureLockRead(c) PROVE SafeInv'
    BY <2>46 DEF PictureLockRead
  <2>47. ASSUME NEW c \in Clients, PictureLockWrite(c) PROVE SafeInv'
    BY <2>47 DEF PictureLockWrite
  <2>48. CASE UNCHANGED vars
    BY <2>48 DEF vars
  <2>. QED
    BY <2>1, <2>2, <2>3, <2>4, <2>5, <2>6, <2>7, <2>8, <2>9, <2>10, <2>11, <2>12,
       <2>13, <2>14, <2>15, <2>16, <2>17, <2>18, <2>19, <2>20, <2>21, <2>22, <2>23, <2>24,
       <2>25, <2>26, <2>27, <2>28, <2>29, <2>30, <2>31, <2>32, <2>33, <2>34, <2>35, <2>36,
       <2>37, <2>38, <2>39, <2>40, <2>41, <2>42, <2>43, <2>44, <2>45, <2>46, <2>47, <2>48
       DEF Next, ImageNext, CallNext, MutexNext, StepNext
<1>. QED
  BY <1>1, <1>2, TypeCorrect, PTL DEF Spec

(* Every variable has its type in every reachable state.                   *)
THEOREM TypeOKHolds == Spec => []TypeOK
<1>1. TypeInv => TypeOK
  BY DEF TypeInv
<1>. QED
  BY <1>1, TypeCorrect, PTL

---------------------------------------------------------------------------
(* At most one thread is between lock() and unlock() of                    *)
(* m_ImageCallBackMutex.                                                   *)
THEOREM MutualExclusionHolds == Spec => []MutualExclusion
<1>1. SafeInv => MutualExclusion
  BY ClientAssumption DEF SafeInv, OwnerInv, MutualExclusion
<1>. QED
  BY <1>1, SafetyInvariant, PTL

(* Only the registered handler runs: after registerImageCallback returns,  *)
(* the handler it replaced is never called again.                          *)
THEOREM RunningIsRegisteredHolds == Spec => []RunningIsRegistered
<1>1. SafeInv => RunningIsRegistered
  BY DEF SafeInv, CallInv, RunningIsRegistered
<1>. QED
  BY <1>1, SafetyInvariant, PTL

(* No thread is inside the driver, and no handler runs, once the           *)
(* destructor has unmapped the registers and the frame memory.             *)
THEOREM NoAccessAfterUnmapHolds == Spec => []NoAccessAfterUnmap
<1>1. TypeInv /\ SafeInv => NoAccessAfterUnmap
  BY DEF TypeInv, TypeOK, SafeInv, CallInv, LifeInv, Constructing, Destructing,
         NoAccessAfterUnmap, At
<1>. QED
  BY <1>1, TypeCorrect, SafetyInvariant, PTL

---------------------------------------------------------------------------
(* Where a wait of the image thread can end: under a steady hardware       *)
(* trigger mode, with a ready frame or because the driver is stopping.     *)
Delivering == ipc \in {"read", "wait", "lockR", "lockW", "unlockR", "unlockW",
                       "recheck", "call", "callback"}
ReadyInv ==
    /\ obj = "starting" => handler = NULL
    /\ Delivering => mode = 1 /\ handler # NULL
    /\ ipc \in {"lockR", "lockW", "unlockR", "unlockW", "recheck"} => iready \/ ~working
    /\ ipc \in {"call", "callback"} => iready

(* If the application only ever selects the hardware trigger mode, a       *)
(* handler is called only with a frame whose ready status was seen: the    *)
(* destructor, which also ends the wait, lets no other buffer out.         *)
THEOREM CallbackFrameReadyHolds ==
    ASSUME ModeValues \subseteq {1}
    PROVE  Spec => []CallbackFrameReady
<1>. USE DEF ReadyInv, Delivering
<1>1. Init => ReadyInv
  BY DEF Init
<1>2. TypeInv /\ SafeInv /\ ReadyInv /\ [Next]_vars => ReadyInv'
  <2>. SUFFICES ASSUME TypeInv, SafeInv, ReadyInv, [Next]_vars PROVE ReadyInv'
    OBVIOUS
  <2>. USE ClientAssumption
           DEF TypeInv, TypeOK, ImageSteps, ClientSteps, hwVars, objVars, imgVars, cliVars,
               SafeInv, OwnerInv, LifeInv, ImageInside, ClientInside, Constructing
  <2>1. CASE FpgaNext
    BY <2>1 DEF FpgaNext, HwNext, Publish, HardExposure, SoftExposure
  <2>2. CASE ImageTest
    BY <2>2 DEF ImageTest
  <2>3. CASE ImageLock
    BY <2>3 DEF ImageLock
  <2>4. CASE ImageCheck
    BY <2>4 DEF ImageCheck
  <2>5. CASE ImageRead
    BY <2>5 DEF ImageRead
  <2>6. CASE ImageWait
    BY <2>6 DEF ImageWait
  <2>7. CASE ImageLockRead
    BY <2>7 DEF ImageLockRead
  <2>8. CASE ImageLockWrite
    BY <2>8 DEF ImageLockWrite, WriteLock
  <2>9. CASE ImageUnlockRead
    BY <2>9 DEF ImageUnlockRead
  <2>10. CASE ImageUnlockWrite
    BY <2>10 DEF ImageUnlockWrite, WriteLock
  <2>11. CASE ImageRecheck
    BY <2>11 DEF ImageRecheck
  <2>12. CASE ImageCall
    BY <2>12 DEF ImageCall
  <2>13. CASE ImageReturn
    BY <2>13 DEF ImageReturn
  <2>14. CASE ImageUnlock
    BY <2>14 DEF ImageUnlock
  <2>15. ASSUME NEW c \in Clients, New(c) PROVE ReadyInv'
    BY <2>15 DEF New
  <2>16. ASSUME NEW c \in Clients, Delete(c) PROVE ReadyInv'
    BY <2>16 DEF Delete
  <2>17. ASSUME NEW c \in Clients, Register(c) PROVE ReadyInv'
    BY <2>17 DEF Register
  <2>18. ASSUME NEW c \in Clients, HasRegister(c) PROVE ReadyInv'
    BY <2>18 DEF HasRegister
  <2>19. ASSUME NEW c \in Clients, Grab(c) PROVE ReadyInv'
    BY <2>19 DEF Grab
  <2>20. ASSUME NEW c \in Clients, SetTriggerMode(c) PROVE ReadyInv'
    BY <2>20 DEF SetTriggerMode, WriteMode
  <2>21. ASSUME NEW c \in Clients, EnableCapture(c) PROVE ReadyInv'
    BY <2>21 DEF EnableCapture, WriteCapture
  <2>22. ASSUME NEW c \in Clients, SoftTrigger(c) PROVE ReadyInv'
    BY <2>22 DEF SoftTrigger, WriteTrigger
  <2>23. ASSUME NEW c \in Clients, RegisterLock(c) PROVE ReadyInv'
    BY <2>23 DEF RegisterLock
  <2>24. ASSUME NEW c \in Clients, HasLock(c) PROVE ReadyInv'
    BY <2>24 DEF HasLock
  <2>25. ASSUME NEW c \in Clients, NewCapture(c) PROVE ReadyInv'
    BY <2>25 DEF NewCapture, WriteCapture
  <2>26. ASSUME NEW c \in Clients, NewMode(c) PROVE ReadyInv'
    BY <2>26 DEF NewMode, WriteMode
  <2>27. ASSUME NEW c \in Clients, Join(c) PROVE ReadyInv'
    BY <2>27 DEF Join
  <2>28. ASSUME NEW c \in Clients, Unmap(c) PROVE ReadyInv'
    BY <2>28 DEF Unmap
  <2>29. ASSUME NEW c \in Clients, RegisterStore(c) PROVE ReadyInv'
    BY <2>29 DEF RegisterStore
  <2>30. ASSUME NEW c \in Clients, RegisterUnlock(c) PROVE ReadyInv'
    BY <2>30 DEF RegisterUnlock
  <2>31. ASSUME NEW c \in Clients, HasUnlock(c) PROVE ReadyInv'
    BY <2>31 DEF HasUnlock
  <2>32. ASSUME NEW c \in Clients, GrabSwitch(c) PROVE ReadyInv'
    BY <2>32 DEF GrabSwitch, WriteMode
  <2>33. ASSUME NEW c \in Clients, GrabTrigger(c) PROVE ReadyInv'
    BY <2>33 DEF GrabTrigger, WriteTrigger
  <2>34. ASSUME NEW c \in Clients, GrabRead(c) PROVE ReadyInv'
    BY <2>34 DEF GrabRead
  <2>35. ASSUME NEW c \in Clients, GrabWait(c) PROVE ReadyInv'
    BY <2>35 DEF GrabWait
  <2>36. ASSUME NEW c \in Clients, GrabLockRead(c) PROVE ReadyInv'
    BY <2>36 DEF GrabLockRead
  <2>37. ASSUME NEW c \in Clients, GrabLockWrite(c) PROVE ReadyInv'
    BY <2>37 DEF GrabLockWrite, WriteLock
  <2>38. ASSUME NEW c \in Clients, GrabCopy(c) PROVE ReadyInv'
    BY <2>38 DEF GrabCopy
  <2>39. ASSUME NEW c \in Clients, GrabUnlockRead(c) PROVE ReadyInv'
    BY <2>39 DEF GrabUnlockRead
  <2>40. ASSUME NEW c \in Clients, GrabUnlockWrite(c) PROVE ReadyInv'
    BY <2>40 DEF GrabUnlockWrite, WriteLock
  <2>41. ASSUME NEW c \in Clients, Picture(c) PROVE ReadyInv'
    BY <2>41 DEF Picture
  <2>42. ASSUME NEW c \in Clients, PictureUnlockRead(c) PROVE ReadyInv'
    BY <2>42 DEF PictureUnlockRead
  <2>43. ASSUME NEW c \in Clients, PictureUnlockWrite(c) PROVE ReadyInv'
    BY <2>43, FirstAssumption DEF PictureUnlockWrite, WriteLock
  <2>44. ASSUME NEW c \in Clients, PictureRead(c) PROVE ReadyInv'
    BY <2>44 DEF PictureRead
  <2>45. ASSUME NEW c \in Clients, PictureWait(c) PROVE ReadyInv'
    BY <2>45 DEF PictureWait
  <2>46. ASSUME NEW c \in Clients, PictureLockRead(c) PROVE ReadyInv'
    BY <2>46 DEF PictureLockRead
  <2>47. ASSUME NEW c \in Clients, PictureLockWrite(c) PROVE ReadyInv'
    BY <2>47, FirstAssumption DEF PictureLockWrite, WriteLock
  <2>48. CASE UNCHANGED vars
    BY <2>48 DEF vars
  <2>. QED
    BY <2>1, <2>2, <2>3, <2>4, <2>5, <2>6, <2>7, <2>8, <2>9, <2>10, <2>11, <2>12,
       <2>13, <2>14, <2>15, <2>16, <2>17, <2>18, <2>19, <2>20, <2>21, <2>22, <2>23, <2>24,
       <2>25, <2>26, <2>27, <2>28, <2>29, <2>30, <2>31, <2>32, <2>33, <2>34, <2>35, <2>36,
       <2>37, <2>38, <2>39, <2>40, <2>41, <2>42, <2>43, <2>44, <2>45, <2>46, <2>47, <2>48
       DEF Next, ImageNext, CallNext, MutexNext, StepNext
<1>3. ReadyInv /\ SafeInv => CallbackFrameReady
  BY DEF SafeInv, CallInv, CallbackFrameReady
<1>. QED
  BY <1>1, <1>2, <1>3, TypeCorrect, SafetyInvariant, PTL DEF Spec

---------------------------------------------------------------------------
(* The driver implements CallbackRegistry: the constructor creates it, the *)
(* store under the mutex registers, the unmapping destroys it, and every   *)
(* other step leaves the abstract state alone.                             *)
THEOREM RefinesRegistry == Spec => ImplementsRegistry
<1>1. Init => Registry!Init
  BY DEF Init, Registry!Init
<1>2. TypeInv /\ SafeInv /\ [Next]_vars => [Registry!Next]_(Registry!vars)
  <2>. SUFFICES ASSUME TypeInv, SafeInv, [Next]_vars
                PROVE  [Registry!Next]_(Registry!vars)
    OBVIOUS
  <2>. USE DEF Registry!vars, hwVars, objVars, imgVars, cliVars
  <2>1. CASE FpgaNext
    BY <2>1 DEF FpgaNext
  <2>2. CASE ImageTest
    BY <2>2 DEF ImageTest
  <2>3. CASE ImageLock
    BY <2>3 DEF ImageLock
  <2>4. CASE ImageCheck
    BY <2>4 DEF ImageCheck
  <2>5. CASE ImageRead
    BY <2>5 DEF ImageRead
  <2>6. CASE ImageWait
    BY <2>6 DEF ImageWait
  <2>7. CASE ImageLockRead
    BY <2>7 DEF ImageLockRead
  <2>8. CASE ImageLockWrite
    BY <2>8 DEF ImageLockWrite
  <2>9. CASE ImageUnlockRead
    BY <2>9 DEF ImageUnlockRead
  <2>10. CASE ImageUnlockWrite
    BY <2>10 DEF ImageUnlockWrite
  <2>11. CASE ImageRecheck
    BY <2>11 DEF ImageRecheck
  <2>12. CASE ImageCall
    <3>1. mapped /\ running = NULL /\ handler # NULL
      BY <2>12 DEF ImageCall, TypeInv, TypeOK, SafeInv, CallInv, LifeInv
    <3>. QED
      BY <2>12, <3>1 DEF ImageCall, Registry!Next, Registry!Call
  <2>13. CASE ImageReturn
    BY <2>13 DEF ImageReturn, Registry!Next, Registry!Return
  <2>14. CASE ImageUnlock
    BY <2>14 DEF ImageUnlock
  <2>15. ASSUME NEW c \in Clients, New(c) PROVE [Registry!Next]_(Registry!vars)
    <3>1. ~mapped
      BY <2>15 DEF New, SafeInv, LifeInv
    <3>. QED
      BY <2>15, <3>1 DEF New, Registry!Next, Registry!Create
  <2>16. ASSUME NEW c \in Clients, Delete(c) PROVE [Registry!Next]_(Registry!vars)
    BY <2>16 DEF Delete
  <2>17. ASSUME NEW c \in Clients, Register(c) PROVE [Registry!Next]_(Registry!vars)
    BY <2>17 DEF Register
  <2>18. ASSUME NEW c \in Clients, HasRegister(c) PROVE [Registry!Next]_(Registry!vars)
    BY <2>18 DEF HasRegister
  <2>19. ASSUME NEW c \in Clients, Grab(c) PROVE [Registry!Next]_(Registry!vars)
    BY <2>19 DEF Grab
  <2>20. ASSUME NEW c \in Clients, SetTriggerMode(c) PROVE [Registry!Next]_(Registry!vars)
    BY <2>20 DEF SetTriggerMode
  <2>21. ASSUME NEW c \in Clients, EnableCapture(c) PROVE [Registry!Next]_(Registry!vars)
    BY <2>21 DEF EnableCapture
  <2>22. ASSUME NEW c \in Clients, SoftTrigger(c) PROVE [Registry!Next]_(Registry!vars)
    BY <2>22 DEF SoftTrigger
  <2>23. ASSUME NEW c \in Clients, RegisterLock(c) PROVE [Registry!Next]_(Registry!vars)
    BY <2>23 DEF RegisterLock
  <2>24. ASSUME NEW c \in Clients, HasLock(c) PROVE [Registry!Next]_(Registry!vars)
    BY <2>24 DEF HasLock
  <2>25. ASSUME NEW c \in Clients, NewCapture(c) PROVE [Registry!Next]_(Registry!vars)
    BY <2>25 DEF NewCapture
  <2>26. ASSUME NEW c \in Clients, NewMode(c) PROVE [Registry!Next]_(Registry!vars)
    BY <2>26 DEF NewMode
  <2>27. ASSUME NEW c \in Clients, Join(c) PROVE [Registry!Next]_(Registry!vars)
    BY <2>27 DEF Join
  <2>28. ASSUME NEW c \in Clients, Unmap(c) PROVE [Registry!Next]_(Registry!vars)
    <3>1. running = NULL
      BY <2>28 DEF Unmap, SafeInv, CallInv, LifeInv
    <3>. QED
      BY <2>28, <3>1 DEF Unmap, Registry!Next, Registry!Destroy
  <2>29. ASSUME NEW c \in Clients, RegisterStore(c) PROVE [Registry!Next]_(Registry!vars)
    <3>1. mapped /\ running = NULL
      BY <2>29, ClientAssumption DEF RegisterStore, SafeInv, OwnerInv, CallInv, LifeInv,
         ImageInside, ClientInside, Constructing, Destructing
    <3>2. arg[c] \in Handlers \cup {NULL}
      BY DEF TypeInv, TypeOK
    <3>. QED
      BY <2>29, <3>1, <3>2 DEF RegisterStore, Registry!Next, Registry!Register
  <2>30. ASSUME NEW c \in Clients, RegisterUnlock(c) PROVE [Registry!Next]_(Registry!vars)
    BY <2>30 DEF RegisterUnlock
  <2>31. ASSUME NEW c \in Clients, HasUnlock(c) PROVE [Registry!Next]_(Registry!vars)
    BY <2>31 DEF HasUnlock
  <2>32. ASSUME NEW c \in Clients, GrabSwitch(c) PROVE [Registry!Next]_(Registry!vars)
    BY <2>32 DEF GrabSwitch
  <2>33. ASSUME NEW c \in Clients, GrabTrigger(c) PROVE [Registry!Next]_(Registry!vars)
    BY <2>33 DEF GrabTrigger
  <2>34. ASSUME NEW c \in Clients, GrabRead(c) PROVE [Registry!Next]_(Registry!vars)
    BY <2>34 DEF GrabRead
  <2>35. ASSUME NEW c \in Clients, GrabWait(c) PROVE [Registry!Next]_(Registry!vars)
    BY <2>35 DEF GrabWait
  <2>36. ASSUME NEW c \in Clients, GrabLockRead(c) PROVE [Registry!Next]_(Registry!vars)
    BY <2>36 DEF GrabLockRead
  <2>37. ASSUME NEW c \in Clients, GrabLockWrite(c) PROVE [Registry!Next]_(Registry!vars)
    BY <2>37 DEF GrabLockWrite
  <2>38. ASSUME NEW c \in Clients, GrabCopy(c) PROVE [Registry!Next]_(Registry!vars)
    BY <2>38 DEF GrabCopy
  <2>39. ASSUME NEW c \in Clients, GrabUnlockRead(c) PROVE [Registry!Next]_(Registry!vars)
    BY <2>39 DEF GrabUnlockRead
  <2>40. ASSUME NEW c \in Clients, GrabUnlockWrite(c) PROVE [Registry!Next]_(Registry!vars)
    BY <2>40 DEF GrabUnlockWrite
  <2>41. ASSUME NEW c \in Clients, Picture(c) PROVE [Registry!Next]_(Registry!vars)
    BY <2>41 DEF Picture
  <2>42. ASSUME NEW c \in Clients, PictureUnlockRead(c) PROVE [Registry!Next]_(Registry!vars)
    BY <2>42 DEF PictureUnlockRead
  <2>43. ASSUME NEW c \in Clients, PictureUnlockWrite(c) PROVE [Registry!Next]_(Registry!vars)
    BY <2>43 DEF PictureUnlockWrite
  <2>44. ASSUME NEW c \in Clients, PictureRead(c) PROVE [Registry!Next]_(Registry!vars)
    BY <2>44 DEF PictureRead
  <2>45. ASSUME NEW c \in Clients, PictureWait(c) PROVE [Registry!Next]_(Registry!vars)
    BY <2>45 DEF PictureWait
  <2>46. ASSUME NEW c \in Clients, PictureLockRead(c) PROVE [Registry!Next]_(Registry!vars)
    BY <2>46 DEF PictureLockRead
  <2>47. ASSUME NEW c \in Clients, PictureLockWrite(c) PROVE [Registry!Next]_(Registry!vars)
    BY <2>47 DEF PictureLockWrite
  <2>48. CASE UNCHANGED vars
    BY <2>48 DEF vars
  <2>. QED
    BY <2>1, <2>2, <2>3, <2>4, <2>5, <2>6, <2>7, <2>8, <2>9, <2>10, <2>11, <2>12,
       <2>13, <2>14, <2>15, <2>16, <2>17, <2>18, <2>19, <2>20, <2>21, <2>22, <2>23, <2>24,
       <2>25, <2>26, <2>27, <2>28, <2>29, <2>30, <2>31, <2>32, <2>33, <2>34, <2>35, <2>36,
       <2>37, <2>38, <2>39, <2>40, <2>41, <2>42, <2>43, <2>44, <2>45, <2>46, <2>47, <2>48
       DEF Next, ImageNext, CallNext, MutexNext, StepNext
<1>. QED
  BY <1>1, <1>2, TypeCorrect, SafetyInvariant, PTL
     DEF Spec, ImplementsRegistry, Registry!Spec
---------------------------------------------------------------------------
(* Soft-trigger grabbing.                                                  *)

(* The application: one thread grabs, nobody else triggers or takes a      *)
(* buffer away, the trigger mode stays the soft one, and no frame is       *)
(* pending when the first driver starts.                                   *)
SoftGrabbing ==
    /\ OldModes \subseteq {0} /\ ModeValues \subseteq {0} /\ OldReady \subseteq {FALSE}
    /\ \A c \in Clients : "picture" \notin Calls[c] /\ "trigger" \notin Calls[c]
    /\ \A c, d \in Clients : "grab" \in Calls[c] /\ "grab" \in Calls[d] => c = d

(* The steps of GrabPicture: before its trigger, waiting for the frame,    *)
(* with the frame in hand, and while the buffer is locked.                 *)
Locking(c) == cpc[c] \in {"grabLockR", "grabLockW"}
Locked(c) == cpc[c] \in {"grabCopy", "grabUnlockR", "grabUnlockW"}
Triggered(c) == cpc[c] \in {"grabRead", "grabWait"} \/ Locking(c) \/ Locked(c)

(* The application never leaves the soft-trigger mode, so the image thread *)
(* does nothing, and the waits of its calls are not cut short.             *)
ModeInv ==
    /\ mode = 0
    /\ obj \in {"starting", "live"} => working
    /\ ipc \in {"off", "test", "lock", "check", "unlock"}
    /\ \A c \in Clients :
        /\ cpc[c] \notin {"grabSwitch", "picUnlockR", "picUnlockW", "picRead", "picWait",
                         "picLockR", "picLockW"}
        /\ cpc[c] = "grabTrigger" \/ Triggered(c) => "grab" \in Calls[c]

(* One trigger, one exposure, one pending frame: at most one of them is    *)
(* there, and it belongs to the call that is under way.                    *)
FrameInv ==
    /\ trig => filling = NoBuf /\ ~readySt
    /\ filling # NoBuf => ~readySt /\ fresh[filling]
    /\ readySt => fresh[readyBuf]
    /\ (\A c \in Clients : ~Triggered(c)) => ~trig /\ filling = NoBuf /\ ~readySt
    /\ \A c \in Clients :
        (cpc[c] = "grabWait" /\ cready[c]) \/ Locking(c) \/ Locked(c)
            => readySt /\ cbuf[c] = readyBuf

(* The lock register shows the one buffer that is being copied.            *)
LockInv ==
    /\ (\A c \in Clients : ~Locked(c)) => lockReg = {}
    /\ \A c \in Clients :
        /\ Locked(c) => lockReg = {cbuf[c]}
        /\ cpc[c] = "grabLockW" => creg[c] = {}
        /\ cpc[c] = "grabUnlockW" => creg[c] = {cbuf[c]}

(* The soft-trigger mode is never left.                                    *)
THEOREM ModeInvariant == ASSUME SoftGrabbing PROVE Spec => []ModeInv
<1>. USE DEF ModeInv, Triggered, Locking, Locked
<1>1. Init => ModeInv
  BY DEF Init, HwInit, SoftGrabbing
<1>2. TypeInv /\ SafeInv /\ ModeInv /\ [Next]_vars => ModeInv'
  <2>. SUFFICES ASSUME TypeInv, SafeInv, ModeInv, [Next]_vars PROVE ModeInv'
    OBVIOUS
  <2>. USE ClientAssumption, BufAssumption
           DEF TypeInv, TypeOK, HwTypeOK, ClientHasBuf, ImageSteps, ClientSteps,
               hwVars, objVars, imgVars, cliVars, SafeInv, LifeInv, Constructing,
               Destructing, SoftGrabbing, ModeInv
  <2>1. CASE FpgaNext
    BY <2>1 DEF FpgaNext, HwNext, Publish, HardExposure, SoftExposure
  <2>2. CASE ImageTest
    BY <2>2 DEF ImageTest
  <2>3. CASE ImageLock
    BY <2>3 DEF ImageLock
  <2>4. CASE ImageCheck
    BY <2>4 DEF ImageCheck
  <2>5. CASE ImageRead
    BY <2>5 DEF ImageRead
  <2>6. CASE ImageWait
    BY <2>6 DEF ImageWait
  <2>7. CASE ImageLockRead
    BY <2>7 DEF ImageLockRead
  <2>8. CASE ImageLockWrite
    BY <2>8 DEF ImageLockWrite, WriteLock
  <2>9. CASE ImageUnlockRead
    BY <2>9 DEF ImageUnlockRead
  <2>10. CASE ImageUnlockWrite
    BY <2>10 DEF ImageUnlockWrite, WriteLock
  <2>11. CASE ImageRecheck
    BY <2>11 DEF ImageRecheck
  <2>12. CASE ImageCall
    BY <2>12 DEF ImageCall
  <2>13. CASE ImageReturn
    BY <2>13 DEF ImageReturn
  <2>14. CASE ImageUnlock
    BY <2>14 DEF ImageUnlock
  <2>15. ASSUME NEW c \in Clients, New(c) PROVE ModeInv'
    BY <2>15 DEF New
  <2>16. ASSUME NEW c \in Clients, Delete(c) PROVE ModeInv'
    BY <2>16 DEF Delete
  <2>17. ASSUME NEW c \in Clients, Register(c) PROVE ModeInv'
    BY <2>17 DEF Register
  <2>18. ASSUME NEW c \in Clients, HasRegister(c) PROVE ModeInv'
    BY <2>18 DEF HasRegister
  <2>19. ASSUME NEW c \in Clients, Grab(c) PROVE ModeInv'
    BY <2>19 DEF Grab
  <2>20. ASSUME NEW c \in Clients, SetTriggerMode(c) PROVE ModeInv'
    BY <2>20 DEF SetTriggerMode, WriteMode
  <2>21. ASSUME NEW c \in Clients, EnableCapture(c) PROVE ModeInv'
    BY <2>21 DEF EnableCapture, WriteCapture
  <2>22. ASSUME NEW c \in Clients, SoftTrigger(c) PROVE ModeInv'
    BY <2>22 DEF SoftTrigger, WriteTrigger
  <2>23. ASSUME NEW c \in Clients, RegisterLock(c) PROVE ModeInv'
    BY <2>23 DEF RegisterLock
  <2>24. ASSUME NEW c \in Clients, HasLock(c) PROVE ModeInv'
    BY <2>24 DEF HasLock
  <2>25. ASSUME NEW c \in Clients, NewCapture(c) PROVE ModeInv'
    BY <2>25 DEF NewCapture, WriteCapture
  <2>26. ASSUME NEW c \in Clients, NewMode(c) PROVE ModeInv'
    BY <2>26 DEF NewMode, WriteMode
  <2>27. ASSUME NEW c \in Clients, Join(c) PROVE ModeInv'
    BY <2>27 DEF Join
  <2>28. ASSUME NEW c \in Clients, Unmap(c) PROVE ModeInv'
    BY <2>28 DEF Unmap
  <2>29. ASSUME NEW c \in Clients, RegisterStore(c) PROVE ModeInv'
    BY <2>29 DEF RegisterStore
  <2>30. ASSUME NEW c \in Clients, RegisterUnlock(c) PROVE ModeInv'
    BY <2>30 DEF RegisterUnlock
  <2>31. ASSUME NEW c \in Clients, HasUnlock(c) PROVE ModeInv'
    BY <2>31 DEF HasUnlock
  <2>32. ASSUME NEW c \in Clients, GrabSwitch(c) PROVE ModeInv'
    BY <2>32 DEF GrabSwitch, WriteMode
  <2>33. ASSUME NEW c \in Clients, GrabTrigger(c) PROVE ModeInv'
    BY <2>33 DEF GrabTrigger, WriteTrigger
  <2>34. ASSUME NEW c \in Clients, GrabRead(c) PROVE ModeInv'
    BY <2>34 DEF GrabRead
  <2>35. ASSUME NEW c \in Clients, GrabWait(c) PROVE ModeInv'
    BY <2>35 DEF GrabWait
  <2>36. ASSUME NEW c \in Clients, GrabLockRead(c) PROVE ModeInv'
    BY <2>36 DEF GrabLockRead
  <2>37. ASSUME NEW c \in Clients, GrabLockWrite(c) PROVE ModeInv'
    BY <2>37 DEF GrabLockWrite, WriteLock
  <2>38. ASSUME NEW c \in Clients, GrabCopy(c) PROVE ModeInv'
    BY <2>38 DEF GrabCopy
  <2>39. ASSUME NEW c \in Clients, GrabUnlockRead(c) PROVE ModeInv'
    BY <2>39 DEF GrabUnlockRead
  <2>40. ASSUME NEW c \in Clients, GrabUnlockWrite(c) PROVE ModeInv'
    BY <2>40 DEF GrabUnlockWrite, WriteLock
  <2>41. ASSUME NEW c \in Clients, Picture(c) PROVE ModeInv'
    BY <2>41 DEF Picture
  <2>42. ASSUME NEW c \in Clients, PictureUnlockRead(c) PROVE ModeInv'
    BY <2>42 DEF PictureUnlockRead
  <2>43. ASSUME NEW c \in Clients, PictureUnlockWrite(c) PROVE ModeInv'
    BY <2>43, FirstAssumption DEF PictureUnlockWrite, WriteLock
  <2>44. ASSUME NEW c \in Clients, PictureRead(c) PROVE ModeInv'
    BY <2>44 DEF PictureRead
  <2>45. ASSUME NEW c \in Clients, PictureWait(c) PROVE ModeInv'
    BY <2>45 DEF PictureWait
  <2>46. ASSUME NEW c \in Clients, PictureLockRead(c) PROVE ModeInv'
    BY <2>46 DEF PictureLockRead
  <2>47. ASSUME NEW c \in Clients, PictureLockWrite(c) PROVE ModeInv'
    BY <2>47, FirstAssumption DEF PictureLockWrite, WriteLock
  <2>48. CASE UNCHANGED vars
    BY <2>48 DEF vars
  <2>. QED
    BY <2>1, <2>2, <2>3, <2>4, <2>5, <2>6, <2>7, <2>8, <2>9, <2>10, <2>11, <2>12,
       <2>13, <2>14, <2>15, <2>16, <2>17, <2>18, <2>19, <2>20, <2>21, <2>22, <2>23, <2>24,
       <2>25, <2>26, <2>27, <2>28, <2>29, <2>30, <2>31, <2>32, <2>33, <2>34, <2>35, <2>36,
       <2>37, <2>38, <2>39, <2>40, <2>41, <2>42, <2>43, <2>44, <2>45, <2>46, <2>47, <2>48
       DEF Next, ImageNext, CallNext, MutexNext, StepNext
<1>. QED
  BY <1>1, <1>2, TypeCorrect, SafetyInvariant, PTL DEF Spec

(* A call gets the frame of its own trigger.                               *)
THEOREM FrameInvariant == ASSUME SoftGrabbing PROVE Spec => []FrameInv
<1>. USE DEF FrameInv, Triggered, Locking, Locked
<1>1. Init => FrameInv
  BY DEF Init, HwInit, SoftGrabbing
<1>2. TypeInv /\ SafeInv /\ ModeInv /\ FrameInv /\ [Next]_vars => FrameInv'
  <2>. SUFFICES ASSUME TypeInv, SafeInv, ModeInv, FrameInv, [Next]_vars PROVE FrameInv'
    OBVIOUS
  <2>. USE ClientAssumption, BufAssumption
           DEF TypeInv, TypeOK, HwTypeOK, ClientHasBuf, ImageSteps, ClientSteps,
               hwVars, objVars, imgVars, cliVars, SafeInv, LifeInv, Constructing,
               Destructing, SoftGrabbing, ModeInv
  <2>1. CASE FpgaNext
    BY <2>1 DEF FpgaNext, HwNext, Publish, HardExposure, SoftExposure
  <2>2. CASE ImageTest
    BY <2>2 DEF ImageTest
  <2>3. CASE ImageLock
    BY <2>3 DEF ImageLock
  <2>4. CASE ImageCheck
    BY <2>4 DEF ImageCheck
  <2>5. CASE ImageRead
    BY <2>5 DEF ImageRead
  <2>6. CASE ImageWait
    BY <2>6 DEF ImageWait
  <2>7. CASE ImageLockRead
    BY <2>7 DEF ImageLockRead
  <2>8. CASE ImageLockWrite
    BY <2>8 DEF ImageLockWrite, WriteLock
  <2>9. CASE ImageUnlockRead
    BY <2>9 DEF ImageUnlockRead
  <2>10. CASE ImageUnlockWrite
    BY <2>10 DEF ImageUnlockWrite, WriteLock
  <2>11. CASE ImageRecheck
    BY <2>11 DEF ImageRecheck
  <2>12. CASE ImageCall
    BY <2>12 DEF ImageCall
  <2>13. CASE ImageReturn
    BY <2>13 DEF ImageReturn
  <2>14. CASE ImageUnlock
    BY <2>14 DEF ImageUnlock
  <2>15. ASSUME NEW c \in Clients, New(c) PROVE FrameInv'
    BY <2>15 DEF New
  <2>16. ASSUME NEW c \in Clients, Delete(c) PROVE FrameInv'
    BY <2>16 DEF Delete
  <2>17. ASSUME NEW c \in Clients, Register(c) PROVE FrameInv'
    BY <2>17 DEF Register
  <2>18. ASSUME NEW c \in Clients, HasRegister(c) PROVE FrameInv'
    BY <2>18 DEF HasRegister
  <2>19. ASSUME NEW c \in Clients, Grab(c) PROVE FrameInv'
    BY <2>19 DEF Grab
  <2>20. ASSUME NEW c \in Clients, SetTriggerMode(c) PROVE FrameInv'
    BY <2>20 DEF SetTriggerMode, WriteMode
  <2>21. ASSUME NEW c \in Clients, EnableCapture(c) PROVE FrameInv'
    BY <2>21 DEF EnableCapture, WriteCapture
  <2>22. ASSUME NEW c \in Clients, SoftTrigger(c) PROVE FrameInv'
    BY <2>22 DEF SoftTrigger, WriteTrigger
  <2>23. ASSUME NEW c \in Clients, RegisterLock(c) PROVE FrameInv'
    BY <2>23 DEF RegisterLock
  <2>24. ASSUME NEW c \in Clients, HasLock(c) PROVE FrameInv'
    BY <2>24 DEF HasLock
  <2>25. ASSUME NEW c \in Clients, NewCapture(c) PROVE FrameInv'
    BY <2>25 DEF NewCapture, WriteCapture
  <2>26. ASSUME NEW c \in Clients, NewMode(c) PROVE FrameInv'
    BY <2>26 DEF NewMode, WriteMode
  <2>27. ASSUME NEW c \in Clients, Join(c) PROVE FrameInv'
    BY <2>27 DEF Join
  <2>28. ASSUME NEW c \in Clients, Unmap(c) PROVE FrameInv'
    BY <2>28 DEF Unmap
  <2>29. ASSUME NEW c \in Clients, RegisterStore(c) PROVE FrameInv'
    BY <2>29 DEF RegisterStore
  <2>30. ASSUME NEW c \in Clients, RegisterUnlock(c) PROVE FrameInv'
    BY <2>30 DEF RegisterUnlock
  <2>31. ASSUME NEW c \in Clients, HasUnlock(c) PROVE FrameInv'
    BY <2>31 DEF HasUnlock
  <2>32. ASSUME NEW c \in Clients, GrabSwitch(c) PROVE FrameInv'
    BY <2>32 DEF GrabSwitch, WriteMode
  <2>33. ASSUME NEW c \in Clients, GrabTrigger(c) PROVE FrameInv'
    BY <2>33 DEF GrabTrigger, WriteTrigger
  <2>34. ASSUME NEW c \in Clients, GrabRead(c) PROVE FrameInv'
    BY <2>34 DEF GrabRead
  <2>35. ASSUME NEW c \in Clients, GrabWait(c) PROVE FrameInv'
    BY <2>35 DEF GrabWait
  <2>36. ASSUME NEW c \in Clients, GrabLockRead(c) PROVE FrameInv'
    BY <2>36 DEF GrabLockRead
  <2>37. ASSUME NEW c \in Clients, GrabLockWrite(c) PROVE FrameInv'
    BY <2>37 DEF GrabLockWrite, WriteLock
  <2>38. ASSUME NEW c \in Clients, GrabCopy(c) PROVE FrameInv'
    BY <2>38 DEF GrabCopy
  <2>39. ASSUME NEW c \in Clients, GrabUnlockRead(c) PROVE FrameInv'
    BY <2>39 DEF GrabUnlockRead
  <2>40. ASSUME NEW c \in Clients, GrabUnlockWrite(c) PROVE FrameInv'
    BY <2>40 DEF GrabUnlockWrite, WriteLock
  <2>41. ASSUME NEW c \in Clients, Picture(c) PROVE FrameInv'
    BY <2>41 DEF Picture
  <2>42. ASSUME NEW c \in Clients, PictureUnlockRead(c) PROVE FrameInv'
    BY <2>42 DEF PictureUnlockRead
  <2>43. ASSUME NEW c \in Clients, PictureUnlockWrite(c) PROVE FrameInv'
    BY <2>43, FirstAssumption DEF PictureUnlockWrite, WriteLock
  <2>44. ASSUME NEW c \in Clients, PictureRead(c) PROVE FrameInv'
    BY <2>44 DEF PictureRead
  <2>45. ASSUME NEW c \in Clients, PictureWait(c) PROVE FrameInv'
    BY <2>45 DEF PictureWait
  <2>46. ASSUME NEW c \in Clients, PictureLockRead(c) PROVE FrameInv'
    BY <2>46 DEF PictureLockRead
  <2>47. ASSUME NEW c \in Clients, PictureLockWrite(c) PROVE FrameInv'
    BY <2>47, FirstAssumption DEF PictureLockWrite, WriteLock
  <2>48. CASE UNCHANGED vars
    BY <2>48 DEF vars
  <2>. QED
    BY <2>1, <2>2, <2>3, <2>4, <2>5, <2>6, <2>7, <2>8, <2>9, <2>10, <2>11, <2>12,
       <2>13, <2>14, <2>15, <2>16, <2>17, <2>18, <2>19, <2>20, <2>21, <2>22, <2>23, <2>24,
       <2>25, <2>26, <2>27, <2>28, <2>29, <2>30, <2>31, <2>32, <2>33, <2>34, <2>35, <2>36,
       <2>37, <2>38, <2>39, <2>40, <2>41, <2>42, <2>43, <2>44, <2>45, <2>46, <2>47, <2>48
       DEF Next, ImageNext, CallNext, MutexNext, StepNext
<1>. QED
  BY <1>1, <1>2, TypeCorrect, SafetyInvariant, ModeInvariant, PTL DEF Spec

(* A buffer is locked while it is copied.                                  *)
THEOREM LockInvariant == ASSUME SoftGrabbing PROVE Spec => []LockInv
<1>. USE DEF LockInv, Triggered, Locking, Locked
<1>1. Init => LockInv
  BY DEF Init, HwInit, SoftGrabbing
<1>2. TypeInv /\ SafeInv /\ ModeInv /\ LockInv /\ [Next]_vars => LockInv'
  <2>. SUFFICES ASSUME TypeInv, SafeInv, ModeInv, LockInv, [Next]_vars PROVE LockInv'
    OBVIOUS
  <2>. USE ClientAssumption, BufAssumption
           DEF TypeInv, TypeOK, HwTypeOK, ClientHasBuf, ImageSteps, ClientSteps,
               hwVars, objVars, imgVars, cliVars, SafeInv, LifeInv, Constructing,
               Destructing, SoftGrabbing, ModeInv
  <2>1. CASE FpgaNext
    BY <2>1 DEF FpgaNext, HwNext, Publish, HardExposure, SoftExposure
  <2>2. CASE ImageTest
    BY <2>2 DEF ImageTest
  <2>3. CASE ImageLock
    BY <2>3 DEF ImageLock
  <2>4. CASE ImageCheck
    BY <2>4 DEF ImageCheck
  <2>5. CASE ImageRead
    BY <2>5 DEF ImageRead
  <2>6. CASE ImageWait
    BY <2>6 DEF ImageWait
  <2>7. CASE ImageLockRead
    BY <2>7 DEF ImageLockRead
  <2>8. CASE ImageLockWrite
    BY <2>8 DEF ImageLockWrite, WriteLock
  <2>9. CASE ImageUnlockRead
    BY <2>9 DEF ImageUnlockRead
  <2>10. CASE ImageUnlockWrite
    BY <2>10 DEF ImageUnlockWrite, WriteLock
  <2>11. CASE ImageRecheck
    BY <2>11 DEF ImageRecheck
  <2>12. CASE ImageCall
    BY <2>12 DEF ImageCall
  <2>13. CASE ImageReturn
    BY <2>13 DEF ImageReturn
  <2>14. CASE ImageUnlock
    BY <2>14 DEF ImageUnlock
  <2>15. ASSUME NEW c \in Clients, New(c) PROVE LockInv'
    BY <2>15 DEF New
  <2>16. ASSUME NEW c \in Clients, Delete(c) PROVE LockInv'
    BY <2>16 DEF Delete
  <2>17. ASSUME NEW c \in Clients, Register(c) PROVE LockInv'
    BY <2>17 DEF Register
  <2>18. ASSUME NEW c \in Clients, HasRegister(c) PROVE LockInv'
    BY <2>18 DEF HasRegister
  <2>19. ASSUME NEW c \in Clients, Grab(c) PROVE LockInv'
    BY <2>19 DEF Grab
  <2>20. ASSUME NEW c \in Clients, SetTriggerMode(c) PROVE LockInv'
    BY <2>20 DEF SetTriggerMode, WriteMode
  <2>21. ASSUME NEW c \in Clients, EnableCapture(c) PROVE LockInv'
    BY <2>21 DEF EnableCapture, WriteCapture
  <2>22. ASSUME NEW c \in Clients, SoftTrigger(c) PROVE LockInv'
    BY <2>22 DEF SoftTrigger, WriteTrigger
  <2>23. ASSUME NEW c \in Clients, RegisterLock(c) PROVE LockInv'
    BY <2>23 DEF RegisterLock
  <2>24. ASSUME NEW c \in Clients, HasLock(c) PROVE LockInv'
    BY <2>24 DEF HasLock
  <2>25. ASSUME NEW c \in Clients, NewCapture(c) PROVE LockInv'
    BY <2>25 DEF NewCapture, WriteCapture
  <2>26. ASSUME NEW c \in Clients, NewMode(c) PROVE LockInv'
    BY <2>26 DEF NewMode, WriteMode
  <2>27. ASSUME NEW c \in Clients, Join(c) PROVE LockInv'
    BY <2>27 DEF Join
  <2>28. ASSUME NEW c \in Clients, Unmap(c) PROVE LockInv'
    BY <2>28 DEF Unmap
  <2>29. ASSUME NEW c \in Clients, RegisterStore(c) PROVE LockInv'
    BY <2>29 DEF RegisterStore
  <2>30. ASSUME NEW c \in Clients, RegisterUnlock(c) PROVE LockInv'
    BY <2>30 DEF RegisterUnlock
  <2>31. ASSUME NEW c \in Clients, HasUnlock(c) PROVE LockInv'
    BY <2>31 DEF HasUnlock
  <2>32. ASSUME NEW c \in Clients, GrabSwitch(c) PROVE LockInv'
    BY <2>32 DEF GrabSwitch, WriteMode
  <2>33. ASSUME NEW c \in Clients, GrabTrigger(c) PROVE LockInv'
    BY <2>33 DEF GrabTrigger, WriteTrigger
  <2>34. ASSUME NEW c \in Clients, GrabRead(c) PROVE LockInv'
    BY <2>34 DEF GrabRead
  <2>35. ASSUME NEW c \in Clients, GrabWait(c) PROVE LockInv'
    BY <2>35 DEF GrabWait
  <2>36. ASSUME NEW c \in Clients, GrabLockRead(c) PROVE LockInv'
    BY <2>36 DEF GrabLockRead
  <2>37. ASSUME NEW c \in Clients, GrabLockWrite(c) PROVE LockInv'
    BY <2>37 DEF GrabLockWrite, WriteLock
  <2>38. ASSUME NEW c \in Clients, GrabCopy(c) PROVE LockInv'
    BY <2>38 DEF GrabCopy
  <2>39. ASSUME NEW c \in Clients, GrabUnlockRead(c) PROVE LockInv'
    BY <2>39 DEF GrabUnlockRead
  <2>40. ASSUME NEW c \in Clients, GrabUnlockWrite(c) PROVE LockInv'
    BY <2>40 DEF GrabUnlockWrite, WriteLock
  <2>41. ASSUME NEW c \in Clients, Picture(c) PROVE LockInv'
    BY <2>41 DEF Picture
  <2>42. ASSUME NEW c \in Clients, PictureUnlockRead(c) PROVE LockInv'
    BY <2>42 DEF PictureUnlockRead
  <2>43. ASSUME NEW c \in Clients, PictureUnlockWrite(c) PROVE LockInv'
    BY <2>43, FirstAssumption DEF PictureUnlockWrite, WriteLock
  <2>44. ASSUME NEW c \in Clients, PictureRead(c) PROVE LockInv'
    BY <2>44 DEF PictureRead
  <2>45. ASSUME NEW c \in Clients, PictureWait(c) PROVE LockInv'
    BY <2>45 DEF PictureWait
  <2>46. ASSUME NEW c \in Clients, PictureLockRead(c) PROVE LockInv'
    BY <2>46 DEF PictureLockRead
  <2>47. ASSUME NEW c \in Clients, PictureLockWrite(c) PROVE LockInv'
    BY <2>47, FirstAssumption DEF PictureLockWrite, WriteLock
  <2>48. CASE UNCHANGED vars
    BY <2>48 DEF vars
  <2>. QED
    BY <2>1, <2>2, <2>3, <2>4, <2>5, <2>6, <2>7, <2>8, <2>9, <2>10, <2>11, <2>12,
       <2>13, <2>14, <2>15, <2>16, <2>17, <2>18, <2>19, <2>20, <2>21, <2>22, <2>23, <2>24,
       <2>25, <2>26, <2>27, <2>28, <2>29, <2>30, <2>31, <2>32, <2>33, <2>34, <2>35, <2>36,
       <2>37, <2>38, <2>39, <2>40, <2>41, <2>42, <2>43, <2>44, <2>45, <2>46, <2>47, <2>48
       DEF Next, ImageNext, CallNext, MutexNext, StepNext
<1>. QED
  BY <1>1, <1>2, TypeCorrect, SafetyInvariant, ModeInvariant, PTL DEF Spec

(* GrabPicture copies a frame that was exposed after its own trigger.      *)
THEOREM GrabFreshHolds == ASSUME SoftGrabbing PROVE Spec => []GrabFresh
<1>1. FrameInv => GrabFresh
  BY DEF FrameInv, Locked, GrabFresh
<1>. QED
  BY <1>1, FrameInvariant, PTL

(* While GrabPicture copies a buffer the FPGA is not writing it.           *)
THEOREM GrabIntactHolds == ASSUME SoftGrabbing PROVE Spec => []GrabIntact
<1>1. TypeInv /\ FrameInv => GrabIntact
  BY BufAssumption DEF TypeInv, ClientHasBuf, FrameInv, Locked, GrabIntact
<1>. QED
  BY <1>1, TypeCorrect, FrameInvariant, PTL

(* The lock register shows the buffers that are being copied, no more and  *)
(* no fewer.                                                               *)
THEOREM LocksAreHeldHolds == ASSUME SoftGrabbing PROVE Spec => []LocksAreHeld
<1>1. ModeInv /\ LockInv => LocksAreHeld
  <2>. SUFFICES ASSUME ModeInv, LockInv PROVE LocksAreHeld
    OBVIOUS
  <2>1. HeldBufs = {cbuf[c] : c \in {d \in Clients : Locked(d)}}
    BY DEF ModeInv, HeldBufs, Locked
  <2>2. CASE \A c \in Clients : ~Locked(c)
    BY <2>1, <2>2 DEF LockInv, LocksAreHeld
  <2>3. ASSUME NEW c \in Clients, Locked(c) PROVE LocksAreHeld
    <3>1. \A d \in Clients : Locked(d) => cbuf[d] = cbuf[c]
      BY <2>3 DEF LockInv
    <3>2. HeldBufs = {cbuf[c]}
      BY <2>1, <2>3, <3>1
    <3>. QED
      BY <2>3, <3>2 DEF LockInv, LocksAreHeld
  <2>. QED
    BY <2>2, <2>3
<1>. QED
  BY <1>1, ModeInvariant, LockInvariant, PTL
=============================================================================
