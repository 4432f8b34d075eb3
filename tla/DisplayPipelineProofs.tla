------------------------ MODULE DisplayPipelineProofs ------------------------
(***************************************************************************)
(* Proofs about DisplayPipeline for every set of frames, with and without  *)
(* USB sticks, for every low-voltage limit and either level of the stopped *)
(* PWM's pin. They assume SettledStart: without it the initial credit of   *)
(* displayUpdate lets the display thread run into the first frame.         *)
(***************************************************************************)
EXTENDS DisplayPipeline, TLAPS

LEMMA InitIInv == SettledStart /\ Init => IInv
  BY ConstantsAssumption
     DEF Init, IInv, TypeOK, ProgramPoints, LockHandedOver, BufferState, CreditState,
         PwmState, ControlState, MainFills, FrameInFlight, MonitorHolds, Threads, SpiSteps, Halves, Pictures

\* Two steps whose typing is settled apart, from few facts.
LEMMA BootTypeOK ==
  ASSUME TypeOK, ProgramPoints, Boot
  PROVE  TypeOK' /\ ProgramPoints'
  BY DEF TypeOK, ProgramPoints, Boot, Threads, SpiSteps, Halves, busVars, buffVars, semVars,
         voltVars, usbVars

LEMMA VoltStopPwmTypeOK ==
  ASSUME TypeOK, VoltStopPwm
  PROVE  TypeOK'
  BY DEF TypeOK, VoltStopPwm, goto, Threads, SpiSteps, Halves, busVars, buffVars, semVars, usbVars

\* Sending over SPI moves one thread through SpiSendPanel and touches no lock
\* and no buffer.
LEMMA SpiSendIInv ==
  ASSUME IInv, NEW t \in {"main", "disp", "usb"}, SpiSend(t)
  PROVE  IInv'
  <1> USE ConstantsAssumption
      DEF IInv, TypeOK, ProgramPoints, LockHandedOver, BufferState, CreditState,
          PwmState, ControlState, MainFills, FrameInFlight, MonitorHolds, Threads, SpiSteps, Halves, Pictures,
          goto, busVars, buffVars, semVars, voltVars, usbVars
  <1>1. CASE WaitPwmOff(t)
    BY <1>1 DEF WaitPwmOff
  <1>2. CASE SpiZero(t)
    BY <1>2 DEF SpiZero, Halves
  <1>3. CASE SpiCopy(t)
    <2>1. payload(t) \in Pictures
      BY <1>3 DEF SpiCopy, payload, Halves
    <2>2. QED
      BY <1>3, <2>1 DEF SpiCopy, Halves
  <1>4. CASE SpiTransfer(t)
    <2>1. sent \in Pictures
      BY DEF sent, Halves
    <2>2. QED
      BY <1>4, <2>1 DEF SpiTransfer, Halves
  <1>5. CASE SetDisplayLE(t)
    BY <1>5 DEF SetDisplayLE, Halves
  <1>6. CASE ClearDisplayLE(t)
    BY <1>6 DEF ClearDisplayLE, afterSpi, Halves
  <1>7. QED
    BY <1>1, <1>2, <1>3, <1>4, <1>5, <1>6 DEF SpiSend

LEMMA NextIInv == SettledStart /\ IInv /\ [Next]_vars => IInv'
  <1> SUFFICES ASSUME SettledStart, IInv, [Next]_vars
               PROVE  IInv'
    OBVIOUS
  <1>1. CASE UNCHANGED vars
    BY <1>1 DEF vars, IInv, TypeOK, ProgramPoints, LockHandedOver, BufferState, CreditState,
                PwmState, ControlState, MainFills, FrameInFlight, MonitorHolds, SpiSteps, Halves,
                busVars, buffVars, semVars, voltVars, usbVars
  <1>2. CASE SpiSend("main") \/ SpiSend("disp") \/ SpiSend("usb")
    BY <1>2, SpiSendIInv
  <1>a. CASE Boot
    <2>1. TypeOK' /\ ProgramPoints'
      BY <1>a, BootTypeOK DEF IInv
    <2>2. /\ pc["main"] = "boot" /\ pc["disp"] = "wait" /\ displayUpdate = 0 /\ displayLock = 1
          /\ spi_buffLen = 0 /\ disablePWM = 0 /\ pwmOn /\ displaySem = 1
      BY <1>a DEF Boot, IInv, CreditState, PwmState, ControlState
    <2>3. /\ pc'["main"] = "idle" /\ pc'["disp"] = "wait" /\ pc'["volt"] = "sample"
          /\ pc'["usb"] = "out"
      BY <1>a, <2>2 DEF Boot, IInv, TypeOK, Threads
    <2>4. UNCHANGED <<displayUpdate, displayLock, spi_buff, spi_buffLen, spi_stream,
                      disablePWM, pwmOn, displaySem>>
      BY <1>a DEF Boot, semVars, buffVars, voltVars, usbVars
    <2>5. ~MainFills' /\ ~FrameInFlight' /\ ~MonitorHolds'
      BY <2>2, <2>3, <2>4 DEF MainFills, FrameInFlight, MonitorHolds, SpiSteps, Halves
    <2>6. LockHandedOver' /\ BufferState'
      BY <2>2, <2>3, <2>4, <2>5 DEF LockHandedOver, BufferState, SpiSteps, Halves
    <2>7. CreditState' /\ PwmState'
      BY <2>2, <2>3, <2>4 DEF CreditState, PwmState
    <2>8. QED
      BY <2>1, <2>2, <2>3, <2>4, <2>6, <2>7 DEF IInv, ControlState
  <1>b. ASSUME VoltStopPwm PROVE IInv'
    <2>1. TypeOK'
      BY <1>b, VoltStopPwmTypeOK DEF IInv
    <2>2. ProgramPoints' /\ LockHandedOver' /\ BufferState' /\ CreditState'
      BY <1>b DEF VoltStopPwm, goto, LockHandedOver, BufferState, CreditState,
                  MainFills, FrameInFlight, MonitorHolds, IInv, TypeOK, ProgramPoints, PwmState,
                  Threads, SpiSteps, Halves, busVars, buffVars, semVars, usbVars
    <2>3. PwmState' /\ ControlState'
      BY <1>b DEF VoltStopPwm, goto, PwmState, ControlState, IInv, TypeOK, ProgramPoints,
                  Threads, SpiSteps, Halves, busVars, buffVars, semVars, usbVars
    <2>4. QED
      BY <2>1, <2>2, <2>3 DEF IInv
  <1> USE ConstantsAssumption
      DEF IInv, TypeOK, ProgramPoints, LockHandedOver, BufferState, CreditState,
          PwmState, ControlState, MainFills, FrameInFlight, MonitorHolds, Threads, SpiSteps, Halves, Pictures,
          goto, busVars, buffVars, semVars, voltVars, usbVars
  <1>3. CASE Clear \/ DrawBegin \/ DrawEnd
    <2>1. CASE Clear
      BY <2>1 DEF Clear
    <2>2. CASE DrawBegin
      BY <2>2 DEF DrawBegin
    <2>3. CASE DrawEnd
      BY <2>3 DEF DrawEnd
    <2>4. QED
      BY <1>3, <2>1, <2>2, <2>3
  <1>4. CASE UpdateFrameFast
    <2>1. CASE UpdateLock
      BY <2>1 DEF UpdateLock
    <2>2. CASE UpdateSetLen
      BY <2>2 DEF UpdateSetLen
    <2>3. CASE UpdateMalloc
      BY <2>3 DEF UpdateMalloc
    <2>4. CASE UpdateMemcpy
      BY <2>4 DEF UpdateMemcpy
    <2>5. CASE UpdatePost
      BY <2>5 DEF UpdatePost
    <2>6. QED
      BY <1>4, <2>1, <2>2, <2>3, <2>4, <2>5 DEF UpdateFrameFast
  <1>5. CASE DispWait \/ DispCheck \/ DispRead \/ DispSetLen \/ DispFree \/ DispUnlock
    <2>1. CASE DispWait
      BY <2>1 DEF DispWait
    <2>2. CASE DispCheck
      BY <2>2 DEF DispCheck
    <2>3. CASE DispRead
      BY <2>3 DEF DispRead
    <2>4. CASE DispSetLen
      BY <2>4 DEF DispSetLen
    <2>5. CASE DispFree
      BY <2>5 DEF DispFree
    <2>6. CASE DispUnlock
      BY <2>6 DEF DispUnlock
    <2>7. QED
      BY <1>5, <2>1, <2>2, <2>3, <2>4, <2>5, <2>6
  <1>6. CASE VoltageThread
    <2>1. CASE SampleLow
      BY <2>1 DEF SampleLow, CountLow
    <2>2. CASE SampleGood
      BY <2>2 DEF SampleGood
    <2>3. CASE VoltLock
      BY <2>3 DEF VoltLock
    <2>4. CASE VoltStopPwm
      BY <2>4, <1>b
    <2>5. CASE VoltStartPwm
      BY <2>5 DEF VoltStartPwm
    <2>6. CASE VoltUnlock
      BY <2>6 DEF VoltUnlock
    <2>7. QED
      BY <1>6, <2>1, <2>2, <2>3, <2>4, <2>5, <2>6 DEF VoltageThread
  <1>7. CASE DisplayWait \/ UsbOff \/ DisplayRelease
    <2>1. CASE DisplayWait
      BY <2>1 DEF DisplayWait
    <2>2. CASE UsbOff
      BY <2>2 DEF UsbOff
    <2>3. CASE DisplayRelease
      BY <2>3 DEF DisplayRelease
    <2>4. QED
      BY <1>7, <2>1, <2>2, <2>3
  <1>8. QED
    BY <1>1, <1>2, <1>a, <1>3, <1>4, <1>5, <1>6, <1>7
       DEF Next, MainThread, DisplayThread, MemoryTask

\* The strengthened invariant holds in every reachable state.
THEOREM Invariance ==
  ASSUME SettledStart
  PROVE  Spec => []IInv
  <1>1. Init => IInv
    BY InitIInv
  <1>2. IInv /\ [Next]_vars => IInv'
    BY NextIInv
  <1>3. QED
    BY <1>1, <1>2, PTL DEF Spec

\* Every variable keeps to its range: displayLock and displayUpdate stay
\* binary although one thread waits for them and another posts them.
THEOREM TypeCorrect ==
  ASSUME SettledStart
  PROVE  Spec => []TypeOK
  <1>1. IInv => TypeOK
    BY DEF IInv
  <1>2. QED
    BY <1>1, Invariance, PTL

\* displayLock is never held by two of the filling main thread, the frame in
\* flight and the voltage monitor, and never lost.
THEOREM LockExclusive ==
  ASSUME SettledStart
  PROVE  Spec => []LockHandedOver
  <1>1. IInv => LockHandedOver
    BY DEF IInv
  <1>2. QED
    BY <1>1, Invariance, PTL

\* displayThread copies only a buffer that VMSDriver_UpdateFrameFast has filled
\* and that is not freed or filled again under it.
THEOREM ReadsCompleteBuffer ==
  ASSUME SettledStart
  PROVE  Spec => []BufferCompleteWhenRead
  <1>1. IInv => BufferCompleteWhenRead
    BY DEF IInv, BufferState, LockHandedOver, FrameInFlight, BufferCompleteWhenRead
  <1>2. QED
    BY <1>1, Invariance, PTL

\* The display thread, which holds the lock, never polls the pin of a PWM that
\* the voltage monitor has stopped.
THEOREM PollsRunningPwm ==
  ASSUME SettledStart
  PROVE  Spec => []NoPollOfStoppedPwm
  <1>1. IInv => NoPollOfStoppedPwm
    <2> SUFFICES ASSUME IInv, pc["disp"] = "pwmOff"
                 PROVE  pwmOn
      BY DEF NoPollOfStoppedPwm
    <2>1. FrameInFlight
      BY DEF FrameInFlight, SpiSteps, Halves
    <2>2. ~MonitorHolds
      BY <2>1 DEF IInv, LockHandedOver
    <2>3. QED
      BY <2>2 DEF IInv, TypeOK, PwmState, MonitorHolds
  <1>2. QED
    BY <1>1, Invariance, PTL

-----------------------------------------------------------------------------
(* Without USB sticks nobody clears the bitmap after main has drawn into it,  *)
(* and main is not in SpiSendPanel when it has queued a frame: the transfer   *)
(* buffer is the display thread's alone from there on.                        *)

\* The frame main drew last is where the display thread is with it.
Arriving ==
  /\ FrameInFlight /\ pc["disp"] \in {"wait", "check", "read"} => spi_buff = VMSBitmap
  /\ pc["disp"] \in SpiSteps => spi_stream = VMSBitmap
  /\ pc["disp"] \in {"second", "xfer"} => tx["first"] = VMSBitmap
  /\ pc["disp"] = "xfer" => tx["second"] = VMSBitmap
  /\ pc["disp"] = "setLE" => shiftReg = VMSBitmap
  /\ pc["disp"] \in {"clearLE", "len", "free", "unlock"} \/ ~FrameInFlight => outputs = VMSBitmap

RestInv ==
  /\ pc["usb"] \in {"none", "out"}
  /\ pc["main"] \in SpiSteps \cup {"boot"} => VMSBitmap = Blank
  /\ pc["main"] = "drawing" => VMSBitmap = Torn
  /\ pc["main"] = "post" => spi_buff = VMSBitmap
  /\ pc["main"] = "idle" /\ VMSBitmap \in Frames => Arriving

LEMMA RestStep ==
  ASSUME SettledStart, ~UsbSticks, IInv, RestInv, [Next]_vars
  PROVE  RestInv'
  <1> USE ConstantsAssumption
      DEF RestInv, Arriving, FrameInFlight, IInv, TypeOK, ProgramPoints, Threads, SpiSteps, Halves,
          goto, busVars, buffVars, semVars, voltVars, usbVars
  <1>1. CASE SpiSend("main")
    BY <1>1 DEF SpiSend, WaitPwmOff, SpiZero, SpiCopy, SpiTransfer, SetDisplayLE, ClearDisplayLE, afterSpi
  <1>2. CASE SpiSend("disp")
    <2>1. FrameInFlight /\ FrameInFlight' /\ UNCHANGED <<VMSBitmap, spi_buff, spi_stream>>
      BY <1>2 DEF SpiSend, WaitPwmOff, SpiZero, SpiCopy, SpiTransfer, SetDisplayLE, ClearDisplayLE, afterSpi
    <2>2. CASE WaitPwmOff("disp") \/ SpiZero("disp")
      BY <2>2 DEF WaitPwmOff, SpiZero
    <2>3. CASE SpiCopy("disp")
      BY <2>3 DEF SpiCopy, payload
    <2>4. CASE SpiTransfer("disp")
      BY <2>4 DEF SpiTransfer, sent
    <2>5. CASE SetDisplayLE("disp") \/ ClearDisplayLE("disp")
      BY <2>5 DEF SetDisplayLE, ClearDisplayLE, afterSpi
    <2>6. QED
      BY <1>2, <2>2, <2>3, <2>4, <2>5 DEF SpiSend
  <1>3. CASE Boot \/ Clear \/ DrawBegin \/ DrawEnd
    BY <1>3 DEF Boot, Clear, DrawBegin, DrawEnd
  <1>4. CASE UpdateLock \/ UpdateSetLen \/ UpdateMalloc \/ UpdateMemcpy
    BY <1>4 DEF UpdateLock, UpdateSetLen, UpdateMalloc, UpdateMemcpy
  <1>5. CASE UpdatePost
    <2>1. pc["disp"] = "wait" /\ displayUpdate = 0
      BY <1>5 DEF UpdatePost, LockHandedOver, MainFills, CreditState
    <2>2. QED
      BY <1>5, <2>1 DEF UpdatePost
  <1>6. CASE DispWait \/ DispCheck \/ DispRead
    <2>1. CASE DispWait
      BY <2>1 DEF DispWait, CreditState, BufferState
    <2>2. CASE DispCheck
      BY <2>2 DEF DispCheck, CreditState, BufferState
    <2>3. CASE DispRead
      BY <2>3 DEF DispRead
    <2>4. QED
      BY <1>6, <2>1, <2>2, <2>3
  <1>7. CASE DispSetLen \/ DispFree \/ DispUnlock
    <2>1. CASE DispSetLen
      BY <2>1 DEF DispSetLen, CreditState
    <2>2. CASE DispFree
      BY <2>2 DEF DispFree, LockHandedOver, MainFills
    <2>3. CASE DispUnlock
      BY <2>3 DEF DispUnlock, CreditState
    <2>4. QED
      BY <1>7, <2>1, <2>2, <2>3
  <1>8. CASE VoltageThread
    BY <1>8 DEF VoltageThread, SampleLow, SampleGood, VoltLock, VoltStopPwm, VoltStartPwm, VoltUnlock
  <1>9. CASE MemoryTask
    BY <1>9 DEF MemoryTask, DisplayWait, UsbOff, DisplayRelease, SpiSend, WaitPwmOff,
                SpiZero, SpiCopy, SpiTransfer, SetDisplayLE, ClearDisplayLE
  <1>10. CASE UNCHANGED vars
    BY <1>10 DEF vars
  <1>11. QED
    BY <1>1, <1>2, <1>3, <1>4, <1>5, <1>6, <1>7, <1>8, <1>9, <1>10
       DEF Next, MainThread, UpdateFrameFast, DisplayThread

\* The transfer buffer, the bus and the latch line have no lock: Clear and the
\* display thread may mix their bytes. The frame that main draws next is not
\* touched by that: once the display thread is done with it, it is shown whole.
THEOREM FrameArrives ==
  ASSUME SettledStart, ~UsbSticks
  PROVE  Spec => []PictureAtRest
  <1>1. Init => RestInv
    BY ConstantsAssumption DEF Init, RestInv, Threads, SpiSteps, Halves
  <1>2. IInv /\ RestInv /\ [Next]_vars => RestInv'
    BY RestStep
  <1>3. RestInv => PictureAtRest
    BY DEF RestInv, Arriving, PictureAtRest
  <1>4. QED
    BY <1>1, <1>2, <1>3, Invariance, PTL DEF Spec

-----------------------------------------------------------------------------
(* The pipeline implements FrameHandoff.                                     *)

LEMMA HandoffInit == SettledStart /\ Init => Handoff!Init
  BY DEF Init, Handoff!Init, slotBar, ownerBar, FrameInFlight, MonitorHolds, Threads, SpiSteps, Halves

LEMMA HandoffStep ==
  SettledStart /\ IInv /\ [Next]_vars => [Handoff!Next]_(Handoff!vars)
  <1> SUFFICES ASSUME SettledStart, IInv, [Next]_vars
               PROVE  Handoff!Next \/ UNCHANGED <<slotBar, ownerBar, spi_stream>>
    BY DEF Handoff!vars
  <1> USE ConstantsAssumption
      DEF IInv, TypeOK, ProgramPoints, Threads, SpiSteps, Halves, slotBar, ownerBar,
          FrameInFlight, MonitorHolds, goto, busVars, buffVars, semVars, voltVars, usbVars
  <1>1. CASE UNCHANGED vars
    BY <1>1 DEF vars
  <1>2. CASE Boot
    BY <1>2 DEF Boot, CreditState
  <1>3. ASSUME NEW t \in {"main", "disp", "usb"}, SpiSend(t)
        PROVE  UNCHANGED <<slotBar, ownerBar, spi_stream>>
    BY <1>3 DEF SpiSend, WaitPwmOff, SpiZero, SpiCopy, SpiTransfer, SetDisplayLE, ClearDisplayLE, afterSpi
  <1>4. CASE Clear \/ DrawBegin \/ DrawEnd
    BY <1>4 DEF Clear, DrawBegin, DrawEnd
  <1>5. CASE UpdateFrameFast
    <2>1. CASE UpdatePost
      <3>1. ownerBar = "nobody" /\ pc["disp"] = "wait" /\ spi_buff \in Pictures
        BY <2>1 DEF UpdatePost, LockHandedOver, MainFills, CreditState, BufferState
      <3>2. ownerBar' = "frame" /\ slotBar' = spi_buff /\ UNCHANGED spi_stream
        BY <2>1, <3>1 DEF UpdatePost, LockHandedOver, MainFills, CreditState
      <3>3. QED
        BY <3>1, <3>2 DEF Handoff!Next, Handoff!Submit
    <2>2. CASE UpdateLock \/ UpdateSetLen \/ UpdateMalloc \/ UpdateMemcpy
      <3>1. ~FrameInFlight /\ ~FrameInFlight'
        BY <2>2 DEF UpdateLock, UpdateSetLen, UpdateMalloc, UpdateMemcpy, LockHandedOver,
                    MainFills, CreditState
      <3>2. UNCHANGED MonitorHolds /\ UNCHANGED spi_stream
        BY <2>2 DEF UpdateLock, UpdateSetLen, UpdateMalloc, UpdateMemcpy
      <3>3. QED
        BY <3>1, <3>2
    <2>3. QED
      BY <1>5, <2>1, <2>2 DEF UpdateFrameFast
  <1>6. CASE DispWait \/ DispCheck \/ DispSetLen \/ DispFree
    <2>1. CASE DispWait
      BY <2>1 DEF DispWait, BufferState, CreditState
    <2>2. CASE DispCheck
      BY <2>2 DEF DispCheck, CreditState
    <2>3. CASE DispSetLen \/ DispFree
      BY <2>3 DEF DispSetLen, DispFree
    <2>4. QED
      BY <1>6, <2>1, <2>2, <2>3
  <1>7. CASE DispRead
    <2>1. Handoff!Take
      BY <1>7 DEF DispRead, Handoff!Take, BufferState
    <2>2. QED
      BY <2>1 DEF Handoff!Next
  <1>8. CASE DispUnlock
    <2>1. Handoff!Finish
      BY <1>8 DEF DispUnlock, Handoff!Finish, CreditState, LockHandedOver
    <2>2. QED
      BY <2>1 DEF Handoff!Next
  <1>9. CASE VoltLock
    <2>1. Handoff!Suspend
      BY <1>9 DEF VoltLock, Handoff!Suspend, LockHandedOver
    <2>2. QED
      BY <2>1 DEF Handoff!Next
  <1>10. CASE VoltUnlock
    <2>1. Handoff!Resume
      BY <1>10 DEF VoltUnlock, Handoff!Resume, LockHandedOver
    <2>2. QED
      BY <2>1 DEF Handoff!Next
  <1>11. CASE SampleLow \/ SampleGood \/ VoltStopPwm \/ VoltStartPwm
    BY <1>11 DEF SampleLow, SampleGood, VoltStopPwm, VoltStartPwm, PwmState
  <1>12. CASE DisplayWait \/ UsbOff \/ DisplayRelease
    BY <1>12 DEF DisplayWait, UsbOff, DisplayRelease
  <1>13. QED
    BY <1>1, <1>2, <1>3, <1>4, <1>5, <1>6, <1>7, <1>8, <1>9, <1>10, <1>11, <1>12
       DEF Next, MainThread, DisplayThread, MemoryTask, VoltageThread

\* Pictures are handed over one at a time, unchanged and each exactly once, and
\* none while the voltage monitor has the display.
THEOREM Refinement ==
  ASSUME SettledStart
  PROVE  Spec => HandoffSpec
  <1>1. Init => Handoff!Init
    BY HandoffInit
  <1>2. IInv /\ [Next]_vars => [Handoff!Next]_(Handoff!vars)
    BY HandoffStep
  <1>3. QED
    BY <1>1, <1>2, Invariance, PTL DEF Spec, HandoffSpec, Handoff!Spec
=============================================================================
