--------------------------- MODULE DisplayPipeline ---------------------------
(***************************************************************************)
(* The path of a picture from the main loop to the LED panels              *)
(* (src/VMSDriver.cpp), with the threads that share it:                    *)
(*                                                                         *)
(*   "main"  draws into VMSBitmap and calls VMSDriver_UpdateFrameFast, or  *)
(*           blanks the panels with VMSDriver_Clear(true);                 *)
(*   "disp"  displayThread: takes the frame buffer and sends it over SPI;  *)
(*   "volt"  readVoltageThread: stops the PWM at low supply voltage and    *)
(*           keeps displayLock until the voltage has recovered;            *)
(*   "usb"   MemoryMonTask: blanks the panels around a USB transfer.       *)
(*                                                                         *)
(* displayLock is taken by one thread and released by another: main waits  *)
(* for it, the display thread posts it when the frame is out.              *)
(***************************************************************************)
EXTENDS Naturals

CONSTANTS
  Frames,        \* the pictures the main loop draws
  Blank,         \* the bitmap after VMSDriver_Clear
  Torn,          \* a bitmap that is only partly drawn
  Junk,          \* a buffer that holds no bitmap: NULL, fresh or freed memory
  UsbSticks,     \* BOOLEAN: USB sticks are inserted
  LowVoltLimit,  \* samples at low voltage before the PWM is stopped (30)
  StoppedPinHigh,\* BOOLEAN: level of the monitored OE pin while the PWM is stopped
  SettledStart   \* BOOLEAN: the sleep(5) of main outlasts the display thread's start

ASSUME ConstantsAssumption ==
  /\ Blank \notin Frames /\ Torn \notin Frames /\ Junk \notin Frames
  /\ Blank # Torn /\ Blank # Junk /\ Torn # Junk
  /\ UsbSticks \in BOOLEAN
  /\ StoppedPinHigh \in BOOLEAN
  /\ SettledStart \in BOOLEAN
  /\ LowVoltLimit \in Nat \ {0}

VARIABLES
  pc,             \* where each thread is
  VMSBitmap,      \* the bitmap the main loop draws into
  displayLock, displayUpdate,   \* the two semaphores
  spi_buff, spi_buffLen,        \* the frame buffer; its length is 0 or 1 (bitmapSize)
  spi_stream,     \* the display thread's copy, panels in physical order
  tx,             \* the transfer buffer of the one spi object, in two halves
  shiftReg,       \* what the last transfer left in the panels' shift registers
  outputs,        \* what the panels' output latches drive
  bufLE,          \* the latch enable line
  pwmOn,          \* the PWM (the panels' output enable) runs
  disablePWM, lowVoltCounter,   \* state of the voltage monitor
  displaySem, offCalls          \* "display control" and the Off calls made under it

busVars  == <<tx, shiftReg, outputs, bufLE>>
buffVars == <<spi_buff, spi_buffLen, spi_stream>>
semVars  == <<displayLock, displayUpdate>>
voltVars == <<pwmOn, disablePWM, lowVoltCounter>>
usbVars  == <<displaySem, offCalls>>
vars == <<pc, VMSBitmap, semVars, buffVars, busVars, voltVars, usbVars>>

Threads  == {"main", "disp", "volt", "usb"}
Pictures == Frames \cup {Blank, Torn}
Halves   == {"first", "second"}
SpiSteps == {"pwmOff", "zero", "xfer", "setLE", "clearLE"} \cup Halves

goto(t, l) == pc' = [pc EXCEPT ![t] = l]

Init ==
  \* VMSDriver_Initialize has cleared the panels and created the display
  \* thread; main sleeps before it creates the other threads.
  /\ pc = [t \in Threads |-> CASE t = "main" -> "boot" [] t = "disp" -> "wait"
                               [] OTHER -> "none"]
  /\ VMSBitmap = Blank
  /\ displayLock = 1
  /\ displayUpdate = 1
  /\ spi_buff = Junk
  /\ spi_buffLen = 0
  /\ spi_stream = Junk
  /\ tx = [i \in Halves |-> Blank]
  /\ shiftReg = Blank
  /\ outputs = Blank
  /\ bufLE = 1
  /\ pwmOn = TRUE
  /\ disablePWM = 0
  /\ lowVoltCounter = 0
  /\ displaySem = 1
  /\ offCalls = 0

\* Seeded fault: no sleep before the first frame.
Boot_NoSleep ==
  /\ pc["main"] = "boot"
  /\ pc' = [pc EXCEPT !["main"] = "idle", !["volt"] = "sample", !["usb"] = "out"]
  /\ UNCHANGED <<VMSBitmap, semVars, buffVars, busVars, voltVars, usbVars>>

\* main sleeps 5 s, then starts the other threads. The first frame cannot
\* come earlier; SettledStart says the display thread has by then reached its
\* sem_wait and used up the initial credit of displayUpdate.
Boot ==
  /\ pc["main"] = "boot"
  /\ SettledStart => pc["disp"] = "wait" /\ displayUpdate = 0
  /\ pc' = [pc EXCEPT !["main"] = "idle", !["volt"] = "sample", !["usb"] = "out"]
  /\ UNCHANGED <<VMSBitmap, semVars, buffVars, busVars, voltVars, usbVars>>

-----------------------------------------------------------------------------
(* SpiSendPanel, run by whichever thread t called it.                        *)

\* The bytes thread t sends: the display thread its reordered copy, the
\* callers of VMSDriver_Clear(true) the shared bitmap itself.
payload(t) == IF t = "disp" THEN spi_stream ELSE VMSBitmap

\* waitPwmOff polls the OE pin until it reads high. A running PWM goes through
\* its off phase in every period (the duty never exceeds PWMMAX percent).
WaitPwmOff(t) ==
  /\ pc[t] = "pwmOff"
  /\ pwmOn \/ StoppedPinHigh
  /\ goto(t, "zero")
  /\ UNCHANGED <<VMSBitmap, semVars, buffVars, busVars, voltVars, usbVars>>

(* spi::write: all threads fill the same member _tx, without a lock, before   *)
(* they hand it to the driver, so that one thread's bytes may go out with      *)
(* another's transfer.                                                         *)

\* memset of the whole buffer.
SpiZero(t) ==
  /\ pc[t] = "zero"
  /\ tx' = [i \in Halves |-> Blank]
  /\ goto(t, "first")
  /\ UNCHANGED <<VMSBitmap, semVars, buffVars, shiftReg, outputs, bufLE, voltVars, usbVars>>

\* Seeded fault: the second half is not copied.
SpiCopy_Short(t) ==
  /\ pc[t] = "first"
  /\ tx' = [tx EXCEPT !["first"] = payload(t)]
  /\ goto(t, "xfer")
  /\ UNCHANGED <<VMSBitmap, semVars, buffVars, shiftReg, outputs, bufLE, voltVars, usbVars>>

\* memcpy, which another thread can interrupt: two halves are enough for the
\* buffer to hold pieces of two pictures.
SpiCopy(t) ==
  /\ pc[t] \in Halves
  /\ tx' = [tx EXCEPT ![pc[t]] = payload(t)]
  /\ goto(t, IF pc[t] = "first" THEN "second" ELSE "xfer")
  /\ UNCHANGED <<VMSBitmap, semVars, buffVars, shiftReg, outputs, bufLE, voltVars, usbVars>>

\* What goes out: pieces of two pictures are no picture.
sent == IF tx["first"] = tx["second"] THEN tx["first"] ELSE Torn

\* The ioctl; the driver takes one transfer at a time. While the latch enable
\* line is high the latches follow the shift registers.
SpiTransfer(t) ==
  /\ pc[t] = "xfer"
  /\ shiftReg' = sent
  /\ outputs' = IF bufLE = 1 THEN sent ELSE outputs
  /\ goto(t, "setLE")
  /\ UNCHANGED <<VMSBitmap, semVars, buffVars, tx, bufLE, voltVars, usbVars>>

\* Seeded fault: the line is raised but the latches are not loaded.
SetDisplayLE_NoLatch(t) ==
  /\ pc[t] = "setLE"
  /\ goto(t, "clearLE")
  /\ UNCHANGED <<VMSBitmap, semVars, buffVars, busVars, voltVars, usbVars>>

SetDisplayLE(t) ==
  /\ pc[t] = "setLE"
  /\ bufLE' = 1
  /\ outputs' = shiftReg
  /\ goto(t, "clearLE")
  /\ UNCHANGED <<VMSBitmap, semVars, buffVars, tx, shiftReg, voltVars, usbVars>>

\* Seeded fault: the display thread goes back to waiting without giving the
\* frame and the lock back.
afterSpi_KeepLock(t) == CASE t = "main" -> "idle" [] t = "disp" -> "wait" [] OTHER -> "control"

\* Seeded fault: the memory task leaves without releasing display control.
afterSpi_KeepControl(t) == CASE t = "main" -> "idle" [] t = "disp" -> "len" [] OTHER -> "out"

\* Where SpiSendPanel returns to in each of its callers.
afterSpi(t) == CASE t = "main" -> "idle" [] t = "disp" -> "len" [] OTHER -> "control"

ClearDisplayLE(t) ==
  /\ pc[t] = "clearLE"
  /\ bufLE' = 0
  /\ goto(t, afterSpi(t))
  /\ UNCHANGED <<VMSBitmap, semVars, buffVars, tx, shiftReg, outputs, voltVars, usbVars>>

SpiSend(t) ==
  \/ WaitPwmOff(t)
  \/ SpiZero(t) \/ SpiCopy(t) \/ SpiTransfer(t)
  \/ SetDisplayLE(t) \/ ClearDisplayLE(t)

-----------------------------------------------------------------------------
(* The main thread.                                                          *)

\* VMSDriver_Clear(true): memset, then SpiSendPanel. No lock is taken.
Clear ==
  /\ pc["main"] = "idle"
  /\ VMSBitmap' = Blank
  /\ goto("main", "pwmOff")
  /\ UNCHANGED <<semVars, buffVars, busVars, voltVars, usbVars>>

\* Drawing takes many stores; another thread's memset can fall between them.
DrawBegin ==
  /\ pc["main"] = "idle"
  /\ VMSBitmap' = Torn
  /\ goto("main", "drawing")
  /\ UNCHANGED <<semVars, buffVars, busVars, voltVars, usbVars>>

DrawEnd ==
  /\ pc["main"] = "drawing"
  /\ \E f \in Frames :
       VMSBitmap' \in IF VMSBitmap = Torn THEN {f} ELSE {f, Torn}
  /\ goto("main", "lock")
  /\ UNCHANGED <<semVars, buffVars, busVars, voltVars, usbVars>>

(* VMSDriver_UpdateFrameFast, statement by statement. *)
\* Seeded fault: the frame is queued without waiting for the previous one.
UpdateLock_NoWait ==
  /\ pc["main"] = "lock"
  /\ goto("main", "setLen")
  /\ UNCHANGED <<VMSBitmap, semVars, buffVars, busVars, voltVars, usbVars>>

UpdateLock ==
  /\ pc["main"] = "lock"
  /\ displayLock > 0
  /\ displayLock' = displayLock - 1
  /\ goto("main", "setLen")
  /\ UNCHANGED <<VMSBitmap, displayUpdate, buffVars, busVars, voltVars, usbVars>>

UpdateSetLen ==
  /\ pc["main"] = "setLen"
  /\ spi_buffLen' = 1
  /\ goto("main", "malloc")
  /\ UNCHANGED <<VMSBitmap, semVars, spi_buff, spi_stream, busVars, voltVars, usbVars>>

UpdateMalloc ==
  /\ pc["main"] = "malloc"
  /\ spi_buff' = Junk
  /\ goto("main", "memcpy")
  /\ UNCHANGED <<VMSBitmap, semVars, spi_buffLen, spi_stream, busVars, voltVars, usbVars>>

UpdateMemcpy ==
  /\ pc["main"] = "memcpy"
  /\ spi_buff' = VMSBitmap
  /\ goto("main", "post")
  /\ UNCHANGED <<VMSBitmap, semVars, spi_buffLen, spi_stream, busVars, voltVars, usbVars>>

UpdatePost ==
  /\ pc["main"] = "post"
  /\ displayUpdate' = displayUpdate + 1
  /\ goto("main", "idle")
  /\ UNCHANGED <<VMSBitmap, displayLock, buffVars, busVars, voltVars, usbVars>>

UpdateFrameFast == UpdateLock \/ UpdateSetLen \/ UpdateMalloc \/ UpdateMemcpy \/ UpdatePost

-----------------------------------------------------------------------------
(* The display thread.                                                       *)

DispWait ==
  /\ pc["disp"] = "wait"
  /\ displayUpdate > 0
  /\ displayUpdate' = displayUpdate - 1
  /\ goto("disp", "check")
  /\ UNCHANGED <<VMSBitmap, displayLock, buffVars, busVars, voltVars, usbVars>>

\* Seeded fault: the post of displayLock is outside the test.
DispCheck_AlwaysPost ==
  /\ pc["disp"] = "check"
  /\ goto("disp", IF spi_buffLen > 0 THEN "read" ELSE "unlock")
  /\ UNCHANGED <<VMSBitmap, semVars, buffVars, busVars, voltVars, usbVars>>

\* A wake-up without a frame is ignored.
DispCheck ==
  /\ pc["disp"] = "check"
  /\ goto("disp", IF spi_buffLen > 0 THEN "read" ELSE "wait")
  /\ UNCHANGED <<VMSBitmap, semVars, buffVars, busVars, voltVars, usbVars>>

\* Copies the panels into the order in which the chain is wired.
DispRead ==
  /\ pc["disp"] = "read"
  /\ spi_stream' = spi_buff
  /\ goto("disp", "pwmOff")
  /\ UNCHANGED <<VMSBitmap, semVars, spi_buff, spi_buffLen, busVars, voltVars, usbVars>>

DispSetLen ==
  /\ pc["disp"] = "len"
  /\ spi_buffLen' = 0
  /\ goto("disp", "free")
  /\ UNCHANGED <<VMSBitmap, semVars, spi_buff, spi_stream, busVars, voltVars, usbVars>>

DispFree ==
  /\ pc["disp"] = "free"
  /\ spi_buff' = Junk
  /\ goto("disp", "unlock")
  /\ UNCHANGED <<VMSBitmap, semVars, spi_buffLen, spi_stream, busVars, voltVars, usbVars>>

DispUnlock ==
  /\ pc["disp"] = "unlock"
  /\ displayLock' = displayLock + 1
  /\ goto("disp", "wait")
  /\ UNCHANGED <<VMSBitmap, displayUpdate, buffVars, busVars, voltVars, usbVars>>

DisplayThread ==
  DispWait \/ DispCheck \/ DispRead \/ SpiSend("disp") \/ DispSetLen \/ DispFree \/ DispUnlock

-----------------------------------------------------------------------------
(* The voltage monitor: one sample every 150 ms, filtered. The filtered level *)
(* is the environment's choice; the counter only matters up to the limit.     *)

CountLow == IF lowVoltCounter < LowVoltLimit THEN lowVoltCounter + 1 ELSE lowVoltCounter

\* At or below 8.5 V. Good samples in between do not reset the counter.
SampleLow ==
  /\ pc["volt"] = "sample"
  /\ lowVoltCounter' = CountLow
  /\ goto("volt", CASE CountLow >= LowVoltLimit /\ disablePWM = 0 -> "lock"
                    [] CountLow < LowVoltLimit /\ disablePWM = 1 -> "start"
                    [] OTHER -> "sample")
  /\ UNCHANGED <<VMSBitmap, semVars, buffVars, busVars, pwmOn, disablePWM, usbVars>>

SampleGood ==
  /\ pc["volt"] = "sample"
  /\ disablePWM = 1
  /\ goto("volt", "start")
  /\ UNCHANGED <<VMSBitmap, semVars, buffVars, busVars, voltVars, usbVars>>

\* Seeded fault: the monitor stops the PWM without locking the display.
VoltLock_Skipped ==
  /\ pc["volt"] = "lock"
  /\ goto("volt", "stop")
  /\ UNCHANGED <<VMSBitmap, semVars, buffVars, busVars, voltVars, usbVars>>

\* VMSDriver_LockDisplay
VoltLock ==
  /\ pc["volt"] = "lock"
  /\ displayLock > 0
  /\ displayLock' = displayLock - 1
  /\ goto("volt", "stop")
  /\ UNCHANGED <<VMSBitmap, displayUpdate, buffVars, busVars, voltVars, usbVars>>

VoltStopPwm ==
  /\ pc["volt"] = "stop"
  /\ pwmOn' = FALSE
  /\ disablePWM' = 1
  /\ goto("volt", "sample")
  /\ UNCHANGED <<VMSBitmap, semVars, buffVars, busVars, lowVoltCounter, usbVars>>

VoltStartPwm ==
  /\ pc["volt"] = "start"
  /\ pwmOn' = TRUE
  /\ goto("volt", "unlock")
  /\ UNCHANGED <<VMSBitmap, semVars, buffVars, busVars, disablePWM, lowVoltCounter, usbVars>>

\* VMSDriver_UnlockDisplay and the reset of the monitor.
VoltUnlock ==
  /\ pc["volt"] = "unlock"
  /\ displayLock' = displayLock + 1
  /\ disablePWM' = 0
  /\ lowVoltCounter' = 0
  /\ goto("volt", "sample")
  /\ UNCHANGED <<VMSBitmap, displayUpdate, buffVars, busVars, pwmOn, usbVars>>

VoltageThread ==
  SampleLow \/ SampleGood \/ VoltLock \/ VoltStopPwm \/ VoltStartPwm \/ VoltUnlock

-----------------------------------------------------------------------------
(* The memory task: displayWait, VMSDriver_Off, the transfer, VMSDriver_Off,  *)
(* displayRelease.                                                            *)

DisplayWait ==
  /\ UsbSticks
  /\ pc["usb"] = "out"
  /\ displaySem > 0
  /\ displaySem' = displaySem - 1
  /\ offCalls' = 0
  /\ goto("usb", "control")
  /\ UNCHANGED <<VMSBitmap, semVars, buffVars, busVars, voltVars>>

UsbOff ==
  /\ pc["usb"] = "control"
  /\ offCalls < 2
  /\ offCalls' = offCalls + 1
  /\ VMSBitmap' = Blank
  /\ goto("usb", "pwmOff")
  /\ UNCHANGED <<semVars, buffVars, busVars, voltVars, displaySem>>

DisplayRelease ==
  /\ pc["usb"] = "control"
  /\ offCalls = 2
  /\ displaySem' = displaySem + 1
  /\ goto("usb", "out")
  /\ UNCHANGED <<VMSBitmap, semVars, buffVars, busVars, voltVars, offCalls>>

MemoryTask == DisplayWait \/ UsbOff \/ SpiSend("usb") \/ DisplayRelease

-----------------------------------------------------------------------------
MainThread == Boot \/ Clear \/ DrawBegin \/ DrawEnd \/ UpdateFrameFast \/ SpiSend("main")

Next == MainThread \/ DisplayThread \/ VoltageThread \/ MemoryTask

Spec == Init /\ [][Next]_vars

(***************************************************************************)
(* Every thread that can run is scheduled. Nothing forces the main loop to *)
(* draw or the voltage to change, so the steps that begin an operation and *)
(* the samples have no fairness. A sem_wait on displayLock competes with   *)
(* the voltage monitor, which after a release takes at least LowVoltLimit  *)
(* samples to come back: sem_post wakes the waiting main thread first,     *)
(* hence strong fairness for it.                                           *)
(***************************************************************************)
Fairness ==
  /\ WF_vars(Boot) /\ WF_vars(DrawEnd) /\ WF_vars(SpiSend("main"))
  /\ SF_vars(UpdateFrameFast)
  /\ WF_vars(DisplayThread)
  /\ WF_vars(VoltLock \/ VoltStopPwm \/ VoltStartPwm \/ VoltUnlock)
  /\ WF_vars(UsbOff \/ SpiSend("usb") \/ DisplayRelease)

FairSpec == Spec /\ Fairness

-----------------------------------------------------------------------------
(* Properties.                                                               *)

TypeOK ==
  /\ pc \in [Threads -> {"none", "boot", "idle", "drawing", "lock", "setLen", "malloc",
                         "memcpy", "post", "wait", "check", "read", "len", "free", "unlock",
                         "sample", "stop", "start", "out", "control"} \cup SpiSteps]
  /\ VMSBitmap \in Pictures
  /\ displayLock \in {0, 1}
  /\ displayUpdate \in {0, 1}
  /\ spi_buff \in Pictures \cup {Junk}
  /\ spi_buffLen \in {0, 1}
  /\ spi_stream \in Pictures \cup {Junk}
  /\ tx \in [Halves -> Pictures]
  /\ shiftReg \in Pictures
  /\ outputs \in Pictures
  /\ bufLE \in {0, 1}
  /\ pwmOn \in BOOLEAN
  /\ disablePWM \in {0, 1}
  /\ lowVoltCounter \in 0..LowVoltLimit
  /\ displaySem \in {0, 1}
  /\ offCalls \in 0..2

\* The three ways displayLock is held: main fills the buffer, a filled buffer
\* is on its way through the display thread, the monitor has the display.
MainFills == pc["main"] \in {"setLen", "malloc", "memcpy", "post"}
FrameInFlight ==
  \/ pc["main"] # "boot" /\ displayUpdate = 1
  \/ pc["disp"] = "check" /\ spi_buffLen = 1
  \/ pc["disp"] \in {"read", "len", "free", "unlock"} \cup SpiSteps
MonitorHolds == disablePWM = 1 \/ pc["volt"] \in {"stop", "start", "unlock"}

\* The lock passes from thread to thread, and is posted by another thread than
\* the one that waited for it: it is never held twice and never lost, i.e. it
\* is free exactly when none of the three holds it.
LockHandedOver ==
  /\ ~(MainFills /\ FrameInFlight)
  /\ ~(MainFills /\ MonitorHolds)
  /\ ~(FrameInFlight /\ MonitorHolds)
  /\ displayLock = 1 <=> ~(MainFills \/ FrameInFlight \/ MonitorHolds)

\* displayThread tests spi_buffLen, which main sets before the buffer exists:
\* the thread nevertheless never reads a buffer that main has not filled, or
\* that it has itself freed, and nobody else frees it under the thread.
BufferCompleteWhenRead ==
  pc["disp"] = "read" => spi_buff # Junk /\ ~MainFills

\* The display thread polls the OE pin with the lock held. The monitor takes
\* the lock before it stops the PWM, so the thread never polls the pin of a
\* stopped PWM, which might never change.
NoPollOfStoppedPwm == pc["disp"] = "pwmOff" => pwmOn

\* Clear and the display thread fill the same transfer buffer, use the same bus
\* and pulse the same latch line without excluding each other: a mixture of
\* their bytes may be shown, or a frame after the panels were cleared. Whatever
\* has happened before, when the frame main drew last has gone through the
\* display thread, the panels show it, whole. With USB sticks the memory task
\* clears the bitmap and the panels at any moment.
PictureAtRest ==
  ~UsbSticks /\ pc["main"] = "idle" /\ VMSBitmap \in Frames /\ ~FrameInFlight =>
    outputs = VMSBitmap

\* The last picture drawn reaches the panels unless main goes on to something
\* else: no lost wake-up, no frame stuck behind the voltage monitor.
LastFrameShown ==
  \A f \in Frames :
    (pc["main"] = "idle" /\ VMSBitmap = f) ~> (outputs = f \/ pc["main"] # "idle" \/ VMSBitmap # f)

\* VMSDriver_UpdateFrameFast blocks the whole main loop on displayLock. It gets
\* through, unless the PWM has been stopped because of low voltage.
UpdateGetsThrough == (pc["main"] = "lock") ~> (pc["main"] # "lock" \/ disablePWM = 1)

\* The memory task gives display control back: it does not hang in one of its
\* two Off calls, unless the PWM has been stopped under it.
ControlReturned == displaySem = 0 ~> (displaySem = 1 \/ ~pwmOn)

\* The strengthening of the three safety properties that is inductive: where
\* each thread can be, and what the buffer and its length are there.
ProgramPoints ==
  /\ pc["main"] \in {"boot", "idle", "drawing", "lock", "setLen", "malloc", "memcpy", "post"}
                     \cup SpiSteps
  /\ pc["disp"] \in {"wait", "check", "read", "len", "free", "unlock"} \cup SpiSteps
  /\ pc["volt"] \in {"none", "sample", "lock", "stop", "start", "unlock"}
  /\ pc["usb"] \in {"none", "out", "control"} \cup SpiSteps

BufferState ==
  /\ spi_buffLen = 1 <=> \/ pc["main"] \in {"malloc", "memcpy", "post"}
                         \/ FrameInFlight /\ pc["disp"] \notin {"free", "unlock"}
  /\ pc["main"] = "post" => spi_buff # Junk
  /\ FrameInFlight /\ pc["disp"] \in {"wait", "check", "read"} => spi_buff # Junk
  /\ pc["disp"] \in SpiSteps => spi_stream # Junk

\* Before the first frame only the initial credit of displayUpdate is around;
\* afterwards the display thread sleeps unless a frame is in flight.
CreditState ==
  /\ pc["main"] = "boot" => /\ pc["disp"] \in {"wait", "check"}
                            /\ displayUpdate = 1 => pc["disp"] = "wait"
                            /\ displayLock = 1 /\ spi_buffLen = 0
                            /\ disablePWM = 0 /\ pc["volt"] = "none" /\ pc["usb"] = "none"
  /\ pc["main"] # "boot" /\ pc["disp"] # "wait" => displayUpdate = 0 /\ FrameInFlight

PwmState ==
  /\ pwmOn <=> disablePWM = 0 \/ pc["volt"] = "unlock"
  /\ pc["volt"] \in {"lock", "stop"} => disablePWM = 0
  /\ pc["volt"] \in {"start", "unlock"} => disablePWM = 1

ControlState == displaySem = 1 <=> pc["usb"] \in {"none", "out"}

IInv ==
  /\ TypeOK /\ ProgramPoints
  /\ LockHandedOver
  /\ BufferState /\ CreditState /\ PwmState /\ ControlState

\* The pipeline hands pictures over as FrameHandoff promises: one at a time,
\* unchanged, each taken once, none while the monitor has the display.
slotBar == IF FrameInFlight /\ pc["disp"] \in {"wait", "check", "read"} THEN spi_buff ELSE Junk
ownerBar == IF FrameInFlight THEN "frame" ELSE IF MonitorHolds THEN "monitor" ELSE "nobody"

Handoff == INSTANCE FrameHandoff WITH
             NoPicture <- Junk, slot <- slotBar, owner <- ownerBar, taken <- spi_stream

HandoffSpec == Handoff!Spec
=============================================================================
