----------------------------- MODULE Conditions -----------------------------
(***************************************************************************)
(* What the sign does by the conditions around it (src/main.cpp): stand-by *)
(* by the schedule, test mode, the brightness by the light meter, and the  *)
(* day and night mode of the camera by the brightness.                     *)
(* The main loop counts the seconds; the dimming thread looks the          *)
(* brightness up and sets the PWM meanwhile, through the global            *)
(* PWMDutyCycle. Command handlers run in the main loop.                    *)
(***************************************************************************)
EXTENDS Schedule

CONSTANTS
  Worlds,       \* what may happen around the sign, see World
  UpdateEvery,  \* seconds between two looks at the brightness: 30
  ResendEvery,  \* seconds after which the camera is told again: 600
  Shifts        \* hours by which mktime may be off

Configs == [scheduleType : Nat, schedules : Seq(Entries), autoDim : {0, 1},
            autoDimming : Seq([brightness : Nat, luminance : Nat]),
            displayBrightness : Nat]
World == [moments : SUBSET Moments, configs : SUBSET Configs, luminances : SUBSET Nat,
          bitmaps : SUBSET Nat, durations : SUBSET Nat,
          events : Nat]   \* commands and changes of the light, at most

ASSUME ConditionsAssumption ==
  /\ Shifts \subseteq {-1, 0, 1} /\ Shifts # {}
  /\ UpdateEvery \in Nat /\ ResendEvery \in Nat
  /\ \A w \in Worlds :
       /\ w.moments \subseteq Moments /\ w.luminances \subseteq Nat
       /\ w.bitmaps \subseteq Nat /\ w.durations \subseteq Nat /\ w.events \in Nat
       /\ \A c \in w.configs :
            /\ c.scheduleType \in Nat /\ c.autoDim \in {0, 1} /\ c.displayBrightness \in Nat
            /\ c.schedules \in Seq(Entries)
            /\ c.autoDimming \in Seq([brightness : Nat, luminance : Nat])
            /\ Len(c.autoDimming) > 0

VARIABLES
  world,                \* as it was chosen
  file, fileDirty,      \* the settings in the device info file
  deviceInfo,           \* and in the main loop's copy
  now,                  \* the clock, without its seconds
  secondOver,           \* secondsTimer # RTC_SEC
  pc,                   \* of the main loop
  bStandby,
  TestModeDuration, TestModeBitmap, LastTestModeBitmap,
  screen,               \* Dark, Traffic, or the picture of a test
  luminance,            \* by the light meter
  dimming, target,      \* the dimming thread's place, what it is to look up
  PWMDutyCycle, pwmDuty,
  UpdateLuxmeterCnt, SetCameraModeCnt, lastDutyCycleLevel,
  camera,               \* the mode the camera was last told
  events                \* still to happen

Dark    == <<"dark">>
Traffic == <<"traffic">>
Test(n) == <<"test", n>>
Unset   == -1

settingVars == <<file, fileDirty>>
clockVars   == <<now, secondOver>>
testVars    == <<TestModeDuration, TestModeBitmap, LastTestModeBitmap>>
dimVars     == <<dimming, target, PWMDutyCycle, pwmDuty>>
cameraVars  == <<UpdateLuxmeterCnt, SetCameraModeCnt, lastDutyCycleLevel, camera>>
vars == <<world, settingVars, deviceInfo, clockVars, pc, bStandby, testVars, screen,
          luminance, dimVars, cameraVars, events>>

Init ==
  /\ world \in Worlds
  /\ file \in world.configs /\ fileDirty = TRUE /\ deviceInfo = file
  /\ now \in world.moments /\ secondOver \in BOOLEAN
  /\ pc = "top"
  /\ bStandby = FALSE
  /\ TestModeDuration = 0 /\ TestModeBitmap = 0 /\ LastTestModeBitmap = Unset
  /\ screen = Dark
  /\ luminance \in world.luminances
  /\ dimming = "read" /\ target = 0 /\ PWMDutyCycle = 0 /\ pwmDuty = 0
  /\ UpdateLuxmeterCnt = 0
  /\ SetCameraModeCnt = 0
  /\ lastDutyCycleLevel = Unset
  /\ camera = "none"
  /\ events = world.events

-----------------------------------------------------------------------------
(* The main loop: a pass *)

Refresh ==
  /\ pc = "top" /\ pc' = "show"
  /\ fileDirty' = FALSE
  /\ IF fileDirty THEN deviceInfo' = file /\ screen' = Dark
                  ELSE UNCHANGED <<deviceInfo, screen>>
  /\ UNCHANGED <<world, file, clockVars, bStandby, testVars, luminance, dimVars, cameraVars,
                 events>>

\* The speed and the animations are shown outside of test mode and stand-by;
\* what is drawn is for SpeedDisplay.
Show ==
  /\ pc = "show" /\ pc' = "camera"
  /\ \/ TestModeDuration # 0 /\ screen' = screen
     \/ TestModeDuration = 0 /\ bStandby /\ screen' = Dark
     \/ TestModeDuration = 0 /\ ~bStandby /\ screen' \in {screen, Dark, Traffic}
  /\ UNCHANGED <<world, settingVars, deviceInfo, clockVars, bStandby, testVars, luminance,
                 dimVars, cameraVars, events>>

\* The camera is told when the brightness has crossed 30, and from time to
\* time. PWMDutyCycle is read here, for the choice, and to be remembered.
Crossed == (lastDutyCycleLevel > 30) # (PWMDutyCycle > 30)

\* Seeded fault: the camera is only told of a crossing.
LookAtBrightness_NoResend ==
  /\ pc = "camera"
  /\ IF UpdateLuxmeterCnt > UpdateEvery
     THEN /\ UpdateLuxmeterCnt' = 0
          /\ pc' = IF Crossed \/ lastDutyCycleLevel = Unset THEN "tell" ELSE "remember"
     ELSE UNCHANGED UpdateLuxmeterCnt /\ pc' = "seconds"
  /\ SetCameraModeCnt' = IF SetCameraModeCnt > ResendEvery THEN 0 ELSE SetCameraModeCnt
  /\ UNCHANGED <<world, settingVars, deviceInfo, clockVars, bStandby, testVars, screen, luminance,
                 dimVars, lastDutyCycleLevel, camera, events>>

LookAtBrightness ==
  /\ pc = "camera"
  /\ IF UpdateLuxmeterCnt > UpdateEvery
     THEN /\ UpdateLuxmeterCnt' = 0
          /\ pc' = IF Crossed \/ lastDutyCycleLevel = Unset \/ SetCameraModeCnt > ResendEvery
                   THEN "tell" ELSE "remember"
     ELSE UNCHANGED UpdateLuxmeterCnt /\ pc' = "seconds"
  /\ UNCHANGED <<world, settingVars, deviceInfo, clockVars, bStandby, testVars, screen, luminance,
                 dimVars, SetCameraModeCnt, lastDutyCycleLevel, camera, events>>

ModeFor(duty) == IF duty > 30 THEN "DAYTIME" ELSE "NIGHTTIME"

TellCamera ==
  /\ pc = "tell" /\ pc' = "remember"
  /\ camera' = ModeFor(PWMDutyCycle)
  /\ SetCameraModeCnt' = 0
  /\ UNCHANGED <<world, settingVars, deviceInfo, clockVars, bStandby, testVars, screen, luminance,
                 dimVars, UpdateLuxmeterCnt, lastDutyCycleLevel, events>>

Remember ==
  /\ pc = "remember" /\ pc' = "seconds"
  /\ lastDutyCycleLevel' = PWMDutyCycle
  /\ UNCHANGED <<world, settingVars, deviceInfo, clockVars, bStandby, testVars, screen, luminance,
                 dimVars, UpdateLuxmeterCnt, SetCameraModeCnt, camera, events>>

-----------------------------------------------------------------------------
(* The main loop: once per second *)

\* Each field of the time is read by a call of its own: the minute may turn
\* in between.
Fields == <<"hour", "min", "month", "day", "year">>
Torn(before, after) ==
  {[f \in DOMAIN before |-> IF \E i \in 1 .. n : Fields[i] = f THEN before[f] ELSE after[f]] :
     n \in 0 .. Len(Fields)}

\* Seeded fault: the end of a test does not forget its picture.
TestStep_NotForgotten ==
  IF TestModeDuration <= 0 THEN UNCHANGED <<testVars, screen>>
  ELSE /\ TestModeDuration' = TestModeDuration - 1
       /\ LastTestModeBitmap' = TestModeBitmap
       /\ screen' = CASE TestModeDuration = 1 -> Dark
                      [] TestModeDuration > 1 /\ LastTestModeBitmap # TestModeBitmap ->
                           Test(TestModeBitmap)
                      [] OTHER -> screen
       /\ UNCHANGED TestModeBitmap

TestStep ==
  IF TestModeDuration <= 0 THEN UNCHANGED <<testVars, screen>>
  ELSE /\ TestModeDuration' = TestModeDuration - 1
       /\ LastTestModeBitmap' = IF TestModeDuration = 1 THEN Unset ELSE TestModeBitmap
       /\ screen' = CASE TestModeDuration = 1 -> Dark
                      [] TestModeDuration > 1 /\ LastTestModeBitmap # TestModeBitmap ->
                           Test(TestModeBitmap)
                      [] OTHER -> screen
       /\ UNCHANGED TestModeBitmap

Judge(t) == \E shift \in Shifts : bStandby' = UpdateStandbyMode(deviceInfo, t, Weekday(t, shift))

Second ==
  /\ pc = "seconds" /\ pc' = "handle"
  /\ secondOver /\ secondOver' = FALSE
  /\ now' \in world.moments
  /\ \E t \in Torn(now, now') : Judge(t)
  /\ UpdateLuxmeterCnt' = UpdateLuxmeterCnt + 1
  /\ SetCameraModeCnt' = SetCameraModeCnt + 1
  /\ TestStep
  /\ UNCHANGED <<world, settingVars, deviceInfo, luminance, dimVars, lastDutyCycleLevel, camera,
                 events>>

SameSecond ==
  /\ pc = "seconds" /\ pc' = "handle"
  /\ ~secondOver
  /\ UNCHANGED <<world, settingVars, deviceInfo, clockVars, bStandby, testVars, screen, luminance,
                 dimVars, cameraVars, events>>

-----------------------------------------------------------------------------
(* The main loop: commands. Every sentence of a host sets fileDirty; the web *)
(* page that starts a test does not.                                         *)

Happens == events > 0 /\ events' = events - 1

NoCommand ==
  /\ pc = "handle" /\ pc' = "top"
  /\ UNCHANGED <<world, settingVars, deviceInfo, clockVars, bStandby, testVars, screen, luminance,
                 dimVars, cameraVars, events>>

Configure ==
  /\ pc = "handle" /\ pc' = "top"
  /\ Happens
  /\ file' \in world.configs /\ fileDirty' = TRUE
  /\ UNCHANGED <<world, deviceInfo, clockVars, bStandby, testVars, screen, luminance, dimVars,
                 cameraVars>>

\* CommProt_processTST takes the picture over even if there is no duration.
processTST ==
  /\ pc = "handle" /\ pc' = "top"
  /\ Happens
  /\ TestModeBitmap' \in world.bitmaps
  /\ \/ UNCHANGED TestModeDuration
     \/ \E d \in world.durations : TestModeDuration' = d + 1
  /\ fileDirty' = TRUE
  /\ UNCHANGED <<world, file, deviceInfo, clockVars, bStandby, LastTestModeBitmap, screen,
                 luminance, dimVars, cameraVars>>

start_test_mode ==
  /\ pc = "handle" /\ pc' = "top"
  /\ Happens
  /\ TestModeBitmap' \in world.bitmaps
  /\ \E d \in world.durations : TestModeDuration' = d + 1
  /\ UNCHANGED <<world, settingVars, deviceInfo, clockVars, bStandby, LastTestModeBitmap, screen,
                 luminance, dimVars, cameraVars>>

-----------------------------------------------------------------------------
(* The dimming thread (DoAutoDimming). The last entry of the table stands in *)
(* PWMDutyCycle while the table is searched.                                 *)

\* Seeded fault: the search goes on after it has found an entry.
BrightnessFor_NoBreak(table, light) ==
  LET found == {i \in 1 .. Len(table) - 1 : light <= table[i].luminance}
  IN  IF found = {} THEN table[Len(table)].brightness
      ELSE table[CHOOSE i \in found : \A j \in found : j <= i].brightness

BrightnessFor(table, light) ==
  LET found == {i \in 1 .. Len(table) - 1 : light <= table[i].luminance}
  IN  IF found = {} THEN table[Len(table)].brightness
      ELSE table[CHOOSE i \in found : \A j \in found : i <= j].brightness

calcPwmDuty(percent) == IF percent > 0 THEN 18000 * percent ELSE 1

DimRead ==
  /\ dimming = "read"
  /\ IF file.autoDim = 1
     THEN /\ dimming' = "search"
          /\ target' = BrightnessFor(file.autoDimming, luminance)
          /\ PWMDutyCycle' = file.autoDimming[Len(file.autoDimming)].brightness
     ELSE /\ dimming' = "set"
          /\ PWMDutyCycle' = file.displayBrightness % 128
          /\ target' = 0
  /\ UNCHANGED <<world, settingVars, deviceInfo, clockVars, pc, bStandby, testVars, screen,
                 luminance, pwmDuty, cameraVars, events>>

DimSearch ==
  /\ dimming = "search" /\ dimming' = "set"
  /\ PWMDutyCycle' = target /\ target' = 0
  /\ UNCHANGED <<world, settingVars, deviceInfo, clockVars, pc, bStandby, testVars, screen,
                 luminance, pwmDuty, cameraVars, events>>

DimSet ==
  /\ dimming = "set" /\ dimming' = "read"
  /\ pwmDuty' = calcPwmDuty(PWMDutyCycle)
  /\ UNCHANGED <<world, settingVars, deviceInfo, clockVars, pc, bStandby, testVars, screen,
                 luminance, target, PWMDutyCycle, cameraVars, events>>

-----------------------------------------------------------------------------
(* Time and light *)

Tick ==
  /\ ~secondOver /\ secondOver' = TRUE
  /\ now' \in world.moments
  /\ UNCHANGED <<world, settingVars, deviceInfo, pc, bStandby, testVars, screen, luminance,
                 dimVars, cameraVars, events>>

Light ==
  /\ Happens
  /\ luminance' \in world.luminances \ {luminance}
  /\ UNCHANGED <<world, settingVars, deviceInfo, clockVars, pc, bStandby, testVars, screen,
                 dimVars, cameraVars>>

MainLoop ==
  \/ Refresh \/ Show \/ LookAtBrightness \/ TellCamera \/ Remember \/ Second \/ SameSecond
  \/ NoCommand \/ Configure \/ processTST \/ start_test_mode
Dimming == DimRead \/ DimSearch \/ DimSet

Next == MainLoop \/ Dimming \/ Tick \/ Light

Spec == Init /\ [][Next]_vars

\* Both threads go on, and so does the time.
FairSpec == Spec /\ WF_vars(MainLoop) /\ WF_vars(Dimming) /\ WF_vars(Tick)

-----------------------------------------------------------------------------
(* Properties *)

\* Each second the sign is on stand-by exactly if no interval of the schedule is
\* in force, by the calendar, if the minute did not turn while the time was read
\* (UpdateStandbyMode, with the interval and period tests). On 1 March of a leap
\* year the day before is taken to be 28 February.
StandbyAsScheduled ==
  [][Second /\ now' = now /\ ~(Leap(now.year) /\ now.month = 3 /\ now.day = 1) =>
       \E shift \in Shifts : bStandby' = OffDuty(deviceInfo, now, Weekday(now, shift))]_vars

\* A test shows its picture from its first second on, or nothing if settings were
\* taken over meanwhile, and leaves nothing behind, so that the next test
\* shows up too (the seconds block, TST, start_test_mode).
TestShown ==
  /\ TestModeDuration = 0 => screen \in {Dark, Traffic} /\ LastTestModeBitmap = Unset
  /\ TestModeDuration > 0 /\ LastTestModeBitmap = TestModeBitmap =>
       screen \in {Dark, Test(TestModeBitmap)}

\* The brightness the settings ask for: that of the first entry of the table for
\* as much light or more, or of the last entry.
Wanted ==
  LET t == file.autoDimming
      i == CHOOSE n \in 1 .. Len(t) : /\ n = Len(t) \/ luminance <= t[n].luminance
                                     /\ \A m \in 1 .. n - 1 : luminance > t[m].luminance
  IN  IF file.autoDim = 1 THEN t[i].brightness ELSE file.displayBrightness % 128

\* Once light and settings stay as they are the lamps get the brightness that the
\* settings ask for and keep it, though another value stands in PWMDutyCycle
\* during each search (DoAutoDimming).
BrightnessFollows == <>[](pwmDuty = calcPwmDuty(Wanted))

\* With a fixed brightness the camera gets into the mode for it and stays, also
\* if it was misled by a search of the dimming table before.
CameraFollows ==
  <>[](file.autoDim = 0) => <>[](camera = ModeFor(Wanted))
=============================================================================
