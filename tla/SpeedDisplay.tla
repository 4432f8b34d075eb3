---------------------------- MODULE SpeedDisplay ----------------------------
(***************************************************************************)
(* From a radar reading to a number on the sign: the selection of the      *)
(* speed to display (src/radar.cpp), which the radar thread and the main   *)
(* loop both run without a lock, and the frame and blink logic of the main *)
(* loop that draws it (src/main.cpp), while settings are saved: the main   *)
(* loop takes them over in its next pass, the radar thread keeps those it  *)
(* read when it started.                                                   *)
(*                                                                         *)
(* Every statement that touches a global of both threads is a step; the    *)
(* rest of drawing works on the main loop's own state and is one step.     *)
(* Points of time are modelled by their age in ticks, up to MaxAge; a pass *)
(* of the main loop takes less than a tick. The radar's speeds are         *)
(* unsigned, modulo Wide: a receding vehicle has one in the upper half.    *)
(***************************************************************************)
EXTENDS Integers

CONSTANTS
  Wide,        \* 2^32, the range of an unsigned int
  Speeds,      \* what the radar reports
  Configs,     \* the settings (DeviceInfoS) the sign may have
  Factory,     \* those it may start with
  MaxAge,      \* ages are not told apart from here on
  MaxFrameAge, \* nor is the age of a frame from here on
  MaxReports,  \* readings per tick
  MaxSaves     \* settings saved in a behaviour

Settings == [unitType : {0, 1},            \* 1: limits and number in km/h
             minDisplaySpeed : Nat, blinkLimit : Nat, maxDisplaySpeed : Nat,
             blinkOn : Nat, blinkOff : Nat,           \* durations, in ticks
             updateDisplayLength : Nat, keepLastSpeedLength : Nat,
             updateDisplaySpeedDelta : Nat,
             speedDisplayMode : {1, 2},    \* 2: number and image alternate
             numFrames : Nat,              \* images of the speed framesets
             animFrames : Nat, animFrameLength : Nat]   \* the idle animation

ASSUME SettingsAssumption ==
  /\ Wide \in Nat \ {0}
  /\ Speeds \subseteq 0 .. Wide - 1
  /\ Configs \subseteq Settings /\ Factory \subseteq Configs
  /\ MaxAge \in Nat /\ MaxFrameAge \in Nat /\ MaxReports \in Nat /\ MaxSaves \in Nat

VARIABLES
  LastSpeed, speedAge,           \* last reading, age of LastSpeedTime
  LastDisplayedSpeed, dispAge,   \* selected speed, age of LastDisplayedSpeedTime
  pc, keep, update,              \* per thread: place and adjusted lengths
  NumAnimationFrames, AnimationFrameLengthMs,
  theLastMode, CurrentlyDisplayedSpeed, myState, AnimationFrameIdx,
  frameAge,       \* age of currentFrameStart; MaxFrameAge when it is reset to 0
  screen,         \* what the sign shows
  stored,         \* the settings in the file
  deviceInfo,     \* the main loop's copy of them
  radarInfo,      \* the radar thread's copy
  fileDirty, saves, bStandby,
  passed, reports, \* this tick: the main loop made a pass, readings so far
  quietAge        \* age of the last reading, of the last settings taken over or
                  \* of the last change of the animation's length, the latest

radarVars == <<LastSpeed, speedAge, LastDisplayedSpeed, dispAge>>
localVars == <<keep, update>>
animationVars == <<NumAnimationFrames, AnimationFrameLengthMs>>
drawVars  == <<theLastMode, CurrentlyDisplayedSpeed, myState, AnimationFrameIdx,
               frameAge>>
infoVars  == <<stored, deviceInfo, radarInfo, fileDirty, saves>>
tickVars  == <<passed, reports, quietAge>>
vars == <<radarVars, localVars, pc, animationVars, drawVars, screen, infoVars,
          bStandby, tickVars>>

Threads == {"main", "radar"}
goto(t, l) == pc' = [pc EXCEPT ![t] = l]
at(t, l)   == pc[t] = l

Never == -1     \* LastSpeedTime before the first reading
None  == -1
Dark  == [number |-> None, frame |-> None, corners |-> FALSE]

AtMost(a, b) == IF a <= b THEN a ELSE b
AtLeast(a, b) == IF a >= b THEN a ELSE b

\* The length of a setting's animation, and the longest times for which a
\* reading is kept and its number is held while the animation is configured.
Animation(info)  == info.animFrames * info.animFrameLength
KeepTime(info)   == AtLeast(info.keepLastSpeedLength, Animation(info))
UpdateTime(info) == AtLeast(info.updateDisplayLength, Animation(info))

\* No duration is longer than the ages that are told apart, not even one read
\* while the settings of the animation change.
ASSUME AgesAssumption == \A info, other \in Configs :
  /\ info.blinkOn <= MaxFrameAge /\ info.blinkOff <= MaxFrameAge
  /\ info.animFrameLength <= MaxFrameAge
  /\ KeepTime(info) + UpdateTime(other) <= MaxAge
  /\ info.animFrames * other.animFrameLength <= MaxAge

-----------------------------------------------------------------------------
(* Units: speeds are in mph, limits and the number shown in the sign's unit *)

ToMph(limit) == (limit * 10000) \div 16093
\* mutant: limits in km/h are compared with speeds in mph
Limit_Unconverted(limit) == limit

Limit(limit) == IF deviceInfo.unitType = 1 THEN ToMph(limit) ELSE limit

ToKph(speed) ==
  LET q == speed * 16093
  IN  q \div 10000 + (IF q % 10000 >= 5000 THEN 1 ELSE 0)
Number(speed) == IF deviceInfo.unitType = 1 THEN ToKph(speed) ELSE speed

\* the unsigned selection as an int; receding vehicles are not displayed
Approaching(speed) == IF 2 * speed >= Wide THEN 0 ELSE speed

-----------------------------------------------------------------------------
(* Radar_DetermineSpeedForDisplay, in both threads *)

\* TicksElapsed: a time of 0 has not elapsed at all
Elapsed(age) == IF age = Never THEN 0 ELSE age

animationLength == NumAnimationFrames * AnimationFrameLengthMs

Begin(t, info) ==
  /\ keep'   = [keep EXCEPT ![t] = AtLeast(info.keepLastSpeedLength, animationLength)]
  /\ update' = [update EXCEPT ![t] = AtLeast(info.updateDisplayLength, animationLength)]
  /\ goto(t, "hold")

\* the locals are gone
Return(t) ==
  /\ keep'   = [keep EXCEPT ![t] = 0]
  /\ update' = [update EXCEPT ![t] = 0]
  /\ goto(t, "idle")

infoOf(t) == IF t = "main" THEN deviceInfo ELSE radarInfo

Hold(t) ==
  /\ at(t, "hold")
  /\ goto(t, IF dispAge < update[t] THEN "return" ELSE "differs")
  /\ UNCHANGED <<radarVars, localVars, animationVars, drawVars, screen, infoVars,
                 bStandby, tickVars>>

Differs(t) ==
  /\ at(t, "differs")
  /\ goto(t, IF /\ \/ LastSpeed - LastDisplayedSpeed >= infoOf(t).updateDisplaySpeedDelta
                   \/ LastDisplayedSpeed - LastSpeed >= infoOf(t).updateDisplaySpeedDelta
                /\ Elapsed(speedAge) < keep[t]
             THEN "adopt" ELSE "gone")
  /\ UNCHANGED <<radarVars, localVars, animationVars, drawVars, screen, infoVars,
                 bStandby, tickVars>>

Adopt(t) ==
  /\ at(t, "adopt")
  /\ LastDisplayedSpeed' = LastSpeed
  /\ goto(t, "setTime")
  /\ UNCHANGED <<LastSpeed, speedAge, dispAge, localVars, animationVars,
                 drawVars, screen, infoVars, bStandby, tickVars>>

SetTime(t) ==
  /\ at(t, "setTime")
  /\ dispAge' = 0
  /\ goto(t, "return")
  /\ UNCHANGED <<LastSpeed, speedAge, LastDisplayedSpeed, localVars, animationVars,
                 drawVars, screen, infoVars, bStandby, tickVars>>

\* mutant: off by one, > instead of >=
Gone_OffByOne(t) ==
  /\ at(t, "gone")
  /\ goto(t, IF Elapsed(speedAge) > keep[t] THEN "zeroDisplayed" ELSE "return")
  /\ UNCHANGED <<radarVars, localVars, animationVars, drawVars, screen, infoVars,
                 bStandby, tickVars>>

Gone(t) ==
  /\ at(t, "gone")
  /\ goto(t, IF Elapsed(speedAge) >= keep[t] THEN "zeroDisplayed" ELSE "return")
  /\ UNCHANGED <<radarVars, localVars, animationVars, drawVars, screen, infoVars,
                 bStandby, tickVars>>

ZeroDisplayed(t) ==
  /\ at(t, "zeroDisplayed")
  /\ LastDisplayedSpeed' = 0
  /\ goto(t, "zeroLast")
  /\ UNCHANGED <<LastSpeed, speedAge, dispAge, localVars, animationVars,
                 drawVars, screen, infoVars, bStandby, tickVars>>

ZeroLast(t) ==
  /\ at(t, "zeroLast")
  /\ LastSpeed' = 0
  /\ goto(t, "setTime")
  /\ UNCHANGED <<speedAge, LastDisplayedSpeed, dispAge, localVars, animationVars,
                 drawVars, screen, infoVars, bStandby, tickVars>>

Determine(t) ==
  \/ Hold(t) \/ Differs(t) \/ Adopt(t) \/ SetTime(t)
  \/ Gone(t) \/ ZeroDisplayed(t) \/ ZeroLast(t)

-----------------------------------------------------------------------------
(* The radar thread: bytes that complete a reading, or none *)

Report(speed) ==
  /\ at("radar", "idle")
  /\ reports < MaxReports
  /\ reports' = reports + 1
  /\ quietAge' = 0
  /\ LastSpeed' = speed
  /\ goto("radar", "reported")
  /\ UNCHANGED <<speedAge, LastDisplayedSpeed, dispAge, localVars, animationVars,
                 drawVars, screen, infoVars, bStandby, passed>>

ReportTime ==
  /\ at("radar", "reported")
  /\ speedAge' = 0
  /\ Begin("radar", radarInfo)
  /\ UNCHANGED <<LastSpeed, LastDisplayedSpeed, dispAge, animationVars, drawVars,
                 screen, infoVars, bStandby, tickVars>>

OtherBytes ==
  /\ at("radar", "idle")
  /\ reports < MaxReports
  /\ reports' = reports + 1
  /\ Begin("radar", radarInfo)
  /\ UNCHANGED <<radarVars, animationVars, drawVars, screen, infoVars, bStandby,
                 passed, quietAge>>

RadarReturn ==
  /\ at("radar", "return")
  /\ Return("radar")
  /\ UNCHANGED <<radarVars, animationVars, drawVars, screen, infoVars, bStandby,
                 tickVars>>

-----------------------------------------------------------------------------
(* A pass of the main loop *)

\* Saved settings are taken over, with the sign cleared.
PassBegin ==
  /\ at("main", "idle")
  /\ fileDirty' = FALSE
  /\ IF fileDirty
       THEN screen' = Dark /\ deviceInfo' = stored /\ quietAge' = 0
       ELSE UNCHANGED <<screen, deviceInfo, quietAge>>
  /\ Begin("main", deviceInfo')
  /\ UNCHANGED <<radarVars, animationVars, drawVars, stored, radarInfo, saves,
                 bStandby, passed, reports>>

speedToDisplay == Approaching(LastDisplayedSpeed)

ModeOf(speed) ==
  IF speed <= Limit(deviceInfo.minDisplaySpeed) THEN "ANIMATION"
  ELSE IF speed <= Limit(deviceInfo.blinkLimit) THEN "SPEED_BLINK"
  ELSE IF speed <= Limit(deviceInfo.maxDisplaySpeed) THEN "SPEED_MAX"
  ELSE "CORNERS"

\* another mode restarts its frame and clears the display
Entered(mode)  == mode # theLastMode
duration(mode) == IF Entered(mode) THEN MaxFrameAge ELSE frameAge
shown(mode)    == IF Entered(mode) THEN Dark ELSE screen

PassEnd ==
  /\ Return("main")
  /\ passed' = TRUE
  /\ UNCHANGED <<radarVars, infoVars, bStandby, reports>>

ShowStandby ==
  /\ at("main", "return")
  /\ PassEnd
  /\ bStandby
  /\ screen' = Dark
  /\ UNCHANGED <<animationVars, drawVars, quietAge>>

\* speedShow(): the state before the frame is chosen. endBlinkState, the
\* initial state, is treated like IMAGE.
newSpeed  == speedToDisplay # CurrentlyDisplayedSpeed
blinkNow  == IF newSpeed THEN "SPEED" ELSE myState
indexNow  == IF newSpeed THEN 0 ELSE AnimationFrameIdx
blinkDue(mode) ==
  /\ deviceInfo.numFrames > 0
  /\ duration(mode) >= IF blinkNow = "SPEED" THEN deviceInfo.blinkOn
                                             ELSE deviceInfo.blinkOff
flips(mode) ==
  blinkDue(mode) /\ (blinkNow = "SPEED" => deviceInfo.speedDisplayMode = 2)

\* mutant: a new speed does not start a frame
starts_OnlyBlink(mode) == blinkDue(mode)
\* mutant: without blinking the frame is not renewed
starts_NoRenewal(mode) == newSpeed \/ flips(mode)

starts(mode) == newSpeed \/ blinkDue(mode)

nextBlink(mode) ==
  IF ~flips(mode) THEN blinkNow ELSE IF blinkNow = "SPEED" THEN "IMAGE" ELSE "SPEED"

\* images are counted from 1 here, and from 0 in animationShow
nextIndex(mode) ==
  LET next == IF flips(mode) THEN indexNow + 1 ELSE indexNow
  IN  IF deviceInfo.numFrames > 0 /\ next > deviceInfo.numFrames THEN 1 ELSE next

ShowSpeed(mode) ==
  LET N     == deviceInfo.numFrames
      reset == mode = "SPEED_BLINK" /\ nextBlink(mode) = "SPEED" /\ N > 0
      idx   == IF reset THEN 0 ELSE nextIndex(mode)
      picture == [number  |-> IF nextBlink(mode) = "SPEED" THEN Number(speedToDisplay)
                                                          ELSE None,
                  frame   |-> CASE N = 0 -> None [] N = 1 -> 0 [] OTHER -> idx,
                  corners |-> FALSE]
  IN  /\ at("main", "return")
      /\ PassEnd
      /\ ~bStandby
      /\ mode \in {"SPEED_BLINK", "SPEED_MAX"}
      /\ mode = ModeOf(speedToDisplay)
      \* now = currentFrameStart, also in later passes until the clock moves on
      /\ \/ /\ starts(mode) \/ (frameAge = 0 /\ ~Entered(mode))
            /\ screen' = picture
            /\ AnimationFrameIdx' = idx
         \/ /\ ~starts(mode)
            /\ screen' = shown(mode)
            /\ AnimationFrameIdx' = nextIndex(mode)
      /\ frameAge' = IF starts(mode) THEN 0 ELSE duration(mode)
      /\ myState' = nextBlink(mode)
      /\ CurrentlyDisplayedSpeed' = speedToDisplay
      /\ theLastMode' = mode
      /\ UNCHANGED <<animationVars, quietAge>>

\* cornerShow(): the corners are lit or not, by the phase of the clock
ShowCorners ==
  LET mode == "CORNERS" IN
  /\ at("main", "return")
  /\ PassEnd
  /\ ~bStandby
  /\ mode = ModeOf(speedToDisplay)
  /\ \E lit \in BOOLEAN : screen' = [shown(mode) EXCEPT !.corners = lit]
  /\ frameAge' = duration(mode)
  /\ theLastMode' = mode
  /\ UNCHANGED <<animationVars, CurrentlyDisplayedSpeed, myState, AnimationFrameIdx,
                 quietAge>>

\* animationShow(): idle pictures; the displayed speed is not reset. The radar
\* thread may read the two globals between the assignments.
AnimationAge == IF animationLength' = animationLength THEN quietAge ELSE 0

BeginAnimation ==
  /\ at("main", "return")
  /\ ~bStandby
  /\ ModeOf(speedToDisplay) = "ANIMATION"
  /\ NumAnimationFrames' = deviceInfo.animFrames
  /\ goto("main", "animate")
  /\ UNCHANGED <<radarVars, localVars, AnimationFrameLengthMs, drawVars, screen,
                 infoVars, bStandby, passed, reports>>
  /\ quietAge' = AnimationAge

\* mutant: wraps before the last picture
nextPicture_TooEarly == LET N == deviceInfo.animFrames
                        IN  IF AnimationFrameIdx + 1 >= N - 1 THEN 0
                            ELSE AnimationFrameIdx + 1

nextPicture == LET N == deviceInfo.animFrames
               IN  IF AnimationFrameIdx + 1 > N - 1 THEN 0 ELSE AnimationFrameIdx + 1

ShowAnimation ==
  LET mode == "ANIMATION"
      N    == deviceInfo.animFrames
      due  == N > 0 /\ duration(mode) >= deviceInfo.animFrameLength
      idx  == IF due THEN nextPicture ELSE AnimationFrameIdx
      base == IF due THEN Dark ELSE shown(mode)
  IN  /\ at("main", "animate")
      /\ PassEnd
      /\ AnimationFrameLengthMs' = deviceInfo.animFrameLength
      /\ UNCHANGED <<NumAnimationFrames, CurrentlyDisplayedSpeed, myState>>
      /\ quietAge' = AnimationAge
      /\ \/ /\ due \/ (frameAge = 0 /\ ~Entered(mode))
            /\ screen' = IF N = 0 THEN base
                         ELSE [base EXCEPT !.frame = IF N = 1 THEN 0 ELSE idx]
         \/ ~due /\ screen' = base
      /\ AnimationFrameIdx' = idx
      /\ frameAge' = IF due THEN 0 ELSE duration(mode)
      /\ theLastMode' = mode

DisplaySpeedToScreen ==
  \/ \E mode \in {"SPEED_BLINK", "SPEED_MAX"} : ShowSpeed(mode)
  \/ ShowCorners
  \/ BeginAnimation \/ ShowAnimation

-----------------------------------------------------------------------------
(* The surroundings: settings saved, the schedule, the clock *)

Save(info) ==
  /\ saves < MaxSaves
  /\ saves' = saves + 1
  /\ stored' = info
  /\ fileDirty' = TRUE
  /\ UNCHANGED <<LastSpeed, speedAge, LastDisplayedSpeed, localVars, pc, animationVars,
                 theLastMode, myState, AnimationFrameIdx, frameAge, screen,
                 deviceInfo, radarInfo, bStandby, tickVars>>

\* A request of a host or of a browser, handled between two passes. Some
\* make the speed count as new, others set up the radar again (Radar_Init).
RequestSaves(info) ==
  /\ at("main", "idle")
  /\ Save(info)
  /\ \/ CurrentlyDisplayedSpeed' \in {CurrentlyDisplayedSpeed, -1} /\ dispAge' = dispAge
     \/ CurrentlyDisplayedSpeed' = CurrentlyDisplayedSpeed /\ dispAge' = 0

\* An update file, taken over by the memory task at any time.
FileSaves(info) ==
  /\ Save(info)
  /\ UNCHANGED <<CurrentlyDisplayedSpeed, dispAge>>

Older(age) == AtMost(age + 1, MaxAge)

\* A second: between two passes, the schedule puts the sign on stand-by or not.
Tick ==
  /\ pc = [t \in Threads |-> "idle"]
  /\ passed
  /\ speedAge' = IF speedAge = Never THEN Never ELSE Older(speedAge)
  /\ dispAge'  = Older(dispAge)
  /\ frameAge' = AtMost(frameAge + 1, MaxFrameAge)
  /\ passed' = FALSE
  /\ reports' = 0
  /\ quietAge' = Older(quietAge)
  /\ bStandby' \in BOOLEAN
  /\ UNCHANGED <<LastSpeed, LastDisplayedSpeed, localVars, pc, animationVars,
                 theLastMode, CurrentlyDisplayedSpeed, myState, AnimationFrameIdx,
                 screen, infoVars>>

-----------------------------------------------------------------------------
Init ==
  /\ LastSpeed = 0 /\ speedAge = Never
  /\ LastDisplayedSpeed = 0 /\ dispAge = 0
  /\ pc = [t \in Threads |-> "idle"]
  /\ keep = [t \in Threads |-> 0] /\ update = [t \in Threads |-> 0]
  /\ NumAnimationFrames = 1 /\ AnimationFrameLengthMs = 0
  /\ theLastMode = "endDisplayMode"
  /\ CurrentlyDisplayedSpeed = -1
  /\ myState = "endBlinkState"
  /\ AnimationFrameIdx = -1
  /\ frameAge = MaxFrameAge
  /\ screen = Dark
  /\ stored \in Factory /\ deviceInfo = stored /\ radarInfo = stored
  /\ fileDirty = TRUE
  /\ saves = 0 /\ bStandby = FALSE
  /\ passed = FALSE /\ reports = 0 /\ quietAge = 0

RadarThread == (\E s \in Speeds : Report(s)) \/ ReportTime \/ OtherBytes \/ RadarReturn
MainThread  == PassBegin \/ ShowStandby \/ DisplaySpeedToScreen

Next ==
  \/ \E t \in Threads : Determine(t)
  \/ RadarThread
  \/ MainThread
  \/ (\E info \in Configs : RequestSaves(info) \/ FileSaves(info))
  \/ Tick

Spec == Init /\ [][Next]_vars

\* Both threads run on and time passes; the radar need not report anything,
\* settings need not be saved and the schedule need not switch.
Fairness ==
  /\ WF_vars(Determine("main") \/ MainThread)
  /\ WF_vars(Determine("radar") \/ ReportTime \/ RadarReturn)
  /\ SF_vars(Tick)
FairSpec == Spec /\ Fairness

-----------------------------------------------------------------------------
(* Properties *)

Modes == {"endDisplayMode", "ANIMATION", "SPEED_BLINK", "SPEED_MAX", "CORNERS"}
SpeedModes == {"SPEED_BLINK", "SPEED_MAX"}

\* The types of the variables.
TypeOK ==
  /\ LastSpeed \in 0 .. Wide - 1 /\ LastDisplayedSpeed \in 0 .. Wide - 1
  /\ speedAge \in -1 .. MaxAge /\ dispAge \in 0 .. MaxAge
  /\ frameAge \in 0 .. MaxFrameAge
  /\ pc \in [Threads -> {"idle", "reported", "hold", "differs", "adopt", "setTime",
                         "gone", "zeroDisplayed", "zeroLast", "return", "animate"}]
  /\ keep \in [Threads -> Nat] /\ update \in [Threads -> Nat]
  /\ NumAnimationFrames \in Nat /\ AnimationFrameLengthMs \in Nat
  /\ theLastMode \in Modes
  /\ CurrentlyDisplayedSpeed \in -1 .. Wide - 1
  /\ myState \in {"endBlinkState", "SPEED", "IMAGE"}
  /\ AnimationFrameIdx \in Int
  /\ screen \in [number : Int, frame : Int, corners : BOOLEAN]
  /\ stored \in Configs /\ deviceInfo \in Configs /\ radarInfo \in Configs
  /\ fileDirty \in BOOLEAN /\ bStandby \in BOOLEAN
  /\ passed \in BOOLEAN /\ reports \in 0 .. MaxReports /\ quietAge \in 0 .. MaxAge
  /\ saves \in 0 .. MaxSaves

\* The number on the sign lies, in the sign's own unit, within the limits of
\* the frameset it is drawn with: the speed is compared in mph with limits that
\* were truncated, and then rounded to km/h (DisplaySpeedToScreen, speedShow).
NumberInLimits ==
  screen.number # None =>
    \/ /\ theLastMode = "SPEED_BLINK"
       /\ screen.number \in deviceInfo.minDisplaySpeed .. deviceInfo.blinkLimit
    \/ /\ theLastMode = "SPEED_MAX"
       /\ screen.number \in deviceInfo.blinkLimit .. deviceInfo.maxDisplaySpeed

\* A number on the sign is the speed chosen last, whatever modes, settings and
\* stand-by periods have cleared and redrawn the sign in between, or saved
\* settings have made that speed count as new and the next pass clears the sign
\* (CurrentlyDisplayedSpeed = -1 in the handlers, main.cpp's fileDirty).
NumberIsChosen ==
  screen.number # None =>
    \/ screen.number = Number(CurrentlyDisplayedSpeed)
    \/ CurrentlyDisplayedSpeed = -1 /\ fileDirty

\* The keep and the update time of the thread that has the longer ones.
LongestKeep ==
  AtLeast(AtLeast(KeepTime(deviceInfo), radarInfo.keepLastSpeedLength), animationLength)
LongestUpdate ==
  AtLeast(AtLeast(UpdateTime(deviceInfo), radarInfo.updateDisplayLength), animationLength)

\* No number stays on the sign for longer than the keep and update times after
\* the last reading, or after the settings or the animation have changed,
\* although two threads select the speed without a lock, each by a copy of the
\* settings of its own (Radar_DetermineSpeedForDisplay). A pass of the main loop
\* takes it off: a time of 0 counts as the tick between two passes.
StaleTakenOff ==
  screen.number # None => quietAge < AtLeast(LongestKeep, 1) + AtLeast(LongestUpdate, 1)

\* A vehicle whose speed the radar keeps reporting, and which is within the
\* displayed range, is shown, and shown again after every other picture, with
\* speed framesets of at least one image, whatever settings were saved before
\* and whichever the radar thread has read
\* ("min speed in mph that will be displayed", include/FileRoutines.h:95).
StaysInRange ==
  /\ speedAge < deviceInfo.keepLastSpeedLength
  /\ ModeOf(Approaching(LastSpeed)) \in SpeedModes
VehicleShownWithImage ==
  (/\ <>[](/\ StaysInRange /\ ~fileDirty /\ ~bStandby
           /\ deviceInfo.updateDisplaySpeedDelta <= 1 /\ deviceInfo.numFrames > 0)
   /\ <>[][LastSpeed' = LastSpeed]_LastSpeed)
  => []<>(screen.number = Number(LastSpeed))

\* While the sign stays idle, every picture of its animation is shown again and
\* again, whatever index the speed framesets, which count from 1, or a longer
\* animation have left behind (animationShow).
Pictures == UNION {0 .. info.animFrames - 1 : info \in Configs}
EveryPictureShown ==
  \A i \in Pictures :
    <>[](/\ theLastMode = "ANIMATION" /\ i < deviceInfo.animFrames
         /\ ~fileDirty /\ ~bStandby)
    => []<>(screen.frame = i)
=============================================================================
