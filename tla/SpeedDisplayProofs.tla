------------------------- MODULE SpeedDisplayProofs -------------------------
(***************************************************************************)
(* The number on the sign is the chosen speed in the sign's unit and lies  *)
(* within its limits, for all settings, speeds and bounds.                 *)
(***************************************************************************)
EXTENDS SpeedDisplay, TLAPS

\* A speed compared in mph with a truncated limit and a number rounded to km/h
\* are on the same side of the limit.
LEMMA KphWithinLimit ==
  ASSUME NEW speed \in Nat, NEW limit \in Nat
  PROVE  /\ ToKph(speed) \in Nat /\ ToMph(limit) \in Nat
         /\ speed <= ToMph(limit) => ToKph(speed) <= limit
         /\ ~(speed <= ToMph(limit)) => limit <= ToKph(speed)
<1> DEFINE q == speed * 16093
           l == limit * 10000
<1>1. /\ q \in Nat /\ l \in Nat
      /\ q \div 10000 \in Nat /\ q % 10000 \in 0 .. 9999
      /\ q = 10000 * (q \div 10000) + (q % 10000)
      /\ l \div 16093 \in Nat /\ l % 16093 \in 0 .. 16092
      /\ l = 16093 * (l \div 16093) + (l % 16093)
  BY SMTT(40)
<1>2. ToKph(speed) = q \div 10000 + (IF q % 10000 >= 5000 THEN 1 ELSE 0)
  BY DEF ToKph
<1>3. ToMph(limit) = l \div 16093
  BY DEF ToMph
<1>4. ToKph(speed) \in Nat /\ ToMph(limit) \in Nat
  BY <1>1, <1>2, <1>3, SMTT(40)
<1>5. ASSUME speed <= ToMph(limit) PROVE ToKph(speed) <= limit
  BY <1>1, <1>2, <1>3, <1>5, SMTT(40)
<1>6. ASSUME ~(speed <= ToMph(limit)) PROVE limit <= ToKph(speed)
  BY <1>1, <1>2, <1>3, <1>6, SMTT(40)
<1> QED BY <1>4, <1>5, <1>6

\* The same for the settings in use, in either unit.
LEMMA NumberWithinLimit ==
  ASSUME deviceInfo \in Settings, NEW speed \in Nat, NEW limit \in Nat
  PROVE  /\ Number(speed) \in Nat
         /\ speed <= Limit(limit) => Number(speed) <= limit
         /\ ~(speed <= Limit(limit)) => limit <= Number(speed)
BY KphWithinLimit DEF Number, Limit, Settings

-----------------------------------------------------------------------------
LEMMA InitTypeOK == Init => TypeOK
<1> SUFFICES ASSUME Init PROVE TypeOK
  OBVIOUS
<1> USE SettingsAssumption DEF Init
<1>1. /\ LastSpeed \in 0 .. Wide - 1 /\ LastDisplayedSpeed \in 0 .. Wide - 1
      /\ speedAge \in -1 .. MaxAge /\ dispAge \in 0 .. MaxAge
      /\ frameAge \in 0 .. MaxFrameAge /\ quietAge \in 0 .. MaxAge
      /\ CurrentlyDisplayedSpeed \in -1 .. Wide - 1 /\ reports \in 0 .. MaxReports
      /\ saves \in 0 .. MaxSaves
      /\ NumAnimationFrames \in Nat /\ AnimationFrameLengthMs \in Nat
      /\ AnimationFrameIdx \in Int
  BY DEF Never
<1>2. /\ pc \in [Threads -> {"idle", "reported", "hold", "differs", "adopt", "setTime",
                             "gone", "zeroDisplayed", "zeroLast", "return", "animate"}]
      /\ keep \in [Threads -> Nat] /\ update \in [Threads -> Nat]
  OBVIOUS
<1>3. screen \in [number : Int, frame : Int, corners : BOOLEAN]
  BY DEF Dark, None
<1> QED BY <1>1, <1>2, <1>3 DEF TypeOK, Modes

LEMMA DetermineTypeOK ==
  ASSUME TypeOK, NEW t \in Threads, Determine(t)
  PROVE  TypeOK'
BY SettingsAssumption
   DEF TypeOK, Determine, Hold, Differs, Adopt, SetTime, Gone, ZeroDisplayed, ZeroLast,
       goto, radarVars, localVars, animationVars, drawVars, infoVars, tickVars, Modes,
       Threads

LEMMA LengthNat == TypeOK => animationLength \in Nat
BY DEF TypeOK, animationLength

\* A thread begins to select a speed, or is done.
LEMMA BeginTypes ==
  ASSUME TypeOK, NEW t \in Threads, NEW info \in Configs,
         Begin(t, info) \/ Return(t)
  PROVE  /\ keep' \in [Threads -> Nat] /\ update' \in [Threads -> Nat]
         /\ pc' \in {[pc EXCEPT ![t] = "hold"], [pc EXCEPT ![t] = "idle"]}
<1>1. info.keepLastSpeedLength \in Nat /\ info.updateDisplayLength \in Nat
  BY SettingsAssumption DEF Settings
<1>2. AtLeast(info.keepLastSpeedLength, animationLength) \in Nat
      /\ AtLeast(info.updateDisplayLength, animationLength) \in Nat
  BY <1>1, LengthNat DEF AtLeast
<1> QED BY <1>2 DEF Begin, Return, goto, TypeOK

LEMMA RadarTypeOK == TypeOK /\ RadarThread => TypeOK'
<1> SUFFICES ASSUME TypeOK, RadarThread PROVE TypeOK'
  OBVIOUS
<1> USE SettingsAssumption DEF TypeOK, radarVars, localVars, animationVars, drawVars,
                               infoVars, tickVars, Modes, Threads, goto
<1>1. ASSUME NEW s \in Speeds, Report(s) PROVE TypeOK'
  BY <1>1 DEF Report
<1>2. CASE ReportTime
  <2>1. /\ keep' \in [Threads -> Nat] /\ update' \in [Threads -> Nat]
        /\ pc' \in {[pc EXCEPT !["radar"] = "hold"], [pc EXCEPT !["radar"] = "idle"]}
    BY <1>2, BeginTypes DEF ReportTime
  <2> QED BY <1>2, <2>1 DEF ReportTime
<1>3. CASE OtherBytes
  <2>1. /\ keep' \in [Threads -> Nat] /\ update' \in [Threads -> Nat]
        /\ pc' \in {[pc EXCEPT !["radar"] = "hold"], [pc EXCEPT !["radar"] = "idle"]}
    BY <1>3, BeginTypes DEF OtherBytes
  <2> QED BY <1>3, <2>1 DEF OtherBytes
<1>4. CASE RadarReturn
  <2>1. /\ keep' \in [Threads -> Nat] /\ update' \in [Threads -> Nat]
        /\ pc' \in {[pc EXCEPT !["radar"] = "hold"], [pc EXCEPT !["radar"] = "idle"]}
    BY <1>4, BeginTypes DEF RadarReturn
  <2> QED BY <1>4, <2>1 DEF RadarReturn
<1> QED BY <1>1, <1>2, <1>3, <1>4 DEF RadarThread

\* What the main loop computes has the right types.
LEMMA ComputedTypes ==
  ASSUME TypeOK
  PROVE  /\ deviceInfo \in Settings
         /\ speedToDisplay \in 0 .. Wide - 1
         /\ Number(speedToDisplay) \in Nat
         /\ \A mode : duration(mode) \in 0 .. MaxFrameAge
         /\ \A mode : nextIndex(mode) \in Int
         /\ \A mode : nextBlink(mode) \in {"endBlinkState", "SPEED", "IMAGE"}
         /\ \A mode : shown(mode) \in [number : Int, frame : Int, corners : BOOLEAN]
<1> USE SettingsAssumption DEF TypeOK
<1>1. deviceInfo \in Settings
  OBVIOUS
<1>2. speedToDisplay \in 0 .. Wide - 1
  BY DEF speedToDisplay, Approaching
<1>3. Number(speedToDisplay) \in Nat
  BY <1>1, <1>2, NumberWithinLimit
<1>4. \A mode : duration(mode) \in 0 .. MaxFrameAge
  BY DEF duration
<1>5. \A mode : nextIndex(mode) \in Int
  <2>1. indexNow \in Int
    BY DEF indexNow
  <2> QED BY <2>1 DEF nextIndex
<1>6. \A mode : nextBlink(mode) \in {"endBlinkState", "SPEED", "IMAGE"}
  BY DEF nextBlink, blinkNow
<1>7. \A mode : shown(mode) \in [number : Int, frame : Int, corners : BOOLEAN]
  BY DEF shown, Dark, None
<1> QED BY <1>1, <1>2, <1>3, <1>4, <1>5, <1>6, <1>7

\* What every end of a pass leaves of the type invariant.
LEMMA PassEndTypes ==
  ASSUME TypeOK, PassEnd,
         frameAge' \in 0 .. MaxFrameAge, quietAge' \in 0 .. MaxAge, theLastMode' \in Modes,
         CurrentlyDisplayedSpeed' \in -1 .. Wide - 1,
         myState' \in {"endBlinkState", "SPEED", "IMAGE"},
         AnimationFrameIdx' \in Int,
         NumAnimationFrames' \in Nat, AnimationFrameLengthMs' \in Nat,
         screen' \in [number : Int, frame : Int, corners : BOOLEAN]
  PROVE  TypeOK'
<1>1. /\ keep' \in [Threads -> Nat] /\ update' \in [Threads -> Nat]
      /\ pc' \in {[pc EXCEPT !["main"] = "hold"], [pc EXCEPT !["main"] = "idle"]}
  <2>1. deviceInfo \in Configs /\ "main" \in Threads /\ Return("main")
    BY DEF PassEnd, TypeOK, Threads
  <2> QED BY <2>1, BeginTypes
<1> QED BY <1>1 DEF TypeOK, PassEnd, radarVars, infoVars, Threads

LEMMA AnimationAgeType ==
  ASSUME TypeOK PROVE AnimationAge \in 0 .. MaxAge
BY SettingsAssumption DEF TypeOK, AnimationAge

LEMMA MainTypeOK == TypeOK /\ MainThread => TypeOK'
<1> SUFFICES ASSUME TypeOK, MainThread PROVE TypeOK'
  OBVIOUS
<1>1. CASE PassBegin
  <2>1. deviceInfo' \in Configs /\ quietAge' \in 0 .. MaxAge
    BY <1>1, SettingsAssumption DEF PassBegin, TypeOK
  <2>2. /\ keep' \in [Threads -> Nat] /\ update' \in [Threads -> Nat]
        /\ pc' \in {[pc EXCEPT !["main"] = "hold"], [pc EXCEPT !["main"] = "idle"]}
    <3>1. Begin("main", deviceInfo') /\ "main" \in Threads
      BY <1>1 DEF PassBegin, Threads
    <3> QED BY <2>1, <3>1, BeginTypes
  <2>3. screen' \in [number : Int, frame : Int, corners : BOOLEAN]
    <3>1. screen' = Dark \/ screen' = screen
      BY <1>1 DEF PassBegin
    <3>2. Dark \in [number : Int, frame : Int, corners : BOOLEAN]
      BY DEF Dark, None
    <3>3. screen \in [number : Int, frame : Int, corners : BOOLEAN]
      BY DEF TypeOK
    <3> QED BY <3>1, <3>2, <3>3
  <2>4. /\ fileDirty' = FALSE
        /\ UNCHANGED <<radarVars, animationVars, drawVars, stored, radarInfo, saves,
                       bStandby, passed, reports>>
    BY <1>1 DEF PassBegin
  <2>5. pc' \in [Threads -> {"idle", "reported", "hold", "differs", "adopt", "setTime",
                            "gone", "zeroDisplayed", "zeroLast", "return", "animate"}]
    BY <2>2 DEF TypeOK, Threads
  <2> QED BY <2>1, <2>2, <2>3, <2>4, <2>5
          DEF TypeOK, radarVars, animationVars, drawVars
<1>2. CASE ShowStandby
  BY <1>2, PassEndTypes DEF ShowStandby, TypeOK, animationVars, drawVars, Dark, None
<1>3. ASSUME NEW mode \in {"SPEED_BLINK", "SPEED_MAX"}, ShowSpeed(mode) PROVE TypeOK'
  <2>1. /\ PassEnd
        /\ frameAge' \in 0 .. MaxFrameAge /\ theLastMode' = mode
        /\ CurrentlyDisplayedSpeed' = speedToDisplay
        /\ myState' = nextBlink(mode) /\ UNCHANGED <<animationVars, quietAge>>
        /\ AnimationFrameIdx' \in Int
    BY <1>3, ComputedTypes, SettingsAssumption DEF ShowSpeed
  <2>2. screen' \in [number : Int, frame : Int, corners : BOOLEAN]
    <3> DEFINE number == IF nextBlink(mode) = "SPEED" THEN Number(speedToDisplay) ELSE None
               idx == IF /\ mode = "SPEED_BLINK" /\ nextBlink(mode) = "SPEED"
                         /\ deviceInfo.numFrames > 0
                      THEN 0 ELSE nextIndex(mode)
               frame == CASE deviceInfo.numFrames = 0 -> None
                          [] deviceInfo.numFrames = 1 -> 0
                          [] OTHER -> idx
    <3>1. number \in Int /\ idx \in Int
      BY ComputedTypes DEF None
    <3>2. frame \in Int
      <4>1. CASE deviceInfo.numFrames = 0
        BY <4>1 DEF None
      <4>2. CASE deviceInfo.numFrames = 1
        BY <4>2
      <4>3. CASE deviceInfo.numFrames # 0 /\ deviceInfo.numFrames # 1
        <5>1. frame = idx
          BY <4>3
        <5> QED BY <3>1, <5>1
      <4> QED BY <4>1, <4>2, <4>3
    <3>3. \/ screen' = [number |-> number, frame |-> frame, corners |-> FALSE]
          \/ screen' = shown(mode)
      BY <1>3 DEF ShowSpeed
    <3> HIDE DEF number, idx, frame
    <3>4. [number |-> number, frame |-> frame, corners |-> FALSE]
            \in [number : Int, frame : Int, corners : BOOLEAN]
      BY <3>1, <3>2
    <3>5. shown(mode) \in [number : Int, frame : Int, corners : BOOLEAN]
      BY ComputedTypes
    <3> QED BY <3>3, <3>4, <3>5
  <2> QED BY <2>1, <2>2, ComputedTypes, PassEndTypes DEF Modes, TypeOK, animationVars
<1>4. CASE ShowCorners
  <2>1. screen' \in [number : Int, frame : Int, corners : BOOLEAN]
    BY <1>4, ComputedTypes DEF ShowCorners
  <2> QED BY <1>4, <2>1, ComputedTypes, PassEndTypes
          DEF ShowCorners, Modes, TypeOK, animationVars
<1>5. CASE BeginAnimation
  <2>1. NumAnimationFrames' \in Nat
    BY <1>5, ComputedTypes DEF BeginAnimation, Settings
  <2>2. pc' = [pc EXCEPT !["main"] = "animate"] /\ quietAge' \in 0 .. MaxAge
    BY <1>5, AnimationAgeType DEF BeginAnimation, goto
  <2> QED BY <1>5, <2>1, <2>2
          DEF BeginAnimation, TypeOK, radarVars, localVars, drawVars, infoVars, Threads
<1>6. CASE ShowAnimation
  <2>1. /\ PassEnd
        /\ theLastMode' = "ANIMATION"
        /\ UNCHANGED <<NumAnimationFrames, CurrentlyDisplayedSpeed, myState>>
        /\ quietAge' \in 0 .. MaxAge
    BY <1>6, AnimationAgeType DEF ShowAnimation
  <2>2. frameAge' \in 0 .. MaxFrameAge
    BY <1>6, ComputedTypes, SettingsAssumption DEF ShowAnimation
  <2>3. AnimationFrameIdx' \in Int
    BY <1>6, ComputedTypes DEF ShowAnimation, nextPicture, TypeOK, Settings
  <2>4. AnimationFrameLengthMs' \in Nat
    BY <1>6, ComputedTypes DEF ShowAnimation, Settings
  <2>5. screen' \in [number : Int, frame : Int, corners : BOOLEAN]
    <3> DEFINE due == /\ deviceInfo.animFrames > 0
                      /\ duration("ANIMATION") >= deviceInfo.animFrameLength
               base == IF due THEN Dark ELSE shown("ANIMATION")
    <3>1. base \in [number : Int, frame : Int, corners : BOOLEAN]
      BY ComputedTypes DEF Dark, None
    <3>2. \/ screen' = base
          \/ screen' = [base EXCEPT !.frame = 0]
          \/ screen' = [base EXCEPT !.frame = AnimationFrameIdx']
      BY <1>6 DEF ShowAnimation
    <3> HIDE DEF base
    <3> QED BY <2>3, <3>1, <3>2
  <2> QED BY <2>1, <2>2, <2>3, <2>4, <2>5, PassEndTypes DEF Modes, TypeOK
<1> QED BY <1>1, <1>2, <1>3, <1>4, <1>5, <1>6 DEF MainThread, DisplaySpeedToScreen

\* All variables keep their types.
THEOREM TypeCorrect == Spec => []TypeOK
<1>1. Init => TypeOK
  BY InitTypeOK
<1>2. TypeOK /\ [Next]_vars => TypeOK'
  <2> SUFFICES ASSUME TypeOK, [Next]_vars PROVE TypeOK'
    OBVIOUS
  <2>1. ASSUME NEW t \in Threads, Determine(t) PROVE TypeOK'
    BY <2>1, DetermineTypeOK
  <2>2. CASE RadarThread
    BY <2>2, RadarTypeOK
  <2>3. CASE MainThread
    BY <2>3, MainTypeOK
  <2>4. ASSUME NEW info \in Configs, RequestSaves(info) \/ FileSaves(info) PROVE TypeOK'
    <3>1. /\ saves' \in 0 .. MaxSaves /\ dispAge' \in 0 .. MaxAge
          /\ CurrentlyDisplayedSpeed' \in -1 .. Wide - 1
          /\ stored' = info /\ fileDirty' = TRUE
      BY <2>4, SettingsAssumption DEF RequestSaves, FileSaves, Save, TypeOK
    <3>2. UNCHANGED <<LastSpeed, speedAge, LastDisplayedSpeed, localVars, pc,
                      animationVars, theLastMode, myState, AnimationFrameIdx, frameAge,
                      screen, deviceInfo, radarInfo, bStandby, tickVars>>
      BY <2>4 DEF RequestSaves, FileSaves, Save
    <3> QED BY <3>1, <3>2 DEF TypeOK, localVars, animationVars, tickVars
  <2>5. CASE Tick
    <3>1. /\ speedAge' \in -1 .. MaxAge /\ dispAge' \in 0 .. MaxAge
          /\ frameAge' \in 0 .. MaxFrameAge /\ quietAge' \in 0 .. MaxAge
          /\ reports' \in 0 .. MaxReports
      BY <2>5, SettingsAssumption DEF Tick, TypeOK, Older, AtMost, Never
    <3>2. /\ passed' = FALSE /\ bStandby' \in BOOLEAN
          /\ UNCHANGED <<LastSpeed, LastDisplayedSpeed, pc, localVars, animationVars,
                         theLastMode, CurrentlyDisplayedSpeed, myState,
                         AnimationFrameIdx, screen, infoVars>>
      BY <2>5 DEF Tick
    <3> QED BY <3>1, <3>2 DEF TypeOK, localVars, animationVars, infoVars
  <2>6. CASE UNCHANGED vars
    BY <2>6 DEF vars, TypeOK, radarVars, localVars, animationVars, drawVars, infoVars,
                tickVars
  <2> QED BY <2>1, <2>2, <2>3, <2>4, <2>5, <2>6 DEF Next
<1> QED BY <1>1, <1>2, PTL DEF Spec

-----------------------------------------------------------------------------
\* The invariant behind the two properties of the number: neither holds by
\* itself, since showing no new frame keeps the number of an earlier pass.
NumberInv == NumberInLimits /\ NumberIsChosen

LEMMA NumberInit == Init => NumberInv
BY DEF Init, NumberInv, NumberInLimits, NumberIsChosen, Dark, None

\* A step that leaves the sign alone, or clears it, keeps the invariant.
LEMMA NumberKept ==
  ASSUME NumberInv,
         \/ screen'.number = None
         \/ /\ deviceInfo' = deviceInfo
            /\ screen'.number = screen.number
            /\ theLastMode' = theLastMode
            /\ \/ /\ CurrentlyDisplayedSpeed' = CurrentlyDisplayedSpeed
                  /\ fileDirty => fileDirty'
               \/ CurrentlyDisplayedSpeed' = -1 /\ fileDirty'
  PROVE  NumberInv'
BY DEF NumberInv, NumberInLimits, NumberIsChosen, Number, ToKph

LEMMA ShowSpeedNumber ==
  ASSUME TypeOK, NumberInv, NEW mode \in SpeedModes, ShowSpeed(mode)
  PROVE  NumberInv'
<1> DEFINE speed == speedToDisplay
<1>1. /\ deviceInfo' = deviceInfo
      /\ theLastMode' = mode
      /\ CurrentlyDisplayedSpeed' = speed
      /\ fileDirty' = fileDirty
  BY DEF ShowSpeed, PassEnd, infoVars
<1>2. /\ speed \in Nat /\ deviceInfo \in Settings
      /\ deviceInfo.minDisplaySpeed \in Nat /\ deviceInfo.blinkLimit \in Nat
      /\ deviceInfo.maxDisplaySpeed \in Nat
  BY ComputedTypes, SettingsAssumption DEF TypeOK, Settings
<1>3. \/ screen'.number = None
      \/ screen'.number = Number(speed)
      \/ screen' = shown(mode) /\ ~starts(mode)
  BY DEF ShowSpeed
<1>4. CASE screen'.number = None
  BY <1>1, <1>4, NumberKept
<1>5. CASE screen'.number = Number(speed)
  <2>1. Number(speed) \in Nat
    BY <1>2, NumberWithinLimit
  <2>2. CASE mode = "SPEED_BLINK"
    <3>1. /\ ~(speed <= Limit(deviceInfo.minDisplaySpeed))
          /\ speed <= Limit(deviceInfo.blinkLimit)
      BY <2>2 DEF ShowSpeed, ModeOf
    <3>2. Number(speed) \in deviceInfo.minDisplaySpeed .. deviceInfo.blinkLimit
      BY <1>2, <2>1, <3>1, NumberWithinLimit
    <3> QED BY <1>1, <1>5, <2>2, <3>2
            DEF NumberInv, NumberInLimits, NumberIsChosen, Number, ToKph
  <2>3. CASE mode = "SPEED_MAX"
    <3>1. /\ ~(speed <= Limit(deviceInfo.blinkLimit))
          /\ speed <= Limit(deviceInfo.maxDisplaySpeed)
      BY <2>3 DEF ShowSpeed, ModeOf
    <3>2. Number(speed) \in deviceInfo.blinkLimit .. deviceInfo.maxDisplaySpeed
      BY <1>2, <2>1, <3>1, NumberWithinLimit
    <3> QED BY <1>1, <1>5, <2>3, <3>2
            DEF NumberInv, NumberInLimits, NumberIsChosen, Number, ToKph
  <2> QED BY <2>2, <2>3 DEF SpeedModes
<1>6. CASE screen' = shown(mode) /\ ~starts(mode)
  <2>1. CurrentlyDisplayedSpeed' = CurrentlyDisplayedSpeed
    BY <1>1, <1>6 DEF starts, newSpeed
  <2>2. CASE Entered(mode)
    BY <1>1, <1>6, <2>2, NumberKept DEF shown, Dark
  <2>3. CASE ~Entered(mode)
    BY <1>1, <1>6, <2>1, <2>3, NumberKept DEF shown, Entered
  <2> QED BY <2>2, <2>3
<1> QED BY <1>3, <1>4, <1>5, <1>6

\* Without a speed frameset there is no number, neither of this pass nor left
\* over from another mode.
LEMMA OtherModeNumber ==
  ASSUME TypeOK, NumberInv, NEW mode \in {"ANIMATION", "CORNERS"}
  PROVE  shown(mode).number = None
BY DEF NumberInv, NumberInLimits, shown, Entered, Dark

LEMMA MainNumber ==
  ASSUME TypeOK, NumberInv, MainThread
  PROVE  NumberInv'
<1>1. CASE PassBegin
  <2>1. CASE fileDirty
    BY <1>1, <2>1, NumberKept DEF PassBegin, Dark
  <2>2. CASE ~fileDirty
    BY <1>1, <2>2, NumberKept DEF PassBegin, drawVars
  <2> QED BY <2>1, <2>2
<1>2. CASE ShowStandby
  BY <1>2, NumberKept DEF ShowStandby, Dark
<1>3. ASSUME NEW mode \in SpeedModes, ShowSpeed(mode) PROVE NumberInv'
  BY <1>3, ShowSpeedNumber
<1>4. CASE ShowCorners
  <2>1. shown("CORNERS") \in [number : Int, frame : Int, corners : BOOLEAN]
    BY ComputedTypes
  <2>2. screen'.number = None
    BY <1>4, <2>1, OtherModeNumber DEF ShowCorners
  <2> QED BY <1>4, <2>2, NumberKept DEF ShowCorners
<1>5. CASE BeginAnimation
  BY <1>5, NumberKept DEF BeginAnimation, drawVars, infoVars
<1>6. CASE ShowAnimation
  <2> DEFINE due == /\ deviceInfo.animFrames > 0
                    /\ duration("ANIMATION") >= deviceInfo.animFrameLength
             base == IF due THEN Dark ELSE shown("ANIMATION")
  <2>1. /\ base \in [number : Int, frame : Int, corners : BOOLEAN]
        /\ base.number = None
    BY ComputedTypes, OtherModeNumber DEF Dark, None
  <2>2. \/ screen' = base
        \/ screen' = [base EXCEPT !.frame = 0]
        \/ screen' = [base EXCEPT !.frame = AnimationFrameIdx']
    BY <1>6 DEF ShowAnimation
  <2>3. screen'.number = None
    <3> HIDE DEF base
    <3> QED BY <2>1, <2>2
  <2> QED BY <2>3, NumberKept
<1> QED BY <1>1, <1>2, <1>3, <1>4, <1>5, <1>6
        DEF MainThread, DisplaySpeedToScreen, SpeedModes

LEMMA NumberStep == TypeOK /\ NumberInv /\ [Next]_vars => NumberInv'
<1> SUFFICES ASSUME TypeOK, NumberInv, [Next]_vars PROVE NumberInv'
  OBVIOUS
<1>1. CASE MainThread
  BY <1>1, MainNumber
<1>2. ASSUME UNCHANGED <<drawVars, screen, infoVars>> PROVE NumberInv'
  BY <1>2, NumberKept DEF drawVars, infoVars
<1>3. ASSUME NEW t \in Threads, Determine(t) PROVE NumberInv'
  BY <1>2, <1>3
     DEF Determine, Hold, Differs, Adopt, SetTime, Gone, ZeroDisplayed, ZeroLast
<1>4. CASE RadarThread
  BY <1>2, <1>4 DEF RadarThread, Report, ReportTime, OtherBytes, RadarReturn
<1>5. ASSUME NEW info \in Configs, RequestSaves(info) \/ FileSaves(info) PROVE NumberInv'
  BY <1>5, NumberKept DEF RequestSaves, FileSaves, Save
<1>6. CASE Tick
  BY <1>6, NumberKept DEF Tick, infoVars
<1>7. CASE UNCHANGED vars
  BY <1>2, <1>7 DEF vars
<1> QED BY <1>1, <1>3, <1>4, <1>5, <1>6, <1>7 DEF Next

\* The number on the sign lies within the limits of the frameset it is drawn
\* with, for all settings and speeds, in mph and in km/h.
THEOREM NumberLimited == Spec => []NumberInLimits
<1>1. NumberInv => NumberInLimits
  BY DEF NumberInv
<1> QED BY <1>1, TypeCorrect, NumberInit, NumberStep, PTL DEF Spec

\* The number on the sign is the speed chosen last, in the sign's unit, whatever
\* settings are saved and taken over; or they have been saved and the next pass
\* clears it.
THEOREM NumberChosen == Spec => []NumberIsChosen
<1>1. NumberInv => NumberIsChosen
  BY DEF NumberInv
<1> QED BY <1>1, TypeCorrect, NumberInit, NumberStep, PTL DEF Spec

-----------------------------------------------------------------------------
K1 == AtLeast(LongestKeep, 1)
U1 == AtLeast(LongestUpdate, 1)

Working(t) ==
  pc[t] \in {"hold", "differs", "adopt", "setTime", "gone", "zeroDisplayed",
             "zeroLast", "return"}

\* The times that a thread works with are at most those of the two copies of the
\* settings and of the animation, unless these have just changed.
LengthsInv ==
  /\ \A t \in Threads : Working(t) => keep[t] <= LongestKeep \/ quietAge = 0
  /\ Working("main") => update["main"] <= LongestUpdate

\* The sign has been quiet for no longer than the last reading is old. Before the
\* first one no speed is selected, except between the two statements that store it.
AgeInv ==
  /\ speedAge # Never => quietAge <= speedAge
  /\ at("radar", "reported") => quietAge = 0
  /\ speedAge = Never /\ ~at("radar", "reported")
       => LastSpeed = 0 /\ LastDisplayedSpeed = 0

\* The reading a thread is about to adopt is still kept, and so is a selected
\* speed that a thread is about to date as of now, although the other thread
\* may have selected it in between. The selected speed is older than the last
\* reading by less than the keep time, unless a request has set up the radar and
\* the next pass takes its settings over; and it is no older than the update
\* time when the main loop comes to draw it.
SelectedInv ==
  /\ \A t \in Threads : at(t, "adopt") => LastSpeed = 0 \/ quietAge < K1
  /\ LastDisplayedSpeed # 0 =>
       /\ quietAge < K1 + dispAge \/ (at("main", "idle") /\ fileDirty)
       /\ \A t \in Threads : pc[t] \in {"setTime", "zeroLast"} => quietAge < K1
       /\ at("main", "return") => quietAge + 1 < K1 + U1

\* After a pass there is a tick to spare.
ShownInv ==
  screen.number # None => quietAge + (IF passed THEN 1 ELSE 0) < K1 + U1

StaleInv == LengthsInv /\ AgeInv /\ SelectedInv /\ ShownInv

LEMMA ProductNat ==
  ASSUME NEW m \in Nat, NEW n \in Nat
  PROVE  m * n \in Nat
OBVIOUS

LEMMA NoTimeBelow ==
  ASSUME NEW k \in Nat, k >= 1, NEW u \in Nat, u >= 1, NEW d \in Nat
  PROVE  0 < k /\ 0 < k + d /\ 0 + 1 < k + u
OBVIOUS

\* The longest of some times, for whatever settings.
LEMMA LongestNat ==
  ASSUME NEW info \in Settings, NEW other \in Settings, NEW length \in Nat
  PROVE  /\ AtLeast(AtLeast(KeepTime(info), other.keepLastSpeedLength), length) \in Nat
         /\ AtLeast(AtLeast(UpdateTime(info), other.updateDisplayLength), length) \in Nat
         /\ \A i \in {info, other} :
              /\ AtLeast(i.keepLastSpeedLength, length) \in Nat
              /\ AtLeast(i.updateDisplayLength, length) \in Nat
              /\ AtLeast(i.keepLastSpeedLength, length)
                   <= AtLeast(AtLeast(KeepTime(info), other.keepLastSpeedLength), length)
              /\ AtLeast(i.updateDisplayLength, length)
                   <= AtLeast(AtLeast(UpdateTime(info), other.updateDisplayLength), length)
<1>1. /\ info.animFrames \in Nat /\ info.animFrameLength \in Nat
      /\ info.keepLastSpeedLength \in Nat /\ info.updateDisplayLength \in Nat
      /\ other.keepLastSpeedLength \in Nat /\ other.updateDisplayLength \in Nat
  BY DEF Settings
<1>2. Animation(info) \in Nat
  BY <1>1 DEF Animation
<1> QED BY <1>1, <1>2 DEF KeepTime, UpdateTime, AtLeast

\* Times of at least a tick.
LEMMA TickNat ==
  ASSUME NEW k \in Nat
  PROVE  AtLeast(k, 1) \in Nat /\ AtLeast(k, 1) >= 1 /\ AtLeast(k, 1) >= k
BY DEF AtLeast

LEMMA Times ==
  ASSUME TypeOK
  PROVE  /\ LongestKeep \in Nat /\ LongestUpdate \in Nat
         /\ K1 \in Nat /\ K1 >= 1 /\ K1 >= LongestKeep
         /\ U1 \in Nat /\ U1 >= 1 /\ U1 >= LongestUpdate
         /\ animationLength \in Nat
         /\ \A info \in {deviceInfo, radarInfo} :
              /\ AtLeast(info.keepLastSpeedLength, animationLength) \in Nat
              /\ AtLeast(info.keepLastSpeedLength, animationLength) <= LongestKeep
              /\ AtLeast(info.updateDisplayLength, animationLength) \in Nat
              /\ AtLeast(info.updateDisplayLength, animationLength) <= LongestUpdate
<1>1. deviceInfo \in Settings /\ radarInfo \in Settings /\ animationLength \in Nat
  BY SettingsAssumption, LengthNat DEF TypeOK
<1> QED BY <1>1, LongestNat, TickNat DEF LongestKeep, LongestUpdate, K1, U1

\* The longest times follow from the settings and the animation's length.
LEMMA TimesKept ==
  ASSUME UNCHANGED <<deviceInfo, radarInfo>>, animationLength' = animationLength
  PROVE  UNCHANGED <<LongestKeep, LongestUpdate, K1, U1>>
BY DEF K1, U1, LongestKeep, LongestUpdate, KeepTime, UpdateTime, Animation, AtLeast

LEMMA StaleInit == Init => StaleInv
<1> SUFFICES ASSUME Init PROVE StaleInv
  OBVIOUS
<1>1. LengthsInv /\ AgeInv
  BY DEF Init, LengthsInv, AgeInv, Working, at, Threads, Never
<1>2. SelectedInv
  BY DEF Init, SelectedInv, at
<1>3. ShownInv
  BY DEF Init, ShownInv, Dark, None
<1> QED BY <1>1, <1>2, <1>3 DEF StaleInv

\* Settings are saved; those of a request may set up the radar, which makes the
\* selected speed look new until the main loop takes the settings over.
LEMMA SavesStale ==
  ASSUME TypeOK, StaleInv, NEW info \in Configs, RequestSaves(info) \/ FileSaves(info)
  PROVE  StaleInv'
<1>1. /\ UNCHANGED <<LastSpeed, speedAge, LastDisplayedSpeed, keep, update, pc,
                     NumAnimationFrames, AnimationFrameLengthMs, screen, deviceInfo,
                     radarInfo, quietAge, passed>>
      /\ fileDirty' = TRUE
      /\ dispAge' = dispAge \/ at("main", "idle")
  BY DEF RequestSaves, FileSaves, Save, localVars, animationVars, tickVars
<1>2. UNCHANGED <<LongestKeep, LongestUpdate, K1, U1>>
  BY <1>1, TimesKept DEF animationLength
<1>3. LengthsInv' /\ AgeInv' /\ ShownInv'
  BY <1>1, <1>2 DEF StaleInv, LengthsInv, AgeInv, ShownInv, Working, at
<1>4. SelectedInv'
  BY <1>1, <1>2 DEF StaleInv, SelectedInv, at
<1> QED BY <1>3, <1>4 DEF StaleInv

\* One step of the selection, by either thread.
LEMMA DetermineStale ==
  ASSUME TypeOK, StaleInv, NEW t \in Threads, Determine(t)
  PROVE  StaleInv'
<1>1. /\ UNCHANGED <<speedAge, keep, update, NumAnimationFrames, AnimationFrameLengthMs,
                     screen, deviceInfo, radarInfo, fileDirty, quietAge, passed>>
      /\ speedAge \in Int /\ speedAge >= -1 /\ dispAge \in Nat /\ quietAge \in Nat
  BY SettingsAssumption
     DEF TypeOK, Determine, Hold, Differs, Adopt, SetTime, Gone, ZeroDisplayed, ZeroLast,
         radarVars, localVars, animationVars, drawVars, infoVars, tickVars
<1>2. /\ UNCHANGED <<LongestKeep, LongestUpdate, K1, U1>>
      /\ K1 \in Nat /\ K1 >= 1 /\ K1 >= LongestKeep /\ LongestKeep \in Nat
      /\ U1 \in Nat /\ U1 >= 1 /\ U1 >= LongestUpdate /\ LongestUpdate \in Nat
  BY <1>1, Times, TimesKept DEF animationLength
<1>3. /\ DOMAIN pc = Threads /\ keep[t] \in Nat /\ update[t] \in Nat /\ Working(t)
      /\ \E l \in {"return", "differs", "adopt", "gone", "setTime", "zeroDisplayed",
                   "zeroLast"} : pc' = [pc EXCEPT ![t] = l]
  BY DEF TypeOK, Working, Determine, Hold, Differs, Adopt, SetTime, Gone, ZeroDisplayed,
         ZeroLast, at, goto
<1>4. LengthsInv'
  BY <1>1, <1>2, <1>3 DEF StaleInv, LengthsInv, Working
<1>5. AgeInv'
  <2>1. LastSpeed' \in {LastSpeed, 0} /\ LastDisplayedSpeed' \in {LastDisplayedSpeed, LastSpeed, 0}
    BY DEF Determine, Hold, Differs, Adopt, SetTime, Gone, ZeroDisplayed, ZeroLast,
           radarVars
  <2>2. at("radar", "reported")' <=> at("radar", "reported")
    BY <1>3 DEF at, Working, Threads
  <2> QED BY <1>1, <2>1, <2>2 DEF StaleInv, AgeInv
<1>6. ShownInv'
  BY <1>1, <1>2 DEF StaleInv, ShownInv
\* A thread that finds the reading young enough: so is the quiet, or there is no reading.
<1>7. Elapsed(speedAge) < keep[t] => (LastSpeed = 0 /\ LastDisplayedSpeed = 0) \/ quietAge < K1
  <2>1. keep[t] <= LongestKeep \/ quietAge = 0
    BY <1>3 DEF StaleInv, LengthsInv
  <2>2. CASE speedAge = Never
    BY <1>1, <1>2, <2>2 DEF StaleInv, AgeInv
  <2>3. CASE speedAge # Never
    <3>1. quietAge <= speedAge /\ Elapsed(speedAge) = speedAge
      BY <2>3 DEF StaleInv, AgeInv, Elapsed
    <3> QED BY <1>1, <1>2, <1>3, <2>1, <3>1
  <2> QED BY <2>2, <2>3
<1>8. SelectedInv'
  <2> USE DEF SelectedInv, at, goto, radarVars
  <2>1. SelectedInv /\ (Working("main") => update["main"] <= LongestUpdate)
    BY DEF StaleInv, LengthsInv
  <2>2. CASE Hold(t)
    <3>1. UNCHANGED <<LastSpeed, LastDisplayedSpeed, dispAge>>
      BY <2>2 DEF Hold
    <3>2. CASE pc' = [pc EXCEPT ![t] = "differs"]
      BY <1>1, <1>2, <1>3, <2>1, <2>2, <3>1, <3>2 DEF Hold
    <3>3. CASE dispAge < update[t] /\ pc' = [pc EXCEPT ![t] = "return"]
      <4>1. t = "main" /\ LastDisplayedSpeed # 0 => quietAge + 1 < K1 + U1
        BY <1>1, <1>2, <1>3, <2>1, <2>2, <3>3 DEF Hold
      <4> QED BY <1>1, <1>2, <1>3, <2>1, <2>2, <3>1, <3>3, <4>1 DEF Hold
    <3> QED BY <2>2, <3>2, <3>3 DEF Hold
  <2>3. CASE Differs(t)
    <3>1. UNCHANGED <<LastSpeed, LastDisplayedSpeed, dispAge>>
      BY <2>3 DEF Differs
    <3>2. pc' = [pc EXCEPT ![t] = "gone"] \/
          (pc' = [pc EXCEPT ![t] = "adopt"] /\ Elapsed(speedAge) < keep[t])
      BY <2>3 DEF Differs
    <3> QED BY <1>1, <1>2, <1>3, <1>7, <2>1, <2>3, <3>1, <3>2 DEF Differs
  <2>4. CASE Adopt(t)
    <3>1. LastSpeed = 0 \/ quietAge < K1
      BY <2>1, <2>4 DEF Adopt
    <3> QED BY <1>1, <1>2, <1>3, <2>1, <2>4, <3>1 DEF Adopt
  <2>5. CASE SetTime(t)
    <3>1. LastDisplayedSpeed # 0 => quietAge < K1
      BY <2>1, <2>5 DEF SetTime
    <3> QED BY <1>1, <1>2, <1>3, <2>1, <2>5, <3>1 DEF SetTime
  <2>6. CASE Gone(t)
    <3>1. UNCHANGED <<LastSpeed, LastDisplayedSpeed, dispAge>>
      BY <2>6 DEF Gone
    <3>2. pc' = [pc EXCEPT ![t] = "zeroDisplayed"] \/
          (pc' = [pc EXCEPT ![t] = "return"] /\ ~(Elapsed(speedAge) >= keep[t]))
      BY <2>6 DEF Gone
    <3>3. Elapsed(speedAge) >= keep[t] \/ Elapsed(speedAge) < keep[t]
      BY <1>1, <1>3 DEF Elapsed
    <3> QED BY <1>1, <1>2, <1>3, <1>7, <2>1, <2>6, <3>1, <3>2, <3>3 DEF Gone
  <2>7. CASE ZeroDisplayed(t)
    BY <1>1, <1>2, <1>3, <2>1, <2>7 DEF ZeroDisplayed
  <2>8. CASE ZeroLast(t)
    BY <1>1, <1>2, <1>3, <2>1, <2>8 DEF ZeroLast
  <2> QED BY <2>2, <2>3, <2>4, <2>5, <2>6, <2>7, <2>8 DEF Determine
<1> QED BY <1>4, <1>5, <1>6, <1>8 DEF StaleInv

\* A reading, or other bytes: a reading starts the quiet time anew.
LEMMA RadarStale ==
  ASSUME TypeOK, StaleInv, RadarThread
  PROVE  StaleInv'
<1>1. /\ UNCHANGED <<NumAnimationFrames, AnimationFrameLengthMs, screen, deviceInfo,
                     radarInfo, fileDirty, passed, LastDisplayedSpeed, dispAge>>
      /\ DOMAIN pc = Threads /\ DOMAIN keep = Threads /\ DOMAIN update = Threads
      /\ speedAge \in Int /\ dispAge \in Nat /\ quietAge \in Nat
  BY SettingsAssumption
     DEF RadarThread, Report, ReportTime, OtherBytes, RadarReturn, radarVars,
         animationVars, drawVars, infoVars, tickVars, TypeOK
<1>2. /\ UNCHANGED <<LongestKeep, LongestUpdate, K1, U1>>
      /\ K1 \in Nat /\ K1 >= 1 /\ U1 \in Nat /\ U1 >= 1
      /\ AtLeast(radarInfo.keepLastSpeedLength, animationLength) <= LongestKeep
  BY <1>1, Times, TimesKept DEF animationLength
<1>3. /\ \E l \in {"reported", "hold", "idle"} :
           /\ pc' = [pc EXCEPT !["radar"] = l]
           /\ l = "hold" => keep'["radar"] <= LongestKeep
           /\ l = "reported" => quietAge' = 0
      /\ keep'["main"] = keep["main"] /\ update'["main"] = update["main"]
      /\ (quietAge' = quietAge /\ LastSpeed' = LastSpeed) \/ quietAge' = 0
      /\ quietAge' \in {quietAge, 0}
  <2>1. ASSUME NEW s \in Speeds, Report(s) PROVE <1>3
    BY <1>1, <2>1 DEF Report, goto, localVars
  <2>2. CASE ReportTime
    BY <1>1, <1>2, <2>2 DEF ReportTime, Begin, goto, tickVars, Threads
  <2>3. CASE OtherBytes
    BY <1>1, <1>2, <2>3 DEF OtherBytes, Begin, goto, radarVars, Threads
  <2>4. CASE RadarReturn
    BY <1>1, <2>4 DEF RadarReturn, Return, goto, radarVars, tickVars, Threads
  <2> QED BY <2>1, <2>2, <2>3, <2>4 DEF RadarThread
<1>4. LengthsInv'
  BY <1>1, <1>2, <1>3 DEF StaleInv, LengthsInv, Working, Threads
<1>5. AgeInv'
  <2>1. ASSUME NEW s \in Speeds, Report(s) PROVE AgeInv'
    BY <1>1, <2>1 DEF Report, StaleInv, AgeInv, at, goto, Threads, TypeOK, Never
  <2>2. CASE ReportTime
    BY <1>1, <2>2 DEF ReportTime, Begin, StaleInv, AgeInv, at, goto, tickVars, Threads,
                      Never
  <2>3. CASE OtherBytes
    BY <1>1, <2>3 DEF OtherBytes, Begin, StaleInv, AgeInv, at, goto, radarVars, Threads
  <2>4. CASE RadarReturn
    BY <1>1, <2>4 DEF RadarReturn, Return, StaleInv, AgeInv, at, goto, radarVars,
                      tickVars, Threads
  <2> QED BY <2>1, <2>2, <2>3, <2>4 DEF RadarThread
<1>6. SelectedInv'
  <2>1. \A t \in Threads : \A l \in {"adopt", "setTime", "zeroLast"} :
          pc'[t] = l => pc[t] = l
    BY <1>1, <1>3 DEF Threads
  <2>2. pc'["main"] = pc["main"]
    BY <1>1, <1>3 DEF Threads
  <2>3. CASE quietAge' = quietAge /\ LastSpeed' = LastSpeed
    BY <1>1, <1>2, <2>1, <2>2, <2>3 DEF SelectedInv, StaleInv, at
  <2>4. CASE quietAge' = 0
    BY <1>1, <1>2, <2>4 DEF SelectedInv
  <2> QED BY <1>3, <2>3, <2>4
<1>7. ShownInv'
  <2>1. UNCHANGED <<screen, passed, K1, U1>> /\ quietAge' \in {quietAge, 0}
    BY <1>1, <1>2, <1>3
  <2>2. K1 \in Nat /\ K1 >= 1 /\ U1 \in Nat /\ U1 >= 1
    BY Times
  <2> QED BY <2>1, <2>2 DEF ShownInv, StaleInv
<1> QED BY <1>4, <1>5, <1>6, <1>7 DEF StaleInv

\* The end of a pass: a number is drawn only of a speed that is not 0, whose
\* reading is not too old, and a number that stays is that speed's.
LEMMA DrawStale ==
  ASSUME TypeOK, StaleInv, at("main", "return"), PassEnd,
         UNCHANGED <<animationVars, quietAge>>,
         screen'.number # None => LastDisplayedSpeed # 0
  PROVE  StaleInv'
<1>1. /\ UNCHANGED <<LastSpeed, speedAge, LastDisplayedSpeed, dispAge, deviceInfo,
                     radarInfo, fileDirty, quietAge>>
      /\ DOMAIN pc = Threads /\ DOMAIN keep = Threads
      /\ pc' = [pc EXCEPT !["main"] = "idle"] /\ passed' = TRUE
      /\ keep'["radar"] = keep["radar"]
  BY DEF PassEnd, Return, goto, infoVars, radarVars, TypeOK, Threads
<1>2. UNCHANGED <<LongestKeep, LongestUpdate, K1, U1>>
  BY <1>1, TimesKept DEF animationVars, animationLength
<1>3. LengthsInv' /\ AgeInv'
  BY <1>1, <1>2 DEF StaleInv, LengthsInv, AgeInv, Working, at, Threads
<1>4. SelectedInv'
  BY <1>1, <1>2 DEF StaleInv, SelectedInv, at, Threads
<1>5. ShownInv'
  BY <1>1, <1>2 DEF StaleInv, SelectedInv, ShownInv, at
<1> QED BY <1>3, <1>4, <1>5 DEF StaleInv

\* The two steps of an idle picture change the animation's length, and the quiet
\* time starts anew, or do not.
LEMMA AnimationStale ==
  ASSUME TypeOK, StaleInv, pc["main"] \in {"return", "animate"},
         NEW l \in {"idle", "animate"}, pc' = [pc EXCEPT !["main"] = l],
         keep'["radar"] = keep["radar"],
         UNCHANGED <<LastSpeed, speedAge, LastDisplayedSpeed, dispAge, deviceInfo,
                     radarInfo, fileDirty>>,
         quietAge' = AnimationAge, TypeOK',
         screen'.number = None \/ (screen' = screen /\ passed' = passed)
  PROVE  StaleInv'
<1>1. /\ DOMAIN pc = Threads /\ DOMAIN pc' = Threads
      /\ dispAge \in Nat /\ quietAge \in Nat /\ speedAge \in Int
      /\ speedAge >= -1 /\ quietAge' \in {0, quietAge}
  BY SettingsAssumption DEF TypeOK, AnimationAge
<1>2. /\ K1' \in Nat /\ K1' >= 1 /\ U1' \in Nat /\ U1' >= 1
  <2>1. deviceInfo' \in Settings /\ radarInfo' \in Settings /\ animationLength' \in Nat
    <3>1. deviceInfo' \in Configs /\ radarInfo' \in Configs
      BY DEF TypeOK
    <3>2. NumAnimationFrames' \in Nat /\ AnimationFrameLengthMs' \in Nat
      BY DEF TypeOK
    <3>3. animationLength' \in Nat
      BY <3>2, ProductNat DEF animationLength
    <3> QED BY <3>1, <3>3, SettingsAssumption
  <2>2. LongestKeep' \in Nat /\ LongestUpdate' \in Nat
    BY <2>1, LongestNat DEF LongestKeep, LongestUpdate
  <2> QED BY <2>2, TickNat DEF K1, U1
<1>3. CASE animationLength' = animationLength
  <2>1. UNCHANGED <<LongestKeep, LongestUpdate, K1, U1, quietAge>>
    BY <1>3, TimesKept DEF AnimationAge
  <2>2. LengthsInv' /\ AgeInv'
    BY <1>1, <2>1 DEF StaleInv, LengthsInv, AgeInv, Working, at, Threads
  <2>3. SelectedInv'
    BY <1>1, <2>1 DEF StaleInv, SelectedInv, at, Threads
  <2>4. ShownInv'
    BY <2>1 DEF StaleInv, ShownInv
  <2> QED BY <2>2, <2>3, <2>4 DEF StaleInv
<1>4. CASE animationLength' # animationLength
  <2>1. quietAge' = 0
    BY <1>4 DEF AnimationAge
  <2>2. LengthsInv' /\ AgeInv'
    BY <1>1, <2>1 DEF StaleInv, LengthsInv, AgeInv, Working, at, Threads, Never
  <2>3. SelectedInv'
    <3>1. dispAge' \in Nat
      BY <1>1
    <3> QED BY <1>2, <2>1, <3>1 DEF SelectedInv
  <2>4. ShownInv'
    BY <1>2, <2>1 DEF ShownInv
  <2> QED BY <2>2, <2>3, <2>4 DEF StaleInv
<1> QED BY <1>3, <1>4

\* A speed with a frameset of its own is not 0.
LEMMA SpeedNotZero ==
  ASSUME TypeOK, NEW mode \in SpeedModes, mode = ModeOf(speedToDisplay)
  PROVE  LastDisplayedSpeed # 0
<1>1. deviceInfo \in Settings /\ deviceInfo.minDisplaySpeed \in Nat
  BY SettingsAssumption DEF TypeOK, Settings
<1>2. Limit(deviceInfo.minDisplaySpeed) \in Nat
  BY <1>1, KphWithinLimit DEF Limit
<1>3. speedToDisplay \in Nat /\ ~(speedToDisplay <= Limit(deviceInfo.minDisplaySpeed))
  BY ComputedTypes, SettingsAssumption DEF ModeOf, SpeedModes
<1> QED BY <1>2, <1>3, SettingsAssumption DEF speedToDisplay, Approaching, TypeOK

\* A pass begins, with the settings in use or with those saved.
LEMMA PassBeginStale ==
  ASSUME TypeOK, TypeOK', StaleInv, PassBegin
  PROVE  StaleInv'
<1>1. /\ UNCHANGED <<LastSpeed, speedAge, LastDisplayedSpeed, dispAge,
                     NumAnimationFrames, AnimationFrameLengthMs, radarInfo, passed>>
      /\ DOMAIN pc = Threads /\ pc["main"] = "idle"
      /\ pc' = [pc EXCEPT !["main"] = "hold"]
      /\ dispAge \in Nat /\ quietAge \in Nat /\ speedAge \in Int /\ speedAge >= -1
  BY SettingsAssumption DEF PassBegin, Begin, goto, at, radarVars, animationVars, TypeOK
<1>2. /\ keep'["main"] = AtLeast(deviceInfo'.keepLastSpeedLength, animationLength)
      /\ update'["main"] = AtLeast(deviceInfo'.updateDisplayLength, animationLength)
      /\ keep'["radar"] = keep["radar"]
  BY DEF PassBegin, Begin, TypeOK, Threads
<1>3. CASE ~fileDirty
  <2>1. UNCHANGED <<deviceInfo, screen, quietAge>>
    BY <1>3 DEF PassBegin
  <2>2. /\ UNCHANGED <<LongestKeep, LongestUpdate, K1, U1>>
        /\ keep'["main"] <= LongestKeep /\ update'["main"] <= LongestUpdate
    BY <1>1, <1>2, <2>1, Times, TimesKept DEF animationLength
  <2>3. LengthsInv' /\ AgeInv'
    BY <1>1, <1>2, <2>1, <2>2 DEF StaleInv, LengthsInv, AgeInv, Working, at, Threads
  <2>4. SelectedInv'
    BY <1>1, <1>3, <2>1, <2>2 DEF StaleInv, SelectedInv, at, Threads
  <2>5. ShownInv'
    BY <1>1, <2>1, <2>2 DEF StaleInv, ShownInv
  <2> QED BY <2>3, <2>4, <2>5 DEF StaleInv
<1>4. CASE fileDirty
  <2>1. screen' = Dark /\ quietAge' = 0 /\ deviceInfo' \in Settings /\ radarInfo \in Settings
    BY <1>4, SettingsAssumption DEF PassBegin, TypeOK
  <2>2. animationLength \in Nat /\ animationLength' = animationLength
    BY <1>1, LengthNat DEF animationLength
  <2>3. deviceInfo' \in {deviceInfo', radarInfo'} /\ radarInfo' = radarInfo
    BY <1>1
  <2>4. /\ LongestKeep' \in Nat /\ LongestUpdate' \in Nat
        /\ keep'["main"] <= LongestKeep' /\ update'["main"] <= LongestUpdate'
    BY <1>2, <2>1, <2>2, <2>3, LongestNat DEF LongestKeep, LongestUpdate
  <2>5. K1' \in Nat /\ K1' >= 1 /\ U1' \in Nat /\ U1' >= 1
    BY <2>4, TickNat DEF K1, U1
  <2>6. LengthsInv' /\ AgeInv'
    BY <1>1, <1>2, <2>1, <2>4 DEF StaleInv, LengthsInv, AgeInv, Working, at, Threads, Never
  <2>7. SelectedInv'
    <3>1. dispAge' \in Nat /\ quietAge' = 0
      BY <1>1, <2>1
    <3>2. quietAge' < K1' /\ quietAge' < K1' + dispAge' /\ quietAge' + 1 < K1' + U1'
      BY <2>5, <3>1, NoTimeBelow
    <3> QED BY <3>2 DEF SelectedInv
  <2>8. ShownInv'
    BY <2>1 DEF ShownInv, Dark
  <2> QED BY <2>6, <2>7, <2>8 DEF StaleInv
<1> QED BY <1>3, <1>4

LEMMA MainStale ==
  ASSUME TypeOK, TypeOK', NumberInv, StaleInv, MainThread
  PROVE  StaleInv'
<1>1. CASE PassBegin
  BY <1>1, PassBeginStale
<1>2. CASE ShowStandby
  BY <1>2, DrawStale DEF ShowStandby, Dark
<1>3. ASSUME NEW mode \in SpeedModes, ShowSpeed(mode) PROVE StaleInv'
  BY <1>3, DrawStale, SpeedNotZero DEF ShowSpeed
<1>4. CASE ShowCorners
  <2>1. shown("CORNERS") \in [number : Int, frame : Int, corners : BOOLEAN]
    BY ComputedTypes
  <2>2. screen'.number = None
    BY <1>4, <2>1, OtherModeNumber DEF ShowCorners
  <2> QED BY <1>4, <2>2, DrawStale DEF ShowCorners
<1>5. CASE BeginAnimation
  <2>1. /\ pc["main"] = "return" /\ pc' = [pc EXCEPT !["main"] = "animate"]
        /\ UNCHANGED <<keep, LastSpeed, speedAge, LastDisplayedSpeed, dispAge, deviceInfo,
                       radarInfo, fileDirty, screen, passed>>
        /\ quietAge' = AnimationAge
    BY <1>5 DEF BeginAnimation, at, goto, radarVars, localVars, infoVars
  <2> QED BY <2>1, AnimationStale
<1>6. CASE ShowAnimation
  <2> DEFINE due == /\ deviceInfo.animFrames > 0
                    /\ duration("ANIMATION") >= deviceInfo.animFrameLength
             base == IF due THEN Dark ELSE shown("ANIMATION")
  <2>1. /\ base \in [number : Int, frame : Int, corners : BOOLEAN]
        /\ base.number = None
    BY ComputedTypes, OtherModeNumber DEF Dark, None
  <2>2. \/ screen' = base
        \/ screen' = [base EXCEPT !.frame = 0]
        \/ screen' = [base EXCEPT !.frame = AnimationFrameIdx']
    BY <1>6 DEF ShowAnimation
  <2>3. screen'.number = None
    <3> HIDE DEF base
    <3> QED BY <2>1, <2>2
  <2>4. /\ pc["main"] = "animate" /\ pc' = [pc EXCEPT !["main"] = "idle"]
        /\ keep'["radar"] = keep["radar"]
        /\ UNCHANGED <<LastSpeed, speedAge, LastDisplayedSpeed, dispAge, deviceInfo,
                       radarInfo, fileDirty>>
        /\ quietAge' = AnimationAge
    BY <1>6 DEF ShowAnimation, PassEnd, Return, at, goto, radarVars, infoVars, TypeOK,
                Threads
  <2> QED BY <2>3, <2>4, AnimationStale
<1> QED BY <1>1, <1>2, <1>3, <1>4, <1>5, <1>6
        DEF MainThread, DisplaySpeedToScreen, SpeedModes

\* A tick comes after a pass, when no thread is selecting a speed.
LEMMA TickStale ==
  ASSUME TypeOK, StaleInv, Tick
  PROVE  StaleInv'
<1>1. /\ UNCHANGED <<keep, update, pc, NumAnimationFrames, AnimationFrameLengthMs, screen,
                     deviceInfo, radarInfo, fileDirty, LastSpeed, LastDisplayedSpeed>>
      /\ pc = [t \in Threads |-> "idle"] /\ passed /\ passed' = FALSE
  BY DEF Tick, localVars, animationVars, infoVars
<1>2. /\ quietAge \in 0 .. MaxAge /\ dispAge \in 0 .. MaxAge /\ speedAge \in -1 .. MaxAge
      /\ quietAge' = IF quietAge + 1 <= MaxAge THEN quietAge + 1 ELSE MaxAge
      /\ dispAge' = IF dispAge + 1 <= MaxAge THEN dispAge + 1 ELSE MaxAge
      /\ speedAge' = IF speedAge = -1 THEN -1
                     ELSE IF speedAge + 1 <= MaxAge THEN speedAge + 1 ELSE MaxAge
      /\ MaxAge \in Nat
  BY SettingsAssumption DEF Tick, TypeOK, Older, AtMost, Never
<1>3. /\ UNCHANGED <<LongestKeep, LongestUpdate, K1, U1>>
      /\ K1 \in Nat /\ K1 >= 1 /\ U1 \in Nat
  BY <1>1, Times, TimesKept DEF animationLength
<1>4. LengthsInv' /\ AgeInv'
  BY <1>1, <1>2, <1>3 DEF StaleInv, LengthsInv, AgeInv, Working, at, Threads, Never
<1>5. SelectedInv'
  BY <1>1, <1>2, <1>3 DEF StaleInv, SelectedInv, at, Threads
<1>6. ShownInv'
  BY <1>1, <1>2, <1>3 DEF StaleInv, ShownInv
<1> QED BY <1>4, <1>5, <1>6 DEF StaleInv

LEMMA StaleStep == TypeOK /\ TypeOK' /\ NumberInv /\ StaleInv /\ [Next]_vars => StaleInv'
<1> SUFFICES ASSUME TypeOK, TypeOK', NumberInv, StaleInv, [Next]_vars PROVE StaleInv'
  OBVIOUS
<1>1. ASSUME NEW t \in Threads, Determine(t) PROVE StaleInv'
  BY <1>1, DetermineStale
<1>2. ASSUME NEW info \in Configs, RequestSaves(info) \/ FileSaves(info) PROVE StaleInv'
  BY <1>2, SavesStale
<1>3. CASE UNCHANGED vars
  <2>1. UNCHANGED <<LongestKeep, LongestUpdate, K1, U1>>
    BY <1>3, TimesKept DEF vars, infoVars, animationVars, animationLength
  <2>2. LengthsInv' /\ AgeInv' /\ SelectedInv' /\ ShownInv'
    BY <1>3, <2>1
       DEF vars, radarVars, localVars, infoVars, tickVars, StaleInv, LengthsInv, AgeInv,
           SelectedInv, ShownInv, Working, at
  <2> QED BY <2>2 DEF StaleInv
<1> QED BY <1>1, <1>2, <1>3, RadarStale, MainStale, TickStale DEF Next

\* No number stays on the sign for longer than the keep and update times after
\* the last reading or the last change of the settings, in whatever order the
\* statements of the two threads are run, for all settings that are saved and all
\* speeds, although each thread works with a copy of the settings of its own.
THEOREM StaleNumberGoes == Spec => []StaleTakenOff
<1>1. TypeOK /\ StaleInv => StaleTakenOff
  <2> SUFFICES ASSUME TypeOK, StaleInv, screen.number # None
               PROVE  quietAge < K1 + U1
    BY DEF StaleTakenOff, K1, U1
  <2>1. quietAge \in Nat /\ K1 \in Nat /\ U1 \in Nat
    BY Times, SettingsAssumption DEF TypeOK
  <2> QED BY <2>1 DEF StaleInv, ShownInv
<1> QED BY <1>1, TypeCorrect, NumberInit, NumberStep, StaleInit, StaleStep, PTL DEF Spec
=============================================================================
