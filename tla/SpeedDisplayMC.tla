--------------------------- MODULE SpeedDisplayMC ---------------------------
(* Two speeds: in mph one shown in the lower frameset and one above all      *)
(* limits, in km/h both in the upper frameset. A tick is about a second: the *)
(* other durations are the defaults (src/FileRoutines.cpp:38-42) in ticks.   *)
(* In km/h the idle animation and the speed framesets have two images each,  *)
(* in mph one.                                                               *)
EXTENDS SpeedDisplay

MphSetting ==
  [unitType |-> 0, minDisplaySpeed |-> 2, blinkLimit |-> 35, maxDisplaySpeed |-> 38,
   blinkOn |-> 1, blinkOff |-> 1, updateDisplayLength |-> 0, keepLastSpeedLength |-> 2,
   updateDisplaySpeedDelta |-> 1, speedDisplayMode |-> 1, numFrames |-> 1,
   animFrames |-> 1, animFrameLength |-> 1]

KmhSetting ==
  [MphSetting EXCEPT !.unitType = 1, !.maxDisplaySpeed = 80, !.speedDisplayMode = 2,
                     !.numFrames = 2, !.animFrames = 2, !.animFrameLength = 0,
                     !.updateDisplayLength = 1]

AllSettings == {MphSetting, KmhSetting}
FirstSetting == {MphSetting}

TwoSpeeds == {25, 40}
=============================================================================
