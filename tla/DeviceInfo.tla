----------------------------- MODULE DeviceInfo -----------------------------
(***************************************************************************)
(* The stored configuration (DeviceInfoS of include/FileRoutines.h), its   *)
(* default values, and what a handler of the host protocol or of the web   *)
(* services does with it: it reads the record, changes fields of its copy, *)
(* calls other parts, writes the copy back and answers.                    *)
(*                                                                         *)
(* The tables have the lengths the constants give. A password is a number, *)
(* odd when it has a capital letter; a name is a number.                   *)
(***************************************************************************)
EXTENDS Integers, Sequences

CONSTANTS
  MAX_FRAMES,      \* images of one frameset
  MAX_SCHEDULES,   \* entries of the schedule
  Framesets,       \* framesets: 4 in the sign
  DimmingEntries   \* entries of the dimming table: 16 in the sign

ASSUME TableAssumption ==
  /\ MAX_FRAMES \in Nat /\ MAX_SCHEDULES \in Nat /\ Framesets \in Nat \ {0}
  /\ DimmingEntries \in 1..16

Bytes == 0..255
Byte(n) == n % 256

lowercase(password) == password - (password % 2)

Protocols == 0..3
Special28 == 0
ASCII64   == 1
NoRadar   == 2
NMEA      == 3

-----------------------------------------------------------------------------
(* The record *)

Schedules == [entryType : 0..3, dow : 0..63, year : Nat, month : 0..15, day : Bytes,
              start : Nat, duration : Nat, periodStartDay : Bytes,
              periodStartMonth : 0..15, periodEndDay : Bytes, periodEndMonth : 0..15]

NoSchedule == [entryType |-> 0, dow |-> 0, year |-> 0, month |-> 0, day |-> 0,
               start |-> 0, duration |-> 0, periodStartDay |-> 0,
               periodStartMonth |-> 0, periodEndDay |-> 0, periodEndMonth |-> 0]

DisplayConfigs == [speedDisplayMode : Bytes, x : Bytes, y : Bytes, font : Bytes,
                   frameLength : Nat, numFrames : 0..MAX_FRAMES,
                   frames : [0..MAX_FRAMES - 1 -> Bytes]]

Frameset(mode, font) ==
  [speedDisplayMode |-> mode, x |-> 0, y |-> 0, font |-> font, frameLength |-> 0,
   numFrames |-> 0, frames |-> [j \in 0..MAX_FRAMES - 1 |-> 0]]

DefaultDimming ==
  << <<1, 5>>, <<2, 7>>, <<4, 10>>, <<7, 15>>, <<10, 20>>, <<15, 35>>, <<20, 50>>,
     <<30, 125>>, <<40, 200>>, <<65, 350>>, <<70, 500>>, <<75, 750>>, <<80, 1000>>,
     <<90, 1500>>, <<100, 2000>>, <<100, 2000>> >>

DeviceInfoS ==
  [stupidPassword : Nat, password : Nat, adminPassword : Nat, deviceName : Nat,
   radarBaudRate : Nat, sensitivity : Nat, radarProtocol : Protocols,
   minDisplaySpeed : Nat, blinkLimit : Nat, blinkLimitFromRotary : Bytes,
   maxDisplaySpeed : Nat, maxSpeedFromRotary : Bytes,
   blinkOnDurationMs : Nat, blinkOffDurationMs : Nat, updateDisplayLengthMs : Nat,
   updateDisplaySpeedDelta : Nat, keepLastSpeedLengthMs : Nat,
   displayBrightness : Nat, panelsConfiguration : Nat,
   autoDimming : [1..DimmingEntries -> Nat \X Nat],
   bitmapsConfig : [0..Framesets - 1 -> DisplayConfigs],
   scheduleType : Bytes, schedulesCount : 0..MAX_SCHEDULES,
   schedules : [0..MAX_SCHEDULES - 1 -> Schedules],
   useDHCP : Nat, ipAddress : Nat, subnetMask : Nat, gatewayAddress : Nat,
   unitType : Nat, autoDim : Nat]

DefaultDeviceInfo ==
  [stupidPassword |-> 3, password |-> 5, adminPassword |-> 7, deviceName |-> 0,
   radarBaudRate |-> 57600, sensitivity |-> 3, radarProtocol |-> NMEA,
   minDisplaySpeed |-> 2, blinkLimit |-> 35, blinkLimitFromRotary |-> 0,
   maxDisplaySpeed |-> 80, maxSpeedFromRotary |-> 0,
   blinkOnDurationMs |-> 850, blinkOffDurationMs |-> 850,
   updateDisplayLengthMs |-> 1000, updateDisplaySpeedDelta |-> 1,
   keepLastSpeedLengthMs |-> 2000,
   displayBrightness |-> 158, panelsConfiguration |-> 1,
   autoDimming |-> [i \in 1..DimmingEntries |-> DefaultDimming[i]],
   bitmapsConfig |-> [i \in 0..Framesets - 1 |->
                        IF i \in {1, 2} THEN Frameset(i, 1) ELSE Frameset(0, 0)],
   scheduleType |-> 0, schedulesCount |-> 0,
   schedules |-> [i \in 0..MAX_SCHEDULES - 1 |-> NoSchedule],
   useDHCP |-> 0, ipAddress |-> 100, subnetMask |-> 24, gatewayAddress |-> 1,
   unitType |-> 0, autoDim |-> 1]

\* info with the fields of the record u replaced
Updated(info, u) ==
  [f \in DOMAIN info |-> IF f \in DOMAIN u THEN u[f] ELSE info[f]]

-----------------------------------------------------------------------------
(* What a handler does with its copy: the answer and what it shows of the   *)
(* record, whether it writes the record back and with which fields set, and *)
(* the calls it makes before ("radar": Radar_Init, "radarAutoConf") or      *)
(* along with that ("redraw": the number on the sign is drawn again,        *)
(* "network", "wifi": the system is set up anew)                            *)

Report(reply, view) ==
  [reply |-> reply, view |-> view, saves |-> FALSE, set |-> <<>>, calls |-> {}]
Answer(reply) == Report(reply, <<>>)
Ignored       == Answer("none")
Refused       == Answer("ERR")
Saving(set, calls) ==
  [Answer("EOK") EXCEPT !.saves = TRUE, !.set = set, !.calls = calls]

\* The user levels of the host protocol and of the web services.
Admin  == 0
User   == 1
Guest  == 2
Levels == {Admin, User, Guest}
=============================================================================
