----------------------------- MODULE WebRequests -----------------------------
(***************************************************************************)
(* The web services that read or change the stored configuration           *)
(* (src/webservices.cpp), one definition per service or per parameter of   *)
(* the service change_param. A service is given the record it read, the    *)
(* user level of the token it was called with (NoToken: none that is       *)
(* valid) and the query q, a record.                                       *)
(***************************************************************************)
EXTENDS DeviceInfo

NoToken == -1

InvalidToken == Answer("invalid token")
Allowing(levels, level, outcome) == IF level \in levels THEN outcome ELSE InvalidToken
Rejected(error) == Answer(error)

-----------------------------------------------------------------------------
(* Framesets and schedule *)

get_status(info, level, q) ==
  Allowing(Levels, level,
    Report("ok", [f \in {"unitType", "radarBaudRate", "radarProtocol", "sensitivity",
                         "ipAddress", "subnetMask", "gatewayAddress", "deviceName",
                         "minDisplaySpeed", "maxDisplaySpeed", "blinkLimit",
                         "blinkOnDurationMs", "blinkOffDurationMs", "displayBrightness",
                         "panelsConfiguration"} |-> info[f]]))

get_panels_config(info, level, q) ==
  Allowing(Levels, level,
    IF q.id \in 0..3 THEN Report("ok", info.bitmapsConfig[q.id]) ELSE Rejected("error"))

\* All of a frameset is replaced, its images too.
set_panels_config(info, level, q) ==
  Allowing(Levels, level,
    IF q.id \in 0..3 THEN Saving([bitmapsConfig |-> [info.bitmapsConfig EXCEPT ![q.id] = q.frameset]], {})
    ELSE Answer("{}"))

get_schedule(info, level, q) ==
  Allowing({Admin, User}, level,
    Report("ok", [scheduleType |-> info.scheduleType,
                  schedules |-> [i \in 0..info.schedulesCount - 1 |-> info.schedules[i]]]))

add_schedule(info, level, q) ==
  Allowing({Admin, User}, level,
    IF info.schedulesCount >= MAX_SCHEDULES THEN Rejected("Too many entries.")
    ELSE Saving([schedules |-> [info.schedules EXCEPT ![info.schedulesCount] = q.entry],
                 schedulesCount |-> info.schedulesCount + 1], {}))

activate_schedule(info, level, q) ==
  Allowing({Admin, User}, level, Saving([scheduleType |-> q.active], {}))

\* The entries behind the deleted one move up. An id behind the last entry
\* deletes the last one.
delete_schedule_entry(info, level, q) ==
  Allowing({Admin, User}, level,
    Saving([schedules |-> [i \in DOMAIN info.schedules |->
                             IF i >= q.id /\ i < info.schedulesCount - 1
                             THEN info.schedules[i + 1] ELSE info.schedules[i]],
            schedulesCount |-> IF info.schedulesCount > 0 THEN info.schedulesCount - 1
                               ELSE 0], {}))

get_dimming_table(info, level, q) ==
  Allowing({Admin}, level, Report("ok", info.autoDimming))

radar_autoconf(info, level, q) ==
  Allowing({Admin}, level, [Answer("ok") EXCEPT !.calls = {"radarAutoConf"}])

-----------------------------------------------------------------------------
(* change_param: its parameters *)

Value(q, legal, field) ==
  IF q.value \in legal THEN Saving([x \in {field} |-> q.value], {}) ELSE Rejected("3")

Reinitialised(outcome) ==
  IF outcome.saves THEN [outcome EXCEPT !.calls = {"radar"}] ELSE outcome

radarProtocol(info, level, q) ==
  Allowing({Admin}, level, Reinitialised(Value(q, Protocols, "radarProtocol")))

radarBaud(info, level, q) ==
  Allowing({Admin}, level,
           Reinitialised(Value(q, {9600, 38400, 57600, 115200}, "radarBaudRate")))

radarSensitivity(info, level, q) ==
  Allowing({Admin}, level, Reinitialised(Value(q, 0..7, "sensitivity")))

speedUnits(info, level, q) == Allowing({Admin}, level, Value(q, {0, 1}, "unitType"))

panelsConfig(info, level, q) ==
  Allowing({Admin}, level, Saving([panelsConfiguration |-> q.value], {}))

dimmingTable(info, level, q) ==
  Allowing({Admin}, level, Saving([autoDimming |-> q.value], {}))

\* The password of user level ul is changed by that user, or by the
\* administrator, whose own password is always taken as the old one.
pwd(info, level, q) ==
  LET field == CASE q.ul = Admin -> "adminPassword" [] q.ul = User -> "password"
                 [] OTHER -> "stupidPassword"
  IN  IF level \notin {Admin, q.ul} THEN Rejected("Wrong privilege.")
      ELSE IF q.op \notin {info.adminPassword, info[field]}
           THEN Rejected("The old password is not correct.")
      ELSE Saving([x \in {field} |-> q.value], {})

wifiName(info, level, q) ==
  Allowing({Admin, User}, level, Saving([deviceName |-> q.value], {"wifi"}))

minSpeed(info, level, q) ==
  Allowing({Admin, User}, level, Saving([minDisplaySpeed |-> q.value], {"redraw"}))

maxSpeed(info, level, q) ==
  Allowing({Admin, User}, level,
           Saving([maxDisplaySpeed |-> q.value, maxSpeedFromRotary |-> 0], {"redraw"}))

speedLimit(info, level, q) ==
  Saving([blinkLimit |-> q.value, blinkLimitFromRotary |-> 0], {"redraw"})

Longest == 5000
blinkOn(info, level, q) ==
  Allowing({Admin, User}, level,
    Saving([blinkOnDurationMs |-> IF q.value > Longest THEN Longest ELSE q.value],
           {"redraw"}))

blinkOff(info, level, q) ==
  Allowing({Admin, User}, level,
    Saving([blinkOffDurationMs |-> IF q.value > Longest THEN Longest ELSE q.value],
           {"redraw"}))

displayBrightness(info, level, q) ==
  Saving([displayBrightness |-> IF q.value > 100 THEN 100
                                ELSE IF q.value < 0 THEN 0 ELSE q.value], {})

\* Automatic dimming is noted twice: in bit 7 of the brightness and in autoDim.
autodimming(info, level, q) ==
  LET b == info.displayBrightness
      bit7 == (b \div 128) % 2
  IN  Saving([displayBrightness |-> IF q.value # 0 THEN b + 128 * (1 - bit7)
                                    ELSE b - 128 * bit7,
              autoDim |-> IF q.value # 0 THEN 1 ELSE 0], {})

\* The system is told to set up the network before the address is written.
ipAddress(info, level, q) ==
  Allowing({Admin, User}, level, Saving([ipAddress |-> q.value], {"network"}))

\* The clock is set by the session's part; the record is written unchanged.
systemTime(info, level, q) == Saving(<<>>, {"clock"})

change_param(info, level, q) ==
  Allowing(Levels, level,
    CASE q.param = "radar-protocol"     -> radarProtocol(info, level, q)
      [] q.param = "radar-baud"         -> radarBaud(info, level, q)
      [] q.param = "speed-units"        -> speedUnits(info, level, q)
      [] q.param = "radar-sensitivity"  -> radarSensitivity(info, level, q)
      [] q.param = "pwd"                -> pwd(info, level, q)
      [] q.param = "panels-config"      -> panelsConfig(info, level, q)
      [] q.param = "system-time"        -> systemTime(info, level, q)
      [] q.param = "wifi-name"          -> wifiName(info, level, q)
      [] q.param = "min-speed"          -> minSpeed(info, level, q)
      [] q.param = "max-speed"          -> maxSpeed(info, level, q)
      [] q.param = "speed-limit"        -> speedLimit(info, level, q)
      [] q.param = "blink-on"           -> blinkOn(info, level, q)
      [] q.param = "blink-off"          -> blinkOff(info, level, q)
      [] q.param = "display-brightness" -> displayBrightness(info, level, q)
      [] q.param = "autodimming"        -> autodimming(info, level, q)
      [] q.param = "dimming-table"      -> dimmingTable(info, level, q)
      [] q.param = "ip-address"         -> ipAddress(info, level, q)
      [] OTHER                          -> Rejected("3"))

-----------------------------------------------------------------------------
\* The service a query calls.
WebOutcome(info, level, q) ==
  CASE q.service = "status"                -> get_status(info, level, q)
    [] q.service = "get_panels_config"     -> get_panels_config(info, level, q)
    [] q.service = "set_panels_config"     -> set_panels_config(info, level, q)
    [] q.service = "get_schedule"          -> get_schedule(info, level, q)
    [] q.service = "add_schedule"          -> add_schedule(info, level, q)
    [] q.service = "activate_schedule"     -> activate_schedule(info, level, q)
    [] q.service = "delete_schedule_entry" -> delete_schedule_entry(info, level, q)
    [] q.service = "get_dimming_table"     -> get_dimming_table(info, level, q)
    [] q.service = "radar_autoconf"        -> radar_autoconf(info, level, q)
    [] q.service = "change_param"          -> change_param(info, level, q)
    [] OTHER                               -> InvalidToken
=============================================================================
