------------------------- MODULE ConfigStoreProofs -------------------------
(***************************************************************************)
(* Whatever the host and the web pages ask for, in any order with the      *)
(* memory task and with losses of power: the main loop's copy is as old as *)
(* the flag says, nothing answered is lost, the radar is set as the file   *)
(* says, and a handler's write changes only what its user may change.      *)
(***************************************************************************)
EXTENDS ConfigStore, TLAPS

\* What every record that is read or written has.
Known(info) ==
  /\ AdminFields \cup PasswordFields \cup {"displayBrightness", "autoDim"} \subseteq DOMAIN info
  /\ \A f \in PasswordFields : info[f] \in Int

\* What a handler may do with the record it read, for a user of level l.
Fits(info, out, l) ==
  /\ out.saves \in BOOLEAN
  /\ ~out.saves => "radar" \notin out.calls /\ DOMAIN out.set = {}
  /\ out.saves =>
       /\ "radar" \notin out.calls => DOMAIN out.set \cap RadarFields = {}
       /\ l # Admin => DOMAIN out.set \cap AdminFields = {}
       /\ \A f \in DOMAIN out.set \cap PasswordFields :
            /\ out.set[f] \in Int
            /\ \/ l = Admin \/ f = PasswordOf(l)
               \/ lowercase(out.set[f]) = lowercase(info[f])

-----------------------------------------------------------------------------
(* The outcomes handlers are built from *)

LEMMA ReportFits ==
  ASSUME NEW info, NEW reply, NEW view, NEW l
  PROVE  Fits(info, Report(reply, view), l)
BY DEF Fits, Report

LEMMA AnswerFits ==
  ASSUME NEW info, NEW reply, NEW l
  PROVE  Fits(info, Answer(reply), l)
BY ReportFits DEF Answer

LEMMA RefusedFits ==
  ASSUME NEW info, NEW l
  PROVE  Fits(info, Refused, l) /\ Fits(info, Ignored, l) /\ Fits(info, InvalidToken, l)
BY AnswerFits DEF Refused, Ignored, InvalidToken

\* A handler that sets no field of the administrator and no password
LEMMA PlainFits ==
  ASSUME NEW info, NEW set, NEW calls, NEW l,
         DOMAIN set \cap (AdminFields \cup PasswordFields) = {}
  PROVE  Fits(info, Saving(set, calls), l)
<1> DEFINE out == Saving(set, calls)
<1>1. out.saves = TRUE /\ out.set = set /\ out.calls = calls
  BY DEF Saving, Answer, Report
<1>2. /\ DOMAIN set \cap RadarFields = {} /\ DOMAIN set \cap AdminFields = {}
      /\ DOMAIN set \cap PasswordFields = {}
  BY DEF AdminFields
<1> HIDE DEF out
<1>3. Fits(info, out, l)
  BY <1>1, <1>2 DEF Fits
<1> QED BY <1>3 DEF out

\* One for the administrator, who sets the radar as well if the field is its
LEMMA AdminFits ==
  ASSUME NEW info, NEW set, NEW calls,
         DOMAIN set \cap PasswordFields = {},
         "radar" \notin calls => DOMAIN set \cap RadarFields = {}
  PROVE  Fits(info, Saving(set, calls), Admin)
<1> DEFINE out == Saving(set, calls)
<1>1. out.saves = TRUE /\ out.set = set /\ out.calls = calls
  BY DEF Saving, Answer, Report
<1> HIDE DEF out
<1>2. Fits(info, out, Admin)
  BY <1>1 DEF Fits
<1> QED BY <1>2 DEF out

\* One that sets passwords, those of others to what they are in lower case
LEMMA PasswordsFit ==
  ASSUME NEW info, NEW set, NEW calls, NEW l \in Levels,
         DOMAIN set \subseteq PasswordFields,
         \A f \in DOMAIN set :
           /\ set[f] \in Int
           /\ l = Admin \/ f = PasswordOf(l) \/ lowercase(set[f]) = lowercase(info[f])
  PROVE  Fits(info, Saving(set, calls), l)
<1> DEFINE out == Saving(set, calls)
<1>1. out.saves = TRUE /\ out.set = set /\ out.calls = calls
  BY DEF Saving, Answer, Report
<1> HIDE DEF out
<1>2. PasswordFields \cap (AdminFields \cup RadarFields) = {}
  BY DEF PasswordFields, AdminFields, RadarFields
<1>3. Fits(info, out, l)
  BY <1>1, <1>2 DEF Fits
<1> QED BY <1>3 DEF out

LEMMA CallingFits ==
  ASSUME NEW info, NEW reply, NEW l
  PROVE  Fits(info, [Answer(reply) EXCEPT !.calls = {"radarAutoConf"}], l)
BY DEF Fits, Answer, Report

LEMMA LowercaseTwice ==
  ASSUME NEW p \in Int
  PROVE  lowercase(p) \in Int /\ lowercase(lowercase(p)) = lowercase(p)
<1>1. p % 2 \in 0 .. 1 /\ p = 2 * (p \div 2) + (p % 2) /\ p \div 2 \in Int
  BY SMT
<1>2. (2 * (p \div 2)) % 2 = 0
  BY <1>1, SMT
<1>3. lowercase(p) = 2 * (p \div 2)
  BY <1>1 DEF lowercase
<1>4. lowercase(2 * (p \div 2)) = 2 * (p \div 2)
  BY <1>1, <1>2 DEF lowercase
<1> QED BY <1>1, <1>3, <1>4

-----------------------------------------------------------------------------
(* The requests of the host *)

LEMMA PSSFits ==
  ASSUME NEW info, Known(info), NEW l \in Levels, NEW p \in Seq(Int)
  PROVE  Fits(info, PSS(info, l, p), l)
<1> DEFINE lowered  == [f \in PasswordFields |-> lowercase(info[f])]
           reqLevel == IF Len(p) < 3 THEN 0 ELSE p[3]
           whose    == IF l = Admin THEN reqLevel ELSE l
           changed  == [f \in PasswordFields |->
                          IF whose \in Levels /\ f = PasswordOf(whose) THEN p[2]
                          ELSE lowered[f]]
<1>1. \A f \in PasswordFields : info[f] \in Int
  BY DEF Known
<1>2. ASSUME ~(Len(p) < 2) PROVE Fits(info, Saving(changed, {}), l)
  <2>1. p[2] \in Int
    BY <1>2
  <2>2. \A f \in PasswordFields : lowered[f] = lowercase(info[f])
    OBVIOUS
  <2>3. \A f \in PasswordFields : changed[f] \in Int
    BY <1>1, <2>1, <2>2, LowercaseTwice
  <2>4. \A f \in PasswordFields :
          l = Admin \/ f = PasswordOf(l) \/ lowercase(changed[f]) = lowercase(info[f])
    BY <1>1, <2>2, LowercaseTwice
  <2>5. DOMAIN changed = PasswordFields
    OBVIOUS
  <2> HIDE DEF changed
  <2> QED BY <2>3, <2>4, <2>5, PasswordsFit
<1>3. CASE Len(p) < 2
  <2>1. PSS(info, l, p) = Ignored
    BY <1>3 DEF PSS, Taking
  <2> QED BY <2>1, RefusedFits
<1>4. CASE ~(Len(p) < 2)
  <2> HIDE DEF changed
  <2>1. PSS(info, l, p) = Saving(changed, {}) \/ PSS(info, l, p) = Answer("LGF")
    BY <1>4, Zenon DEF PSS, Taking, changed
  <2> QED BY <2>1, <1>2, <1>4, AnswerFits
<1> QED BY <1>3, <1>4

LEMMA RadarRequestsFit ==
  ASSUME NEW info, NEW l \in Levels, NEW p
  PROVE  /\ Fits(info, SBR(info, l, p), l) /\ Fits(info, SRS(info, l, p), l)
         /\ Fits(info, SPT(info, l, p), l) /\ Fits(info, GRI(info, l, p), l)
         /\ Fits(info, RAC(info, l, p), l)
<1> USE DEF AdminOnly, Taking, PasswordFields, RadarFields
<1>1. Fits(info, SBR(info, l, p), l)
  BY AdminFits, RefusedFits DEF SBR
<1>2. Fits(info, SRS(info, l, p), l)
  BY AdminFits, RefusedFits DEF SRS
<1>3. Fits(info, SPT(info, l, p), l)
  BY AdminFits, RefusedFits DEF SPT
<1>4. Fits(info, GRI(info, l, p), l)
  BY AnswerFits DEF GRI
<1>5. Fits(info, RAC(info, l, p), l)
  BY CallingFits DEF RAC
<1> QED BY <1>1, <1>2, <1>3, <1>4, <1>5

LEMMA DisplayRequestsFit ==
  ASSUME NEW info, NEW l \in Levels, NEW p
  PROVE  /\ Fits(info, SMI(info, l, p), l) /\ Fits(info, SMA(info, l, p), l)
         /\ Fits(info, SLI(info, l, p), l) /\ Fits(info, SDL(info, l, p), l)
         /\ Fits(info, SBP(info, l, p), l) /\ Fits(info, SDU(info, l, p), l)
         /\ Fits(info, SPC(info, l, p), l) /\ Fits(info, GPC(info, l, p), l)
         /\ Fits(info, GUN(info, l, p), l) /\ Fits(info, SUN(info, l, p), l)
         /\ Fits(info, SBC(info, l, p), l) /\ Fits(info, GBC(info, l, p), l)
         /\ Fits(info, SAD(info, l, p), l) /\ Fits(info, GAD(info, l, p), l)
<1> USE DEF AdminOnly, Taking, Needing, PasswordFields, RadarFields, AdminFields
<1>1. Fits(info, SMI(info, l, p), l)
  BY PlainFits, RefusedFits DEF SMI
<1>2. Fits(info, SMA(info, l, p), l)
  BY PlainFits, RefusedFits DEF SMA
<1>3. Fits(info, SLI(info, l, p), l)
  BY PlainFits, RefusedFits DEF SLI
<1>4. Fits(info, SDL(info, l, p), l)
  BY PlainFits, RefusedFits DEF SDL
<1>5. Fits(info, SBP(info, l, p), l)
  BY PlainFits, RefusedFits DEF SBP
<1>6. Fits(info, SDU(info, l, p), l)
  BY PlainFits, RefusedFits DEF SDU
<1>7. Fits(info, SPC(info, l, p), l)
  BY AdminFits, RefusedFits DEF SPC
<1>8. Fits(info, GPC(info, l, p), l)
  BY ReportFits DEF GPC
<1>9. Fits(info, GUN(info, l, p), l)
  BY ReportFits DEF GUN
<1>10. Fits(info, SUN(info, l, p), l)
  BY AdminFits, RefusedFits DEF SUN
<1>11. Fits(info, SBC(info, l, p), l)
  BY PlainFits, RefusedFits DEF SBC
<1>12. Fits(info, GBC(info, l, p), l)
  BY ReportFits DEF GBC
<1>13. Fits(info, SAD(info, l, p), l)
  BY AdminFits, RefusedFits DEF SAD
<1>14. Fits(info, GAD(info, l, p), l)
  BY ReportFits DEF GAD
<1> QED BY <1>1, <1>2, <1>3, <1>4, <1>5, <1>6, <1>7, <1>8, <1>9, <1>10, <1>11, <1>12, <1>13, <1>14

LEMMA ScheduleRequestsFit ==
  ASSUME NEW info, NEW l \in Levels, NEW p
  PROVE  /\ Fits(info, GSC(info, l, p), l) /\ Fits(info, SSC(info, l, p), l)
         /\ Fits(info, SEP(info, l, p), l) /\ Fits(info, SDN(info, l, p), l)
         /\ Fits(info, RBC(info, l, p), l) /\ Fits(info, INF(info, l, p), l)
         /\ Fits(info, CAM(info, l, p), l)
<1> USE DEF Needing, PasswordFields, RadarFields, AdminFields
<1>1. Fits(info, GSC(info, l, p), l)
  BY ReportFits DEF GSC
<1>2. Fits(info, SSC(info, l, p), l)
  BY PlainFits, RefusedFits DEF SSC
<1>3. Fits(info, SEP(info, l, p), l)
  BY PlainFits, RefusedFits DEF SEP
<1>4. Fits(info, SDN(info, l, p), l)
  BY PlainFits, RefusedFits DEF SDN
<1>5. Fits(info, RBC(info, l, p), l)
  BY ReportFits, RefusedFits DEF RBC
<1>6. Fits(info, INF(info, l, p), l)
  BY ReportFits DEF INF
<1>7. Fits(info, CAM(info, l, p), l)
  BY RefusedFits DEF CAM
<1> QED BY <1>1, <1>2, <1>3, <1>4, <1>5, <1>6, <1>7

LEMMA HostFits ==
  ASSUME NEW info, Known(info), NEW l \in Levels, NEW tag, NEW p \in Seq(Int)
  PROVE  Fits(info, HostOutcome(tag, info, l, p), l)
BY PSSFits, RadarRequestsFit, DisplayRequestsFit, ScheduleRequestsFit, RefusedFits, Zenon
   DEF HostOutcome

-----------------------------------------------------------------------------
(* The web services *)

LEMMA ServicesFit ==
  ASSUME NEW info, NEW l, NEW q
  PROVE  /\ Fits(info, get_status(info, l, q), l)
         /\ Fits(info, get_panels_config(info, l, q), l)
         /\ Fits(info, set_panels_config(info, l, q), l)
         /\ Fits(info, get_schedule(info, l, q), l)
         /\ Fits(info, add_schedule(info, l, q), l)
         /\ Fits(info, activate_schedule(info, l, q), l)
         /\ Fits(info, delete_schedule_entry(info, l, q), l)
         /\ Fits(info, get_dimming_table(info, l, q), l)
         /\ Fits(info, radar_autoconf(info, l, q), l)
<1> USE DEF Allowing, Rejected, PasswordFields, RadarFields, AdminFields
<1>1. Fits(info, get_status(info, l, q), l)
  BY ReportFits, RefusedFits DEF get_status
<1>2. Fits(info, get_panels_config(info, l, q), l)
  BY ReportFits, AnswerFits, RefusedFits DEF get_panels_config
<1>3. Fits(info, set_panels_config(info, l, q), l)
  BY PlainFits, AnswerFits, RefusedFits DEF set_panels_config
<1>4. Fits(info, get_schedule(info, l, q), l)
  BY ReportFits, RefusedFits DEF get_schedule
<1>5. Fits(info, add_schedule(info, l, q), l)
  BY PlainFits, AnswerFits, RefusedFits DEF add_schedule
<1>6. Fits(info, activate_schedule(info, l, q), l)
  BY PlainFits, RefusedFits DEF activate_schedule
<1>7. Fits(info, delete_schedule_entry(info, l, q), l)
  BY PlainFits, RefusedFits DEF delete_schedule_entry
<1>8. Fits(info, get_dimming_table(info, l, q), l)
  BY ReportFits, RefusedFits DEF get_dimming_table
<1>9. Fits(info, radar_autoconf(info, l, q), l)
  BY CallingFits, RefusedFits DEF radar_autoconf
<1> QED BY <1>1, <1>2, <1>3, <1>4, <1>5, <1>6, <1>7, <1>8, <1>9

LEMMA RadarParametersFit ==
  ASSUME NEW info, NEW l, NEW q
  PROVE  /\ Fits(info, radarProtocol(info, l, q), l)
         /\ Fits(info, radarBaud(info, l, q), l)
         /\ Fits(info, radarSensitivity(info, l, q), l)
<1> DEFINE set(field) == [x \in {field} |-> q.value]
<1>1. ASSUME NEW field, NEW legal, field \notin PasswordFields
      PROVE  Fits(info, Reinitialised(Value(q, legal, field)), Admin)
  <2>1. CASE q.value \in legal
    <3>1. Value(q, legal, field) = Saving(set(field), {})
      BY <2>1 DEF Value
    <3> DEFINE out == Reinitialised(Value(q, legal, field))
    <3>2. out = [Saving(set(field), {}) EXCEPT !.calls = {"radar"}]
      BY <3>1 DEF Reinitialised, Saving, Answer, Report
    <3>3. out.saves = TRUE /\ out.set = set(field) /\ "radar" \in out.calls
      BY <3>2 DEF Saving, Answer, Report
    <3>4. DOMAIN set(field) \cap PasswordFields = {}
      BY <1>1
    <3> HIDE DEF out, set
    <3>5. Fits(info, out, Admin)
      BY <3>3, <3>4 DEF Fits
    <3> QED BY <3>5 DEF out
  <2>2. CASE q.value \notin legal
    <3>1. Reinitialised(Value(q, legal, field)) = Answer("3")
      BY <2>2 DEF Value, Rejected, Reinitialised, Answer, Report
    <3> QED BY <3>1, AnswerFits
  <2> QED BY <2>1, <2>2
<1> USE DEF Allowing, PasswordFields
<1>2. Fits(info, radarProtocol(info, l, q), l)
  BY <1>1, RefusedFits DEF radarProtocol
<1>3. Fits(info, radarBaud(info, l, q), l)
  BY <1>1, RefusedFits DEF radarBaud
<1>4. Fits(info, radarSensitivity(info, l, q), l)
  BY <1>1, RefusedFits DEF radarSensitivity
<1> QED BY <1>2, <1>3, <1>4

LEMMA OtherParametersFit ==
  ASSUME NEW info, NEW l, NEW q
  PROVE  /\ Fits(info, speedUnits(info, l, q), l) /\ Fits(info, panelsConfig(info, l, q), l)
         /\ Fits(info, dimmingTable(info, l, q), l) /\ Fits(info, wifiName(info, l, q), l)
         /\ Fits(info, minSpeed(info, l, q), l) /\ Fits(info, maxSpeed(info, l, q), l)
         /\ Fits(info, speedLimit(info, l, q), l) /\ Fits(info, blinkOn(info, l, q), l)
         /\ Fits(info, blinkOff(info, l, q), l)
         /\ Fits(info, displayBrightness(info, l, q), l)
         /\ Fits(info, autodimming(info, l, q), l) /\ Fits(info, ipAddress(info, l, q), l)
         /\ Fits(info, systemTime(info, l, q), l)
<1> USE DEF Allowing, PasswordFields, RadarFields, AdminFields
<1>1. Fits(info, speedUnits(info, l, q), l)
  BY AdminFits, AnswerFits, RefusedFits DEF speedUnits, Value, Rejected
<1>2. Fits(info, panelsConfig(info, l, q), l)
  BY AdminFits, RefusedFits DEF panelsConfig
<1>3. Fits(info, dimmingTable(info, l, q), l)
  BY AdminFits, RefusedFits DEF dimmingTable
<1>4. Fits(info, wifiName(info, l, q), l)
  BY PlainFits, RefusedFits DEF wifiName
<1>5. Fits(info, minSpeed(info, l, q), l)
  BY PlainFits, RefusedFits DEF minSpeed
<1>6. Fits(info, maxSpeed(info, l, q), l)
  BY PlainFits, RefusedFits DEF maxSpeed
<1>7. Fits(info, speedLimit(info, l, q), l)
  BY PlainFits, RefusedFits DEF speedLimit
<1>8. Fits(info, blinkOn(info, l, q), l)
  BY PlainFits, RefusedFits DEF blinkOn
<1>9. Fits(info, blinkOff(info, l, q), l)
  BY PlainFits, RefusedFits DEF blinkOff
<1>10. Fits(info, displayBrightness(info, l, q), l)
  BY PlainFits, RefusedFits DEF displayBrightness
<1>11. Fits(info, autodimming(info, l, q), l)
  BY PlainFits, RefusedFits DEF autodimming
<1>12. Fits(info, ipAddress(info, l, q), l)
  BY PlainFits, RefusedFits DEF ipAddress
<1>13. Fits(info, systemTime(info, l, q), l)
  BY PlainFits, RefusedFits DEF systemTime
<1> QED BY <1>1, <1>2, <1>3, <1>4, <1>5, <1>6, <1>7, <1>8, <1>9, <1>10, <1>11, <1>12, <1>13

LEMMA pwdFits ==
  ASSUME NEW info, NEW l \in Levels, NEW q, q.value \in Int
  PROVE  Fits(info, pwd(info, l, q), l)
<1> DEFINE field == CASE q.ul = Admin -> "adminPassword" [] q.ul = User -> "password"
                      [] OTHER -> "stupidPassword"
           set   == [x \in {field} |-> q.value]
<1>1. field \in PasswordFields /\ (l = q.ul => field = PasswordOf(l))
  BY DEF PasswordFields, PasswordOf
<1>2. DOMAIN set = {field} /\ set[field] = q.value
  OBVIOUS
<1>3. ASSUME l \in {Admin, q.ul} PROVE Fits(info, Saving(set, {}), l)
  <2> HIDE DEF set, field
  <2> QED BY <1>1, <1>2, <1>3, PasswordsFit
<1>4. pwd(info, l, q) = IF l \notin {Admin, q.ul} THEN Rejected("Wrong privilege.")
        ELSE IF q.op \notin {info.adminPassword, info[field]}
             THEN Rejected("The old password is not correct.")
        ELSE Saving(set, {})
  BY Zenon DEF pwd
<1> HIDE DEF set, field
<1> QED BY <1>3, <1>4, AnswerFits DEF Rejected

LEMMA WebFits ==
  ASSUME NEW info, NEW l \in Levels \cup {NoToken}, NEW q \in WebQueries
  PROVE  Fits(info, WebOutcome(info, l, q), l)
<1>1. ASSUME q.service = "change_param", l \in Levels, q.param = "pwd"
      PROVE  Fits(info, pwd(info, l, q), l)
  BY <1>1, BoundAssumption, pwdFits
<1>2. ASSUME q.service = "change_param" PROVE Fits(info, change_param(info, l, q), l)
  <2>1. CASE l \in Levels
    BY <1>1, <1>2, <2>1, RadarParametersFit, OtherParametersFit, AnswerFits, Zenon
       DEF change_param, Allowing, Rejected
  <2>2. CASE l \notin Levels
    BY <2>2, RefusedFits DEF change_param, Allowing
  <2> QED BY <2>1, <2>2
<1> QED BY <1>2, ServicesFit, RefusedFits, Zenon DEF WebOutcome

-----------------------------------------------------------------------------
(* What is written back *)

LEMMA UpdatedIs ==
  ASSUME NEW info, NEW u, NEW f \in DOMAIN info
  PROVE  /\ DOMAIN Updated(info, u) = DOMAIN info
         /\ Updated(info, u)[f] = IF f \in DOMAIN u THEN u[f] ELSE info[f]
BY DEF Updated

LEMMA SavedFits ==
  ASSUME NEW info, Known(info), NEW out, NEW l, Fits(info, out, l), out.saves
  PROVE  /\ Known(Updated(info, out.set))
         /\ Lawful(l, info, Updated(info, out.set))
         /\ "radar" \notin out.calls => RadarOf(Updated(info, out.set)) = RadarOf(info)
<1> DEFINE saved == Updated(info, out.set)
<1>1. /\ DOMAIN saved = DOMAIN info
      /\ \A f \in DOMAIN info : saved[f] = IF f \in DOMAIN out.set THEN out.set[f] ELSE info[f]
  BY DEF Updated
<1>2. RadarFields \subseteq AdminFields
  BY DEF AdminFields
<1> HIDE DEF saved
<1>3. Known(saved)
  BY <1>1 DEF Known, Fits
<1>4. Lawful(l, info, saved)
  BY <1>1 DEF Known, Fits, Lawful
<1>5. ASSUME "radar" \notin out.calls PROVE RadarOf(saved) = RadarOf(info)
  BY <1>1, <1>2, <1>5 DEF Known, Fits, RadarOf
<1> QED BY <1>3, <1>4, <1>5 DEF saved

LEMMA DefaultKnown == Known(DefaultDeviceInfo)
BY DEF Known, DefaultDeviceInfo, AdminFields, RadarFields, PasswordFields

LEMMA KnownRead ==
  ASSUME NEW info, Known(info)
  PROVE  readDeviceInfo(info) = info
BY DEF Known, readDeviceInfo, Absent, PasswordFields

LEMMA StoredKnown ==
  ASSUME NEW f \in Stored
  PROVE  Known(readDeviceInfo(f))
<1>1. CASE f = Absent
  BY <1>1, DefaultKnown DEF readDeviceInfo
<1>2. CASE f \in DeviceInfoS
  <2>1. Known(f)
    BY <1>2 DEF Known, DeviceInfoS, AdminFields, RadarFields, PasswordFields
  <2> QED BY <2>1, KnownRead
<1> QED BY <1>1, <1>2, BoundAssumption

-----------------------------------------------------------------------------
(* The inductive invariant *)

PlacesOK ==
  /\ DOMAIN pc = {"main", "memory"}
  /\ level \in Levels \cup {NoToken}
  /\ update \in Updates \cup {None}
  /\ ~at("memory", "idle") => update \in Updates

RecordsKnown ==
  /\ Known(readDeviceInfo(file)) /\ Known(readDeviceInfo(synced))
  /\ Known(own) /\ Known(DeviceInfo)

\* What a radar r is set to agrees with a record; u: its sensitivity was undone.
Agrees(r, u, info) ==
  /\ r.radarBaudRate = info.radarBaudRate
  /\ r.radarProtocol = info.radarProtocol
  /\ u \/ r.sensitivity = info.sensitivity

LEMMA RadarOfIs ==
  ASSUME NEW info
  PROVE  /\ DOMAIN RadarOf(info) = RadarFields
         /\ RadarOf(info).radarBaudRate = info.radarBaudRate
         /\ RadarOf(info).radarProtocol = info.radarProtocol
         /\ RadarOf(info).sensitivity = info.sensitivity
BY DEF RadarOf, RadarFields

LEMMA SetAgrees ==
  ASSUME NEW info
  PROVE  Agrees(RadarOf(info), FALSE, info) /\ DOMAIN RadarOf(info) = RadarFields
BY RadarOfIs DEF Agrees

\* A handler sets the radar as the record it saves, if it is set as the one read.
LEMMA SetRadarAgrees ==
  ASSUME NEW read, NEW saved, NEW calls, SetRadar(saved, calls),
         "radar" \notin calls => RadarOf(saved) = RadarOf(read),
         DOMAIN radar = RadarFields,
         ~unapplied => Agrees(radar, undone, read)
  PROVE  /\ ~unapplied' => Agrees(radar', undone', saved)
         /\ DOMAIN radar' = RadarFields
<1>1. CASE "radar" \in calls
  <2>1. radar' = RadarOf(saved)
    BY <1>1 DEF SetRadar
  <2> QED BY <2>1, SetAgrees DEF Agrees
<1>2. ASSUME "radar" \notin calls
      PROVE  /\ saved.radarBaudRate = read.radarBaudRate
             /\ saved.radarProtocol = read.radarProtocol
             /\ saved.sensitivity = read.sensitivity
  <2>1. RadarOf(saved) = RadarOf(read)
    BY <1>2
  <2>2. /\ RadarOf(saved).radarBaudRate = saved.radarBaudRate
        /\ RadarOf(saved).radarProtocol = saved.radarProtocol
        /\ RadarOf(saved).sensitivity = saved.sensitivity
    BY RadarOfIs
  <2>3. /\ RadarOf(read).radarBaudRate = read.radarBaudRate
        /\ RadarOf(read).radarProtocol = read.radarProtocol
        /\ RadarOf(read).sensitivity = read.sensitivity
    BY RadarOfIs
  <2> QED BY <2>1, <2>2, <2>3
<1>3. ASSUME "radar" \notin calls, ~unapplied' PROVE Agrees(radar, undone, read)
  <2>1. ~unapplied
    BY <1>3, Zenon DEF SetRadar
  <2> QED BY <2>1
<1>4. CASE "radar" \notin calls /\ "radarAutoConf" \in calls
  <2> DEFINE of == RadarOf(saved)
  <2>1. radar' = [of EXCEPT !.radarProtocol = radar.radarProtocol]
    BY <1>4, Zenon DEF SetRadar
  <2>2. /\ DOMAIN of = RadarFields
        /\ of.radarBaudRate = saved.radarBaudRate
        /\ of.sensitivity = saved.sensitivity
    BY RadarOfIs
  <2> HIDE DEF of
  <2>3. /\ DOMAIN radar' = RadarFields
        /\ radar'.radarProtocol = radar.radarProtocol
        /\ radar'.radarBaudRate = saved.radarBaudRate
        /\ radar'.sensitivity = saved.sensitivity
    BY <2>1, <2>2 DEF RadarFields
  <2>4. ASSUME ~unapplied' PROVE Agrees(radar', undone', saved)
    <3>1. radar.radarProtocol = saved.radarProtocol
      BY <1>2, <1>3, <1>4, <2>4 DEF Agrees
    <3> QED BY <2>3, <3>1 DEF Agrees
  <2> QED BY <2>3, <2>4
<1>5. CASE "radar" \notin calls /\ "radarAutoConf" \notin calls
  <2>1. radar' = radar
    BY <1>5, Zenon DEF SetRadar
  <2>2. calls \cap {"radar", "radarAutoConf"} = {}
    BY <1>5
  <2>3. undone => undone'
    BY <2>2, Zenon DEF SetRadar
  <2>4. ASSUME ~unapplied' PROVE Agrees(radar', undone', saved)
    <3>1. Agrees(radar, undone, read)
      BY <1>3, <1>5, <2>4
    <3>2. undone' \/ radar.sensitivity = read.sensitivity
      BY <2>3, <3>1, Zenon DEF Agrees
    <3> QED BY <1>2, <1>5, <2>1, <3>1, <3>2 DEF Agrees
  <2> QED BY <2>1, <2>4
<1> QED BY <1>1, <1>4, <1>5

\* Only a write whose Sync is to come is not safe.
SyncedUnlessWriting ==
  at("main", "sync") \/ pc["memory"] \in {"sync", "sync2"} \/ synced = file

\* A handler that is about to write has set the radar to what it writes, and
\* writes what its user may.
WriteFits ==
  at("main", "write") =>
    /\ ~unapplied => Agrees(radar, undone, own)
    /\ ~overwritten => Lawful(level, readDeviceInfo(file), own)

RadarSet ==
  ~at("main", "write") /\ ~unapplied => Agrees(radar, undone, readDeviceInfo(file))

RadarWhole == DOMAIN radar = RadarFields

IInv == PlacesOK /\ RecordsKnown /\ CleanMeansCurrent /\ SyncedUnlessWriting /\ WriteFits
        /\ RadarSet /\ RadarWhole

LEMMA InitIInv == Init => IInv
<1> SUFFICES ASSUME Init PROVE IInv
  OBVIOUS
<1>1. PlacesOK
  <2>1. DOMAIN [main |-> "loop", memory |-> "idle"] = {"main", "memory"}
    OBVIOUS
  <2>2. pc["memory"] = "idle"
    BY DEF Init
  <2> QED BY <2>1, <2>2 DEF Init, PlacesOK, at, Levels
<1>2. RecordsKnown
  BY StoredKnown, DefaultKnown DEF Init, RecordsKnown
<1>3. CleanMeansCurrent /\ SyncedUnlessWriting /\ WriteFits /\ RadarSet /\ RadarWhole
  BY SetAgrees
     DEF Init, CleanMeansCurrent, SyncedUnlessWriting, WriteFits, RadarSet, RadarWhole, at
<1> QED BY <1>1, <1>2, <1>3 DEF IInv

\* A handler, whatever it is asked for
LEMMA HandleIInv ==
  ASSUME IInv, NEW out, NEW l \in Levels \cup {NoToken}, NEW next \in {"dirty", "loop"},
         Fits(readDeviceInfo(file), out, l), Handle(out, l, next)
  PROVE  IInv'
<1> DEFINE read  == readDeviceInfo(file)
           saved == Updated(read, out.set)
<1>1. Known(read)
  BY DEF IInv, RecordsKnown
<1>2. /\ at("main", "loop") /\ SetRadar(saved, out.calls)
      /\ UNCHANGED <<file, synced, fileDirty, deviceInfo, DeviceInfo, update, clobbered>>
      /\ read' = read
  BY DEF Handle, autoVars, readDeviceInfo
<1>3. (~unapplied => Agrees(radar, undone, read)) /\ DOMAIN radar = RadarFields
  BY <1>2 DEF IInv, RadarSet, RadarWhole, at
<1>4. pc' = [pc EXCEPT !["main"] = IF out.saves THEN "write" ELSE next]
  BY DEF Handle, goto
<1>5. /\ PlacesOK'
      /\ SyncedUnlessWriting' /\ CleanMeansCurrent'
  <2>1. level' \in Levels \cup {NoToken}
    BY DEF Handle, handlerVars, IInv, PlacesOK
  <2>2. DOMAIN pc' = DOMAIN pc /\ pc'["memory"] = pc["memory"]
    BY <1>4 DEF IInv, PlacesOK
  <2>3. PlacesOK'
    BY <1>2, <2>1, <2>2 DEF IInv, PlacesOK, at
  <2>4. SyncedUnlessWriting'
    BY <1>2, <2>2 DEF IInv, SyncedUnlessWriting, at
  <2>5. CleanMeansCurrent'
    BY <1>2, <2>2 DEF IInv, CleanMeansCurrent, MemoryWrote, at, readDeviceInfo
  <2> QED BY <2>3, <2>4, <2>5
<1>6. ASSUME out.saves
      PROVE  RecordsKnown' /\ WriteFits' /\ RadarSet' /\ RadarWhole'
  <2>1. own' = saved /\ level' = l /\ overwritten' = FALSE
    BY <1>6 DEF Handle
  <2>2. Known(saved) /\ Lawful(l, read, saved)
        /\ ("radar" \notin out.calls => RadarOf(saved) = RadarOf(read))
    BY <1>1, <1>6, SavedFits
  <2>3. pc'["main"] = "write"
    BY <1>4, <1>6 DEF IInv, PlacesOK
  <2>4. (~unapplied' => Agrees(radar', undone', saved)) /\ DOMAIN radar' = RadarFields
    <3> HIDE DEF read, saved
    <3> QED BY <1>2, <1>3, <2>2, SetRadarAgrees
  <2>5. WriteFits'
    <3> HIDE DEF saved
    <3> QED BY <1>2, <2>1, <2>2, <2>4, <2>3 DEF WriteFits, at
  <2>6. RadarSet'
    BY <2>3 DEF RadarSet, at
  <2>7. RecordsKnown'
    <3> HIDE DEF saved
    <3> QED BY <1>2, <2>1, <2>2 DEF IInv, RecordsKnown, readDeviceInfo
  <2> QED BY <2>4, <2>5, <2>6, <2>7 DEF RadarWhole
<1>7. ASSUME ~out.saves
      PROVE  RecordsKnown' /\ WriteFits' /\ RadarSet' /\ RadarWhole'
  <2>1. UNCHANGED <<own, level, overwritten>> /\ "radar" \notin out.calls
    BY <1>7 DEF Handle, handlerVars, Fits
  <2>2. pc'["main"] = next
    BY <1>4, <1>7 DEF IInv, PlacesOK
  <2>3. RecordsKnown'
    BY <1>2, <2>1 DEF IInv, RecordsKnown, readDeviceInfo
  <2>4. WriteFits'
    BY <2>2 DEF WriteFits, at
  <2>5. RadarSet' /\ RadarWhole'
    <3>1. DOMAIN out.set = {}
      BY <1>7 DEF Fits
    <3>2. RadarOf(saved) = RadarOf(read)
      BY <1>1, <3>1, UpdatedIs DEF Known, RadarOf, AdminFields
    <3>3. /\ saved.radarBaudRate = read.radarBaudRate
          /\ saved.radarProtocol = read.radarProtocol
          /\ saved.sensitivity = read.sensitivity
      BY <1>1, <3>1, UpdatedIs DEF Known, AdminFields, RadarFields
    <3> HIDE DEF read, saved
    <3>4. (~unapplied' => Agrees(radar', undone', saved)) /\ DOMAIN radar' = RadarFields
      BY <1>2, <1>3, <3>2, SetRadarAgrees
    <3>5. ~unapplied' => Agrees(radar', undone', read)
      BY <3>3, <3>4 DEF Agrees
    <3> QED BY <1>2, <3>4, <3>5 DEF RadarSet, RadarWhole, read
  <2> QED BY <2>3, <2>4, <2>5
<1> QED BY <1>5, <1>6, <1>7 DEF IInv, Fits

LEMMA CrashIInv == IInv /\ Crash => IInv'
<1> SUFFICES ASSUME IInv, Crash PROVE IInv'
  OBVIOUS
<1>1. /\ file' \in {file, synced} /\ synced' = file' /\ UNCHANGED update
      /\ deviceInfo' = readDeviceInfo(file') /\ radar' = RadarOf(readDeviceInfo(file'))
      /\ undone' = FALSE
      /\ own' = DefaultDeviceInfo /\ level' = Guest /\ DeviceInfo' = DefaultDeviceInfo
      /\ pc' = [main |-> "loop", memory |-> "idle"]
  BY DEF Crash, Started, NoHandler
<1>2. PlacesOK'
  <2>1. DOMAIN pc' = {"main", "memory"} /\ pc'["memory"] = "idle"
    BY <1>1
  <2> QED BY <1>1, <2>1 DEF IInv, PlacesOK, at, Levels
<1>3. RecordsKnown'
  BY <1>1, DefaultKnown DEF IInv, RecordsKnown, readDeviceInfo
<1>4. CleanMeansCurrent' /\ SyncedUnlessWriting' /\ WriteFits' /\ RadarSet' /\ RadarWhole'
  <2>1. pc'["main"] = "loop"
    BY <1>1
  <2>2. readDeviceInfo(file)' = readDeviceInfo(file')
    BY DEF readDeviceInfo
  <2> QED BY <1>1, <2>1, <2>2, SetAgrees
          DEF CleanMeansCurrent, SyncedUnlessWriting, WriteFits, RadarSet, RadarWhole, at
<1> QED BY <1>2, <1>3, <1>4 DEF IInv

LEMMA MainIInv == IInv /\ Main => IInv'
<1> SUFFICES ASSUME IInv, Main PROVE IInv'
  OBVIOUS
<1> USE DEF IInv, at, goto, handlerVars, autoVars, radarVars, readDeviceInfo
<1>1. DOMAIN pc' = DOMAIN pc /\ pc'["memory"] = pc["memory"]
  BY DEF Main, Refresh, RefreshRead, SaveWrite, SaveSync, SetDirty, PlacesOK
<1>2. PlacesOK'
  BY <1>1 DEF Main, Refresh, RefreshRead, SaveWrite, SaveSync, SetDirty, NoHandler,
              PlacesOK, Levels
<1>3. CASE Refresh
  <2>1. pc'["main"] = "refresh"
    BY <1>3 DEF Refresh, PlacesOK
  <2> QED BY <1>1, <1>2, <1>3, <2>1
          DEF Refresh, RecordsKnown, CleanMeansCurrent, SyncedUnlessWriting, WriteFits,
              RadarSet, RadarWhole
<1>4. CASE RefreshRead
  <2>1. pc'["main"] = "loop"
    BY <1>4 DEF RefreshRead, PlacesOK
  <2> QED BY <1>1, <1>2, <1>4, <2>1
          DEF RefreshRead, RecordsKnown, CleanMeansCurrent, SyncedUnlessWriting,
              WriteFits, RadarSet, RadarWhole
<1>5. CASE SaveWrite
  <2>1. pc["main"] = "write" /\ pc'["main"] = "sync"
    BY <1>5 DEF SaveWrite, PlacesOK
  <2>2. file' = own /\ own' = DefaultDeviceInfo
        /\ UNCHANGED <<synced, DeviceInfo, unapplied, radar, undone>>
    BY <1>5 DEF SaveWrite, NoHandler
  <2>3. (readDeviceInfo(file))' = own
    BY <2>2, KnownRead DEF RecordsKnown
  <2>4. RecordsKnown'
    BY <2>2, <2>3, DefaultKnown DEF RecordsKnown
  <2>5. RadarSet'
    <3>1. pc["main"] = "write" /\ (~unapplied => Agrees(radar, undone, own))
      BY <2>1 DEF WriteFits
    <3>2. ~unapplied' => Agrees(radar', undone', (readDeviceInfo(file))')
      <4> HIDE DEF readDeviceInfo, at
      <4> QED BY <2>2, <2>3, <3>1
    <3>3. (Agrees(radar, undone, readDeviceInfo(file)))'
             <=> Agrees(radar', undone', (readDeviceInfo(file))')
      <4> HIDE DEF readDeviceInfo
      <4> QED BY DEF Agrees
    <3> HIDE DEF readDeviceInfo, at
    <3> QED BY <3>2, <3>3, Zenon DEF RadarSet
  <2>6. CleanMeansCurrent' /\ SyncedUnlessWriting' /\ WriteFits'
    BY <2>1 DEF CleanMeansCurrent, SyncedUnlessWriting, WriteFits
  <2>7. RadarWhole'
    BY <2>2 DEF RadarWhole
  <2> QED BY <1>2, <2>4, <2>5, <2>6, <2>7
<1>6. CASE SaveSync
  <2>1. pc'["main"] = "dirty" /\ synced' = file'
    BY <1>6 DEF SaveSync, PlacesOK
  <2> QED BY <1>1, <1>2, <1>6, <2>1
          DEF SaveSync, RecordsKnown, CleanMeansCurrent, SyncedUnlessWriting, WriteFits,
              RadarSet, RadarWhole
<1>7. CASE SetDirty
  <2>1. pc'["main"] = "loop"
    BY <1>7 DEF SetDirty, PlacesOK
  <2> QED BY <1>1, <1>2, <1>7, <2>1
          DEF SetDirty, RecordsKnown, CleanMeansCurrent, SyncedUnlessWriting, WriteFits,
              RadarSet, RadarWhole
<1> QED BY <1>3, <1>4, <1>5, <1>6, <1>7 DEF Main

\* The memory task; it takes no password from an update file.
LEMMA MemoryIInv == IInv /\ MemoryTask => IInv'
<1> SUFFICES ASSUME IInv, MemoryTask PROVE IInv'
  OBVIOUS
<1> USE DEF IInv, at, goto, autoUnchanged
<1>1. /\ DOMAIN pc' = DOMAIN pc /\ pc'["main"] = pc["main"]
      /\ UNCHANGED <<deviceInfo, own, level, radar, undone>>
  BY DEF MemoryTask, AutoOpen, AutoHead, AutoRest, AutoWrite, AutoSync, AutoNetwork,
         AutoDone, PlacesOK, handlerVars, radarVars
<1>2. ASSUME NEW info, Known(info), NEW u, DOMAIN u \cap PasswordFields = {}
      PROVE  Known(Updated(info, u))
  BY <1>2 DEF Updated, Known
<1>3. \A u \in Updates : /\ DOMAIN u.head \cap PasswordFields = {}
                         /\ DOMAIN u.rest \cap PasswordFields = {}
                         /\ DOMAIN u.network \cap PasswordFields = {}
  BY BoundAssumption DEF HeadFields, RestFields, NetworkFields, PasswordFields
<1>4. ASSUME AutoOpen \/ AutoHead \/ AutoRest \/ AutoNetwork
      PROVE  IInv'
  <2>1. UNCHANGED <<file, synced, fileDirty, overwritten, unapplied, update>>
    BY <1>4 DEF AutoOpen, AutoHead, AutoRest, AutoNetwork
  <2>2. pc["memory"] \in {"idle", "head", "rest", "network"}
        /\ (pc["memory"] = "network" <=> pc'["memory"] \in {"write2", "done"})
        /\ (pc["memory"] # "network" => pc'["memory"] \in {"head", "rest", "idle", "write"})
    BY <1>4 DEF AutoOpen, AutoHead, AutoRest, AutoNetwork, PlacesOK
  <2>3. update \in Updates
    BY <1>4 DEF AutoOpen, AutoHead, AutoRest, AutoNetwork, PlacesOK
  <2>4. Known(DeviceInfo')
    <3>1. CASE AutoOpen
      BY <3>1 DEF AutoOpen, RecordsKnown
    <3>2. CASE AutoHead
      <4> DEFINE info == Updated(DeviceInfo, update.head)
                 b    == info.displayBrightness + 128 * (1 - ((info.displayBrightness \div 128) % 2))
      <4>1. Known(info)
        BY <1>2, <1>3, <2>3 DEF RecordsKnown
      <4> HIDE DEF info
      <4>2. ASSUME NEW x
            PROVE  Known([info EXCEPT !.displayBrightness = x, !.autoDim = 1])
        BY <4>1 DEF Known, PasswordFields
      <4>3. DeviceInfo' = info \/ DeviceInfo' = [info EXCEPT !.displayBrightness = b, !.autoDim = 1]
        BY <3>2, ZenonT(30) DEF AutoHead, info
      <4> QED BY <4>1, <4>2, <4>3
    <3>3. CASE AutoRest
      BY <3>3, <1>2, <1>3, <2>3, DefaultKnown DEF AutoRest, RecordsKnown
    <3>4. CASE AutoNetwork
      BY <3>4, <1>2, <1>3, <2>3 DEF AutoNetwork, RecordsKnown
    <3> QED BY <1>4, <3>1, <3>2, <3>3, <3>4
  <2>5. PlacesOK'
    BY <1>1, <2>1, <2>3 DEF PlacesOK
  <2> QED BY <1>1, <2>1, <2>2, <2>4, <2>5
          DEF RecordsKnown, CleanMeansCurrent, MemoryWrote, SyncedUnlessWriting,
              WriteFits, RadarSet, RadarWhole, readDeviceInfo
<1>5. ASSUME AutoWrite("write", "sync") \/ AutoWrite("write2", "sync2")
      PROVE  IInv'
  <2>1. /\ pc["memory"] \in {"write", "write2"} /\ pc'["memory"] \in {"sync", "sync2"}
        /\ file' = DeviceInfo /\ UNCHANGED <<synced, fileDirty, DeviceInfo, update>>
        /\ overwritten' = (overwritten \/ pc["main"] = "write") /\ unapplied' = TRUE
    BY <1>5 DEF AutoWrite, PlacesOK
  <2>2. (readDeviceInfo(file))' = DeviceInfo
    BY <2>1, KnownRead DEF RecordsKnown, readDeviceInfo
  <2>3. PlacesOK'
    BY <1>1, <2>1 DEF PlacesOK
  <2>4. RecordsKnown'
    BY <1>1, <2>1, <2>2 DEF RecordsKnown, readDeviceInfo
  <2> QED BY <1>1, <2>1, <2>3, <2>4
          DEF CleanMeansCurrent, MemoryWrote, SyncedUnlessWriting, WriteFits, RadarSet, RadarWhole
<1>6. ASSUME AutoSync("sync", "network") \/ AutoSync("sync2", "done")
      PROVE  IInv'
  <2>1. /\ pc["memory"] \in {"sync", "sync2"} /\ pc'["memory"] \in {"network", "done"}
        /\ synced' = file /\ UNCHANGED <<file, fileDirty, DeviceInfo, update, overwritten,
                                         unapplied>>
    BY <1>6 DEF AutoSync, PlacesOK
  <2>2. PlacesOK'
    BY <1>1, <2>1 DEF PlacesOK
  <2> QED BY <1>1, <2>1, <2>2
          DEF RecordsKnown, CleanMeansCurrent, MemoryWrote, SyncedUnlessWriting,
              WriteFits, RadarSet, RadarWhole, readDeviceInfo
<1>7. CASE AutoDone
  <2>1. /\ pc'["memory"] = "idle" /\ update' = None /\ fileDirty' = TRUE
        /\ DeviceInfo' = DefaultDeviceInfo
        /\ UNCHANGED <<file, synced, overwritten, unapplied>>
    BY <1>7 DEF AutoDone, PlacesOK, handlerVars, radarVars
  <2>2. PlacesOK'
    BY <1>1, <2>1 DEF PlacesOK
  <2>3. SyncedUnlessWriting'
    BY <1>1, <1>7, <2>1 DEF AutoDone, SyncedUnlessWriting
  <2> QED BY <1>1, <2>1, <2>2, <2>3, DefaultKnown
          DEF RecordsKnown, CleanMeansCurrent, WriteFits, RadarSet, RadarWhole, readDeviceInfo
<1> QED BY <1>4, <1>5, <1>6, <1>7 DEF MemoryTask

\* The radar thread changes the sensitivity and notes that.
LEMMA RadarIInv == IInv /\ RadarThread => IInv'
<1> SUFFICES ASSUME IInv, RadarThread PROVE IInv'
  OBVIOUS
<1>1. UNCHANGED <<file, synced, fileDirty, deviceInfo, pc, own, level, overwritten,
                  DeviceInfo, update, clobbered, unapplied>>
  BY DEF RadarThread, FormatRequest, SendRequest, radarUnchanged, handlerVars, autoVars
<1>2. /\ DOMAIN radar' = RadarFields
      /\ \A info : Agrees(radar, undone, info) => Agrees(radar', undone', info)
  <2>1. CASE FormatRequest
    BY <2>1 DEF FormatRequest, IInv, RadarWhole
  <2>2. CASE SendRequest
    <3>1. /\ radar' = [radar EXCEPT !.sensitivity = request]
          /\ undone' = (undone \/ request # radar.sensitivity)
          /\ DOMAIN radar = RadarFields
      BY <2>2 DEF SendRequest, IInv, RadarWhole
    <3>2. /\ DOMAIN radar' = RadarFields
          /\ radar'.radarBaudRate = radar.radarBaudRate
          /\ radar'.radarProtocol = radar.radarProtocol
          /\ radar'.sensitivity = request
      BY <3>1 DEF RadarFields
    <3> QED BY <3>1, <3>2 DEF Agrees
  <2> QED BY <2>1, <2>2 DEF RadarThread
<1>3. PlacesOK' /\ RecordsKnown' /\ CleanMeansCurrent' /\ SyncedUnlessWriting'
  BY <1>1 DEF IInv, PlacesOK, RecordsKnown, CleanMeansCurrent, MemoryWrote,
              SyncedUnlessWriting, at, readDeviceInfo
<1>4. WriteFits'
  BY <1>1, <1>2 DEF IInv, WriteFits, at, readDeviceInfo
<1>5. RadarSet'
  BY <1>1, <1>2 DEF IInv, RadarSet, at, readDeviceInfo
<1> QED BY <1>2, <1>3, <1>4, <1>5 DEF IInv, RadarWhole

LEMMA NextIInv == IInv /\ [Next]_vars => IInv'
<1> SUFFICES ASSUME IInv, [Next]_vars PROVE IInv'
  OBVIOUS
<1>1. CASE Main
  BY <1>1, MainIInv
<1>2. CASE Request
  <2>1. Known(readDeviceInfo(file))
    BY DEF IInv, RecordsKnown
  <2>2. ASSUME NEW l \in Levels, NEW r \in HostRequests, HostRequest(l, r) PROVE IInv'
    <3>1. r[2] \in Seq(Int)
      BY BoundAssumption
    <3>2. Fits(readDeviceInfo(file), HostOutcome(r[1], readDeviceInfo(file), l, r[2]), l)
      BY <2>1, <3>1, HostFits
    <3> QED BY <2>2, <3>2, HandleIInv DEF HostRequest
  <2>3. ASSUME NEW l \in Levels \cup {NoToken}, NEW q \in WebQueries, WebRequest(l, q)
        PROVE  IInv'
    <3>1. Fits(readDeviceInfo(file), WebOutcome(readDeviceInfo(file), l, q), l)
      BY WebFits
    <3> QED BY <2>3, <3>1, HandleIInv DEF WebRequest
  <2> QED BY <1>2, <2>2, <2>3 DEF Request
<1>3. CASE MemoryTask
  BY <1>3, MemoryIInv
<1>4. CASE ReadGlobal
  BY <1>4 DEF ReadGlobal, IInv, PlacesOK, RecordsKnown, CleanMeansCurrent, MemoryWrote,
              SyncedUnlessWriting, WriteFits, RadarSet, RadarWhole, at, readDeviceInfo, handlerVars,
              radarVars
<1>5. CASE Crash
  BY <1>5, CrashIInv
<1>6. ASSUME NEW u \in Updates, PutUpdate(u) PROVE IInv'
  BY <1>6 DEF PutUpdate, IInv, PlacesOK, RecordsKnown, CleanMeansCurrent, MemoryWrote,
              SyncedUnlessWriting, WriteFits, RadarSet, RadarWhole, at, readDeviceInfo, handlerVars,
              radarVars
<1>7. CASE UNCHANGED vars
  BY <1>7 DEF vars, IInv, PlacesOK, RecordsKnown, CleanMeansCurrent, MemoryWrote,
              SyncedUnlessWriting, WriteFits, RadarSet, RadarWhole, at, readDeviceInfo, handlerVars,
              autoVars, radarVars
<1>8. CASE RadarThread
  BY <1>8, RadarIInv
<1> QED BY <1>1, <1>2, <1>3, <1>4, <1>5, <1>6, <1>7, <1>8 DEF Next

-----------------------------------------------------------------------------
LEMMA Invariance == Spec => []IInv
BY InitIInv, NextIInv, PTL DEF Spec

\* fileDirty tells of every write, whoever made it (main.cpp:617-622).
THEOREM CleanMeansCurrentHolds == Spec => []CleanMeansCurrent
<1>1. IInv => CleanMeansCurrent
  BY DEF IInv
<1> QED BY <1>1, Invariance, PTL

\* The radar is set as the file says, until autoconf writes the file
\* (CommProt.cpp:1347, 1397, 1515, webservices.cpp:735, 760, 784), but for the
\* sensitivity, which the radar thread undoes (radar.cpp:639-649).
THEOREM RadarFollowsFileHolds == Spec => []RadarFollowsFile
<1>1. IInv => RadarFollowsFile
  BY DEF IInv, RadarSet, RadarFollowsFile, SetAs, Agrees, at
<1> QED BY <1>1, Invariance, PTL

\* A handler's write changes only what the level of its user allows.
THEOREM ChangesAreLawfulHolds == Spec => ChangesAreLawful
<1>1. ASSUME IInv, [Next]_vars, at("main", "write"), pc'["main"] = "sync", ~overwritten
      PROVE  Lawful(level, readDeviceInfo(file), readDeviceInfo(file'))
  <2>1. SaveWrite
    <3>1. ~Refresh /\ ~RefreshRead /\ ~SaveSync /\ ~SetDirty /\ ~Request
      BY <1>1 DEF at, Refresh, RefreshRead, SaveSync, SetDirty, Request, HostRequest,
                  WebRequest, Handle
    <3>2. ~MemoryTask
      BY <1>1 DEF at, goto, IInv, PlacesOK, MemoryTask, AutoOpen, AutoHead, AutoRest,
                  AutoWrite, AutoSync, AutoNetwork, AutoDone
    <3>3. ~Crash
      BY <1>1 DEF Crash, Started
    <3>4. /\ ~ReadGlobal /\ ~RadarThread /\ ~(\E u \in Updates : PutUpdate(u))
          /\ ~UNCHANGED vars
      BY <1>1 DEF at, ReadGlobal, RadarThread, FormatRequest, SendRequest, radarUnchanged,
                  PutUpdate, vars
    <3> QED BY <1>1, <3>1, <3>2, <3>3, <3>4 DEF Next, Main
  <2>2. file' = own /\ Known(own)
    BY <1>1, <2>1 DEF SaveWrite, IInv, RecordsKnown
  <2>3. readDeviceInfo(file') = own
    BY <2>2, KnownRead
  <2> QED BY <1>1, <2>3 DEF IInv, WriteFits
<1>2. IInv /\ [Next]_vars =>
        [at("main", "write") /\ pc'["main"] = "sync" /\ ~overwritten =>
           Lawful(level, readDeviceInfo(file), readDeviceInfo(file'))]_vars
  BY <1>1
<1> QED BY <1>2, Invariance, PTL DEF Spec, ChangesAreLawful

\* A loss of power takes nothing away but a write whose Sync is to come
\* (FileRoutines.cpp:145-160).
THEOREM AnsweredIsDurableHolds == Spec => AnsweredIsDurable
<1>1. IInv /\ [Next]_vars =>
        [Crash => \/ at("main", "sync") \/ pc["memory"] \in {"sync", "sync2"}
                  \/ readDeviceInfo(file') = readDeviceInfo(file)]_vars
  BY DEF IInv, SyncedUnlessWriting, Crash
<1> QED BY <1>1, Invariance, PTL DEF Spec, AnsweredIsDurable

-----------------------------------------------------------------------------
(* autoconf takes over what the update file sets. A record that is written  *)
(* has all fields, so that a field that is set is also there.               *)

Fields == DOMAIN DefaultDeviceInfo

RecordsWhole ==
  /\ DOMAIN readDeviceInfo(file) = Fields /\ DOMAIN readDeviceInfo(synced) = Fields
  /\ DOMAIN own = Fields /\ DOMAIN DeviceInfo = Fields

HeadIn(info)    == \A f \in DOMAIN update.head \ {"displayBrightness"} :
                     info[f] = update.head[f]
RestIn(info)    == \A f \in DOMAIN update.rest : info[f] = update.rest[f]
NetworkIn(info) == \A f \in DOMAIN update.network : info[f] = update.network[f]

\* What of the update file is in the global record, and what in the file.
AutoProgress ==
  ~clobbered =>
    /\ pc["memory"] \in {"rest", "write", "sync", "network", "write2"} => HeadIn(DeviceInfo)
    /\ pc["memory"] \in {"write", "sync", "network", "write2"} => RestIn(DeviceInfo)
    /\ pc["memory"] = "write2" => NetworkIn(DeviceInfo)
    /\ pc["memory"] \in {"sync", "network", "write2", "sync2", "done"} =>
         HeadIn(readDeviceInfo(file)) /\ RestIn(readDeviceInfo(file))
    /\ pc["memory"] \in {"sync2", "done"} => NetworkIn(readDeviceInfo(file))

AutoInv == RecordsWhole /\ AutoProgress

LEMMA StoredWhole ==
  ASSUME NEW f \in Stored
  PROVE  DOMAIN readDeviceInfo(f) = Fields
<1>1. CASE f = Absent
  BY <1>1 DEF readDeviceInfo, Fields
<1>2. CASE f \in DeviceInfoS
  <2>1. DOMAIN f = Fields
    BY <1>2 DEF DeviceInfoS, Fields, DefaultDeviceInfo
  <2>2. Known(readDeviceInfo(f))
    BY StoredKnown
  <2> QED BY <2>1 DEF readDeviceInfo, Fields
<1> QED BY <1>1, <1>2, BoundAssumption

LEMMA InitAuto == Init => AutoInv
<1> SUFFICES ASSUME Init PROVE AutoInv
  OBVIOUS
<1>1. RecordsWhole
  BY StoredWhole DEF Init, RecordsWhole, Fields
<1>2. pc["memory"] = "idle"
  BY DEF Init
<1> QED BY <1>1, <1>2 DEF AutoInv, AutoProgress

\* A step that leaves the files, the global record and the memory task alone.
LEMMA AutoKept ==
  ASSUME AutoInv, DOMAIN own' = Fields, pc'["memory"] = pc["memory"],
         UNCHANGED <<file, synced, DeviceInfo, update, clobbered>>
  PROVE  AutoInv'
BY DEF AutoInv, RecordsWhole, AutoProgress, HeadIn, RestIn, NetworkIn, readDeviceInfo

LEMMA HandleAuto ==
  ASSUME IInv, AutoInv, NEW out, NEW l, NEW next, Handle(out, l, next)
  PROVE  AutoInv'
<1> DEFINE read == readDeviceInfo(file)
<1>1. own' = own \/ own' = Updated(read, out.set)
  BY DEF Handle, handlerVars
<1>2. DOMAIN own' = Fields
  BY <1>1 DEF AutoInv, RecordsWhole, Updated
<1>3. pc'["memory"] = pc["memory"]
  BY DEF Handle, goto, IInv, PlacesOK
<1> QED BY <1>2, <1>3, AutoKept DEF Handle, autoVars

LEMMA MainAuto ==
  ASSUME IInv, AutoInv, Main
  PROVE  AutoInv'
<1> USE DEF goto
<1>1. pc'["memory"] = pc["memory"]
  BY DEF Main, Refresh, RefreshRead, SaveWrite, SaveSync, SetDirty, IInv, PlacesOK
<1>2. CASE Refresh \/ RefreshRead \/ SetDirty
  BY <1>1, <1>2, AutoKept
     DEF Refresh, RefreshRead, SetDirty, handlerVars, autoVars, AutoInv, RecordsWhole
<1>3. CASE SaveWrite
  <2>1. /\ file' = own /\ own' = DefaultDeviceInfo
        /\ UNCHANGED <<synced, DeviceInfo>>
        /\ clobbered' \/ pc'["memory"] = "idle"
    BY <1>1, <1>3 DEF SaveWrite, NoHandler, at
  <2>2. (readDeviceInfo(file))' = own
    BY <2>1, KnownRead DEF IInv, RecordsKnown, readDeviceInfo
  <2>3. RecordsWhole'
    BY <2>1, <2>2 DEF AutoInv, RecordsWhole, readDeviceInfo, Fields
  <2>4. AutoProgress'
    BY <2>1 DEF AutoProgress
  <2> QED BY <2>3, <2>4 DEF AutoInv
<1>4. CASE SaveSync
  <2>1. /\ synced' = file
        /\ UNCHANGED <<file, own, DeviceInfo, update, clobbered>>
    BY <1>4 DEF SaveSync, handlerVars, autoVars
  <2> QED BY <1>1, <2>1
          DEF AutoInv, RecordsWhole, AutoProgress, HeadIn, RestIn, NetworkIn, readDeviceInfo
<1> QED BY <1>2, <1>3, <1>4 DEF Main

\* One part of the update file does not touch what another one set.
LEMMA PartsApart ==
  ASSUME NEW u \in Updates
  PROVE  /\ DOMAIN u.head \subseteq Fields \ {"autoDim"}
         /\ DOMAIN u.rest \subseteq Fields /\ DOMAIN u.network \subseteq Fields
         /\ DOMAIN u.head \cap DOMAIN u.rest = {}
         /\ DOMAIN u.head \cap DOMAIN u.network = {}
         /\ DOMAIN u.rest \cap DOMAIN u.network = {}
<1>1. /\ HeadFields \subseteq Fields \ {"autoDim"}
      /\ RestFields \subseteq Fields /\ NetworkFields \subseteq Fields
  BY DEF HeadFields, RestFields, NetworkFields, Fields, DefaultDeviceInfo
<1>2. /\ HeadFields \cap RestFields = {} /\ HeadFields \cap NetworkFields = {}
      /\ RestFields \cap NetworkFields = {}
  BY DEF HeadFields, RestFields, NetworkFields
<1> QED BY <1>1, <1>2, BoundAssumption

LEMMA MemoryAuto ==
  ASSUME IInv, AutoInv, MemoryTask
  PROVE  AutoInv'
<1> DEFINE read == readDeviceInfo(file)
<1> USE DEF at, goto
<1>1. DOMAIN pc = {"main", "memory"} /\ update \in Updates
  BY DEF IInv, PlacesOK, MemoryTask, AutoOpen, AutoHead, AutoRest, AutoWrite, AutoSync,
         AutoNetwork, AutoDone
<1>2. /\ DOMAIN read = Fields /\ DOMAIN readDeviceInfo(synced) = Fields
      /\ DOMAIN own = Fields /\ DOMAIN DeviceInfo = Fields
  BY DEF AutoInv, RecordsWhole
<1>3. Known(DeviceInfo) /\ readDeviceInfo(DeviceInfo) = DeviceInfo
  BY KnownRead DEF IInv, RecordsKnown
<1>4. CASE AutoOpen
  <2>1. /\ UNCHANGED <<file, synced, own>> /\ DeviceInfo' = read
        /\ pc'["memory"] = "head"
    BY <1>1, <1>4 DEF AutoOpen, autoUnchanged
  <2> QED BY <1>2, <2>1 DEF AutoInv, RecordsWhole, AutoProgress, readDeviceInfo
<1>5. CASE AutoHead
  <2> DEFINE info == Updated(DeviceInfo, update.head)
             b    == info.displayBrightness
             lit  == [info EXCEPT !.displayBrightness = b + 128 * (1 - ((b \div 128) % 2)),
                                  !.autoDim = 1]
  <2>1. /\ UNCHANGED <<file, synced, own, update>>
        /\ pc'["memory"] = "rest"
    BY <1>1, <1>5 DEF AutoHead, autoUnchanged
  <2>2. DeviceInfo' = info \/ DeviceInfo' = lit
    BY <1>5 DEF AutoHead
  <2>3. /\ DOMAIN info = Fields
        /\ \A f \in DOMAIN update.head : info[f] = update.head[f]
    BY <1>1, <1>2, PartsApart DEF Updated
  <2>4. /\ DOMAIN lit = Fields
        /\ \A f \in Fields \ {"displayBrightness", "autoDim"} : lit[f] = info[f]
    <3> HIDE DEF info, b
    <3> QED BY <2>3
  <2>5. DOMAIN DeviceInfo' = Fields
    BY <2>2, <2>3, <2>4
  <2>6. \A f \in DOMAIN update.head \ {"displayBrightness"} : DeviceInfo'[f] = update.head[f]
    <3> HIDE DEF info, lit
    <3> QED BY <1>1, <2>2, <2>3, <2>4, PartsApart
  <2>7. AutoProgress'
    BY <2>1, <2>6 DEF AutoProgress, HeadIn
  <2> QED BY <1>2, <2>1, <2>5, <2>7 DEF AutoInv, RecordsWhole, readDeviceInfo
<1>6. CASE AutoRest
  <2>1. UNCHANGED <<file, synced, own, update, clobbered>> /\ pc["memory"] = "rest"
    BY <1>6 DEF AutoRest, autoUnchanged
  <2>2. CASE update.largeSign
    <3>1. DeviceInfo' = DefaultDeviceInfo /\ pc'["memory"] = "idle"
      BY <1>1, <1>6, <2>2 DEF AutoRest
    <3> QED BY <1>2, <2>1, <3>1
            DEF AutoInv, RecordsWhole, AutoProgress, readDeviceInfo, Fields
  <2>3. CASE ~update.largeSign
    <3>1. DeviceInfo' = Updated(DeviceInfo, update.rest) /\ pc'["memory"] = "write"
      BY <1>1, <1>6, <2>3 DEF AutoRest
    <3>2. /\ DOMAIN DeviceInfo' = Fields
          /\ \A f \in DOMAIN update.rest : DeviceInfo'[f] = update.rest[f]
          /\ \A f \in DOMAIN update.head : DeviceInfo'[f] = DeviceInfo[f]
      BY <1>1, <1>2, <3>1, PartsApart DEF Updated
    <3>3. AutoProgress'
      BY <2>1, <3>1, <3>2 DEF AutoInv, AutoProgress, HeadIn, RestIn
    <3> QED BY <1>2, <2>1, <3>2, <3>3 DEF AutoInv, RecordsWhole, readDeviceInfo
  <2> QED BY <2>2, <2>3
<1>7. ASSUME AutoWrite("write", "sync") \/ AutoWrite("write2", "sync2")
      PROVE  AutoInv'
  <2>1. /\ file' = DeviceInfo /\ UNCHANGED <<synced, own, update, DeviceInfo, clobbered>>
        /\ \/ pc["memory"] = "write" /\ pc'["memory"] = "sync"
           \/ pc["memory"] = "write2" /\ pc'["memory"] = "sync2"
    BY <1>1, <1>7 DEF AutoWrite, autoUnchanged
  <2>2. (readDeviceInfo(file))' = DeviceInfo
    BY <1>3, <2>1 DEF readDeviceInfo
  <2>3. RecordsWhole'
    BY <1>2, <2>1, <2>2 DEF RecordsWhole, readDeviceInfo
  <2>4. AutoProgress'
    BY <2>1, <2>2 DEF AutoInv, AutoProgress, HeadIn, RestIn, NetworkIn
  <2> QED BY <2>3, <2>4 DEF AutoInv
<1>8. ASSUME AutoSync("sync", "network") \/ AutoSync("sync2", "done")
      PROVE  AutoInv'
  <2>1. /\ synced' = file /\ UNCHANGED <<file, own, update, DeviceInfo, clobbered>>
        /\ \/ pc["memory"] = "sync" /\ pc'["memory"] = "network"
           \/ pc["memory"] = "sync2" /\ pc'["memory"] = "done"
    BY <1>1, <1>8 DEF AutoSync, autoUnchanged
  <2> QED BY <1>2, <2>1 DEF AutoInv, RecordsWhole, AutoProgress, HeadIn, RestIn, NetworkIn,
                            readDeviceInfo
<1>9. CASE AutoNetwork
  <2>1. /\ UNCHANGED <<file, synced, own, update, clobbered>> /\ pc["memory"] = "network"
        /\ DeviceInfo' = Updated(DeviceInfo, update.network)
        /\ pc'["memory"] = IF DOMAIN update.network = {} THEN "done" ELSE "write2"
    BY <1>1, <1>9 DEF AutoNetwork, autoUnchanged
  <2>2. /\ DOMAIN DeviceInfo' = Fields
        /\ \A f \in DOMAIN update.network : DeviceInfo'[f] = update.network[f]
        /\ \A f \in DOMAIN update.head \cup DOMAIN update.rest : DeviceInfo'[f] = DeviceInfo[f]
    BY <1>1, <1>2, <2>1, PartsApart DEF Updated
  <2>3. AutoProgress'
    BY <2>1, <2>2 DEF AutoInv, AutoProgress, HeadIn, RestIn, NetworkIn, readDeviceInfo
  <2> QED BY <1>2, <2>1, <2>2, <2>3 DEF AutoInv, RecordsWhole, readDeviceInfo
<1>10. CASE AutoDone
  <2>1. /\ UNCHANGED <<file, synced, own>> /\ DeviceInfo' = DefaultDeviceInfo
        /\ pc'["memory"] = "idle"
    BY <1>1, <1>10 DEF AutoDone, handlerVars
  <2> QED BY <1>2, <2>1 DEF AutoInv, RecordsWhole, AutoProgress, readDeviceInfo, Fields
<1> QED BY <1>4, <1>5, <1>6, <1>7, <1>8, <1>9, <1>10 DEF MemoryTask

LEMMA NextAuto == IInv /\ AutoInv /\ [Next]_vars => AutoInv'
<1> SUFFICES ASSUME IInv, AutoInv, [Next]_vars PROVE AutoInv'
  OBVIOUS
<1>1. CASE Request
  BY <1>1, HandleAuto DEF Request, HostRequest, WebRequest
\* What is read again is what was written, unless a write or the file is at
\* odds with it.
<1>2. CASE ReadGlobal
  <2>1. /\ UNCHANGED <<file, synced, own, update, pc>>
        /\ DeviceInfo' = readDeviceInfo(file)
        /\ clobbered' = (clobbered \/ pc["memory"] \in {"rest", "write", "write2"})
    BY <1>2 DEF ReadGlobal, handlerVars
  <2>2. RecordsWhole'
    BY <2>1 DEF AutoInv, RecordsWhole, readDeviceInfo
  <2>3. AutoProgress'
    BY <2>1 DEF AutoInv, AutoProgress, HeadIn, RestIn, NetworkIn, readDeviceInfo
  <2> QED BY <2>2, <2>3 DEF AutoInv
<1>3. CASE Crash
  <2>1. /\ file' \in {file, synced} /\ synced' = file'
        /\ own' = DefaultDeviceInfo /\ DeviceInfo' = DefaultDeviceInfo
        /\ pc' = [main |-> "loop", memory |-> "idle"]
    BY <1>3 DEF Crash, Started, NoHandler
  <2>2. pc'["memory"] = "idle"
    BY <2>1
  <2> QED BY <2>1, <2>2 DEF AutoInv, RecordsWhole, AutoProgress, readDeviceInfo, Fields
\* A file is put where there is none: the memory task does not work on one.
<1>4. ASSUME NEW u \in Updates, PutUpdate(u) PROVE AutoInv'
  <2>1. /\ UNCHANGED <<file, synced, own, DeviceInfo, pc>>
        /\ pc["memory"] = "idle"
    BY <1>4, BoundAssumption DEF PutUpdate, handlerVars, IInv, PlacesOK, at
  <2> QED BY <2>1 DEF AutoInv, RecordsWhole, AutoProgress, readDeviceInfo
<1>5. CASE RadarThread \/ UNCHANGED vars
  BY <1>5, AutoKept DEF RadarThread, FormatRequest, SendRequest, radarUnchanged, vars,
                        handlerVars, autoVars, AutoInv, RecordsWhole
<1> QED BY <1>1, <1>2, <1>3, <1>4, <1>5, MainAuto, MemoryAuto DEF Next

\* autoconf takes over everything the update file sets, unless another thread
\* read or wrote the configuration on the way, for every update file and every
\* order of the threads' steps (FileRoutines.cpp:598-796).
THEOREM AutoconfTakesOverHolds == Spec => []AutoconfTakesOver
<1>1. AutoInv => AutoconfTakesOver
  BY DEF AutoInv, AutoProgress, AutoconfTakesOver, TakenOver, HeadIn, RestIn, NetworkIn, at
<1> QED BY <1>1, Invariance, InitAuto, NextAuto, PTL DEF Spec
=============================================================================
