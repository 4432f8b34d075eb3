---------------------------- MODULE HostCommands ----------------------------
(***************************************************************************)
(* The requests of the host protocol that read or change the stored        *)
(* configuration (src/CommProt.cpp), one definition per handler, named as  *)
(* the request. A handler is given the record it read, the level of the    *)
(* user who is logged on and the parameters p.                             *)
(*                                                                         *)
(* The text a handler parses is not cut at the semicolon that ends the     *)
(* parameters: p goes on with the sentence number and the checksum, which  *)
(* stand in for parameters the host left out.                              *)
(***************************************************************************)
EXTENDS DeviceInfo

AdminOnly(level, outcome) == IF level = Admin THEN outcome ELSE Refused
Taking(p, n, outcome)     == IF Len(p) < n THEN Ignored ELSE outcome
Needing(p, n, outcome)    == IF Len(p) < n THEN Refused ELSE outcome

-----------------------------------------------------------------------------
(* Passwords and radar *)

PasswordFields == {"stupidPassword", "password", "adminPassword"}
PasswordOf(level) ==
  CASE level = Admin -> "adminPassword" [] level = User -> "password"
    [] OTHER -> "stupidPassword"

\* The administrator names the level whose password is changed, other users
\* change their own. The comparison lower-cases the stored passwords, all of
\* which are then saved that way.
PSS(info, level, p) ==
  LET lowered   == [f \in PasswordFields |-> lowercase(info[f])]
      reqLevel  == IF Len(p) < 3 THEN 0 ELSE p[3]
      whose     == IF level = Admin THEN reqLevel ELSE level
      changed   == [f \in PasswordFields |->
                      IF whose \in Levels /\ f = PasswordOf(whose) THEN p[2] ELSE lowered[f]]
  IN  Taking(p, 2, IF lowercase(p[1]) = lowered[PasswordOf(level)]
                   THEN Saving(changed, {}) ELSE Answer("LGF"))

SBR(info, level, p) ==
  AdminOnly(level, Taking(p, 1, Saving([radarBaudRate |-> p[1]], {"radar"})))

\* Seeded fault: the sensitivity is saved but not passed on to the radar.
SRS_NoInit(info, level, p) ==
  AdminOnly(level, Taking(p, 1, Saving([sensitivity |-> p[1]], {})))

SRS(info, level, p) ==
  AdminOnly(level, Taking(p, 1, Saving([sensitivity |-> p[1]], {"radar"})))

SPT(info, level, p) ==
  AdminOnly(level, Taking(p, 1,
    IF p[1] \in Protocols THEN Saving([radarProtocol |-> p[1]], {"radar"}) ELSE Refused))

\* The intensity is the radar's, not the record's.
GRI(info, level, p) == Answer("RDI")

RAC(info, level, p) == [Answer("EOK") EXCEPT !.calls = {"radarAutoConf"}]

-----------------------------------------------------------------------------
(* Display: a saved limit or duration has the number drawn again *)

SMI(info, level, p) == Taking(p, 1, Saving([minDisplaySpeed |-> p[1]], {"redraw"}))

SMA(info, level, p) ==
  Taking(p, 2, Saving([maxDisplaySpeed |-> p[1], maxSpeedFromRotary |-> Byte(p[2])],
                      {"redraw"}))

SLI(info, level, p) ==
  Taking(p, 2, Saving([blinkLimit |-> p[1], blinkLimitFromRotary |-> Byte(p[2])],
                      {"redraw"}))

SDL(info, level, p) == Taking(p, 1, Saving([displayBrightness |-> p[1]], {}))

SBP(info, level, p) ==
  Taking(p, 2, Saving([blinkOnDurationMs |-> p[1], blinkOffDurationMs |-> p[2]],
                      {"redraw"}))

SDU(info, level, p) ==
  Taking(p, 3, Saving([updateDisplayLengthMs |-> p[1], updateDisplaySpeedDelta |-> p[2],
                       keepLastSpeedLengthMs |-> p[3]], {"redraw"}))

\* Seeded fault: every user may change the panel configuration.
SPC_AnyLevel(info, level, p) ==
  Taking(p, 1, Saving([panelsConfiguration |-> p[1]], {}))

SPC(info, level, p) ==
  AdminOnly(level, Taking(p, 1, Saving([panelsConfiguration |-> p[1]], {})))

GPC(info, level, p) == Report("PCO", [panelsConfiguration |-> info.panelsConfiguration])

GUN(info, level, p) == Report("UNT", [unitType |-> info.unitType])

SUN(info, level, p) == AdminOnly(level, Needing(p, 1, Saving([unitType |-> p[1]], {})))

\* The framesets follow one another, each with as many images as it says.
SBC(info, level, p) ==
  LET numFrames(b) == IF b + 6 > Len(p) THEN 0 ELSE Byte(p[b + 6])
      before[i \in 0..Framesets] ==      \* tokens before frameset i
        IF i = 0 THEN 0 ELSE before[i - 1] + 6 + numFrames(before[i - 1])
      frames(i) == [j \in 0..MAX_FRAMES - 1 |->
                      IF j < numFrames(before[i]) THEN Byte(p[before[i] + 7 + j])
                      ELSE info.bitmapsConfig[i].frames[j]]
      frameset(i) ==
        LET b == before[i]
        IN  [speedDisplayMode |-> Byte(p[b + 1]), x |-> Byte(p[b + 2]),
             y |-> Byte(p[b + 3]), font |-> Byte(p[b + 4]), frameLength |-> p[b + 5],
             numFrames |-> numFrames(b), frames |-> frames(i)]
  IN  Needing(p, before[Framesets],
        IF \E i \in 0..Framesets - 1 : numFrames(before[i]) > MAX_FRAMES THEN Refused
        ELSE Saving([bitmapsConfig |-> [i \in 0..Framesets - 1 |-> frameset(i)]],
                    {"redraw"}))

GBC(info, level, p) ==
  Report("BCF", [bitmapsConfig |-> [i \in 0..Framesets - 1 |->
    [info.bitmapsConfig[i] EXCEPT !.frames =
       [j \in 0..info.bitmapsConfig[i].numFrames - 1 |-> @[j]]]]])

\* Brightness and luminance in turn; after each pair another token must follow.
SAD(info, level, p) ==
  AdminOnly(level, Taking(p, 2 * DimmingEntries + 1,
    Saving([autoDimming |-> [i \in 1..DimmingEntries |-> <<p[2 * i - 1], p[2 * i]>>]], {})))

GAD(info, level, p) == Report("ADT", [autoDimming |-> info.autoDimming])

-----------------------------------------------------------------------------
(* Schedule, network and name *)

GSC(info, level, p) ==
  Report("SCH", [scheduleType |-> info.scheduleType,
                 schedules |-> [i \in 0..info.schedulesCount - 1 |-> info.schedules[i]]])

\* Type, count, then eleven tokens per entry. The last four, the period of the
\* year, may be missing in the last entry.
SSC(info, level, p) ==
  LET count == Byte(p[2])
      base(i) == 2 + 11 * i
      hasPeriod(i) == Len(p) >= base(i) + 11
      entry(i) ==
        LET b == base(i)
            period(n, default) == IF hasPeriod(i) THEN p[b + 7 + n] ELSE default
        IN  [entryType |-> p[b + 1] % 4, dow |-> p[b + 2] % 64, month |-> p[b + 3] % 16,
             day |-> Byte(p[b + 4]), year |-> p[b + 5] % 4096, start |-> p[b + 6],
             duration |-> p[b + 7],
             periodStartDay |-> Byte(period(1, 0)), periodStartMonth |-> period(2, 0) % 16,
             periodEndDay |-> Byte(period(3, 31)), periodEndMonth |-> period(4, 12) % 16]
  IN  Needing(p, 2, Needing(p, IF count = 0 THEN 2 ELSE base(count - 1) + 7,
        Saving([scheduleType |-> Byte(p[1]), schedulesCount |-> count,
                schedules |-> [i \in DOMAIN info.schedules |->
                                 IF i < count THEN entry(i) ELSE info.schedules[i]]], {})))

SEP(info, level, p) ==
  Needing(p, 4, Saving([useDHCP |-> p[1], ipAddress |-> p[2], subnetMask |-> p[3],
                        gatewayAddress |-> p[4]], {"network"}))

SDN(info, level, p) == Needing(p, 1, Saving([deviceName |-> p[1]], {"wifi"}))

\* A block of the record as it is stored, all fields included.
RBC(info, level, p) == Needing(p, 1, Report("BCD", info))

INF(info, level, p) ==
  Report("INR", [f \in {"useDHCP", "ipAddress", "subnetMask", "gatewayAddress",
                        "radarBaudRate", "radarProtocol", "minDisplaySpeed", "blinkLimit",
                        "blinkLimitFromRotary", "maxDisplaySpeed", "maxSpeedFromRotary",
                        "blinkOnDurationMs", "blinkOffDurationMs", "updateDisplayLengthMs",
                        "updateDisplaySpeedDelta", "keepLastSpeedLengthMs",
                        "displayBrightness", "deviceName", "sensitivity"} |-> info[f]])

\* The camera's picture: the code that takes it is never reached.
CAM(info, level, p) == Refused

-----------------------------------------------------------------------------
\* The handler of a request, for a user who is logged on.
HostOutcome(tag, info, level, p) ==
  CASE tag = "INF" -> INF(info, level, p) [] tag = "PSS" -> PSS(info, level, p)
    [] tag = "SBR" -> SBR(info, level, p) [] tag = "SRS" -> SRS(info, level, p)
    [] tag = "SPT" -> SPT(info, level, p) [] tag = "SMI" -> SMI(info, level, p)
    [] tag = "SMA" -> SMA(info, level, p) [] tag = "SLI" -> SLI(info, level, p)
    [] tag = "SDL" -> SDL(info, level, p) [] tag = "SBP" -> SBP(info, level, p)
    [] tag = "SDU" -> SDU(info, level, p) [] tag = "SPC" -> SPC(info, level, p)
    [] tag = "GPC" -> GPC(info, level, p) [] tag = "SBC" -> SBC(info, level, p)
    [] tag = "GBC" -> GBC(info, level, p) [] tag = "SAD" -> SAD(info, level, p)
    [] tag = "GAD" -> GAD(info, level, p) [] tag = "GSC" -> GSC(info, level, p)
    [] tag = "SSC" -> SSC(info, level, p) [] tag = "SEP" -> SEP(info, level, p)
    [] tag = "SDN" -> SDN(info, level, p) [] tag = "RBC" -> RBC(info, level, p)
    [] tag = "GRI" -> GRI(info, level, p) [] tag = "RAC" -> RAC(info, level, p)
    [] tag = "CAM" -> CAM(info, level, p) [] tag = "GUN" -> GUN(info, level, p)
    [] tag = "SUN" -> SUN(info, level, p) [] OTHER -> Ignored
=============================================================================
