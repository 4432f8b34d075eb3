---------------------------- MODULE ConfigStoreMC ----------------------------
(* One request per handler, with the parameters told apart by its branches,  *)
(* followed by the sentence number (20) and the checksum (77). Two entries   *)
(* per table are enough for the first, the last and one too many.            *)
EXTENDS ConfigStore

Entry(n) == [NoSchedule EXCEPT !.dow = n, !.start = 60, !.duration = 30]
AnEntry  == <<1, 3, 0, 0, 0, 60, 30>>

Parameters(tag) ==
  CASE tag = "PSS" -> {<<6, 11>>, <<7, 13, 1>>, <<5, 11, 1>>, <<3, 9>>, <<8>>}
    [] tag = "SBR" -> {<<9600>>}          [] tag = "SRS" -> {<<7>>}
    [] tag = "SPT" -> {<<1>>, <<4>>}      [] tag = "SMI" -> {<<5>>, <<>>}
    [] tag = "SMA" -> {<<90, 1>>, <<90>>} [] tag = "SLI" -> {<<40, 1>>}
    [] tag = "SDL" -> {<<50>>}            [] tag = "SBP" -> {<<500, 500>>}
    [] tag = "SDU" -> {<<500, 2, 900>>}   [] tag = "SPC" -> {<<21>>}
    [] tag = "SBC" -> {<<1, 0, 0, 1, 5, 1, 9, 2, 0, 0, 1, 5, 2, 8, 9>>,
                       <<1, 0, 0, 1, 5, 3>>, <<1, 0>>}
    [] tag = "SAD" -> {<<10, 5, 20, 50>>, <<10>>}
    [] tag = "SSC" -> {<<1, 1>> \o AnEntry, <<1, 1>> \o AnEntry \o <<1, 2, 3, 4>>,
                       <<1, 1, 0>>}
    [] tag = "SEP" -> {<<1, 7, 8, 9>>, <<1>>}
    [] tag = "SDN" -> {<<12>>}            [] tag = "SUN" -> {<<1>>}
    [] OTHER -> {<<>>}

Tags == {"INF", "PSS", "SBR", "SRS", "SPT", "SMI", "SMA", "SLI", "SDL", "SBP", "SDU",
         "SPC", "GPC", "SBC", "GBC", "SAD", "GAD", "GSC", "SSC", "SEP", "SDN", "RBC",
         "GRI", "RAC", "CAM", "GUN", "SUN", "other"}
AllRequests == UNION {{<<tag, p \o <<20, 77>> >> : p \in Parameters(tag)} : tag \in Tags}

Param(p, v)  == [service |-> "change_param", param |-> p, value |-> v]
Password(ul, op, v) == [service |-> "change_param", param |-> "pwd", ul |-> ul, op |-> op,
                        value |-> v]
AllQueries ==
  {[service |-> s] : s \in {"status", "get_schedule", "get_dimming_table", "radar_autoconf"}}
  \cup {[service |-> "get_panels_config", id |-> n] : n \in {0, 4}}
  \cup {[service |-> "set_panels_config", id |-> n,
         frameset |-> [Frameset(2, 3) EXCEPT !.numFrames = 1]] : n \in {1, 4}}
  \cup {[service |-> "add_schedule", entry |-> Entry(5)],
        [service |-> "activate_schedule", active |-> 1]}
  \cup {[service |-> "delete_schedule_entry", id |-> n] : n \in {0, 9}}
  \cup {Password(Admin, 7, 13), Password(User, 7, 13), Password(Guest, 3, 9),
        Password(User, 4, 13)}
  \cup {Param("radar-protocol", 1), Param("radar-protocol", 4), Param("radar-baud", 9600),
        Param("speed-units", 1), Param("radar-sensitivity", 7),
        Param("radar-sensitivity", 8), Param("panels-config", 21), Param("system-time", 0),
        Param("wifi-name", 12), Param("min-speed", 5), Param("max-speed", 90),
        Param("speed-limit", 40), Param("blink-on", 6000), Param("blink-off", 500),
        Param("display-brightness", 101), Param("display-brightness", -1),
        Param("autodimming", 0), Param("autodimming", 1),
        Param("dimming-table", << <<10, 5>>, <<20, 50>> >>), Param("ip-address", 7),
        Param("unknown", 0)}

\* No file yet, or a schedule with one entry.
InitialFiles == {Absent, [DefaultDeviceInfo EXCEPT !.schedulesCount = 1, !.schedules[0] = Entry(1)]}

Update(large) ==
  [head |-> [radarBaudRate |-> 9600, sensitivity |-> 1, radarProtocol |-> ASCII64,
             minDisplaySpeed |-> 10, blinkLimit |-> 30, displayBrightness |-> 60],
   useAutodimming |-> TRUE, largeSign |-> large,
   rest |-> [panelsConfiguration |-> 10, scheduleType |-> 1, schedulesCount |-> 0],
   network |-> IF large THEN <<>> ELSE [ipAddress |-> 8, useDHCP |-> 0]]
AllUpdates == {Update(TRUE), Update(FALSE)}
=============================================================================
