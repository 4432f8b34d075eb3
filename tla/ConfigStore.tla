----------------------------- MODULE ConfigStore -----------------------------
(***************************************************************************)
(* The configuration file (src/FileRoutines.cpp) and those who use it      *)
(* without a lock:                                                         *)
(*  - the main loop (src/main.cpp), which keeps a copy and reads it again  *)
(*    when fileDirty is set, and in between runs the handlers of the host  *)
(*    protocol and of the web services, each of which reads the file,      *)
(*    changes its own copy and writes it back;                             *)
(*  - the memory task (src/FlashDriveTask.cpp), which takes over the       *)
(*    settings of an update file through FileRoutines' global record;      *)
(*  - the vehicle log and the image library, which read the file into the  *)
(*    same global record;                                                  *)
(*  - the radar thread (src/radar.cpp), which reads the file when it       *)
(*    starts and keeps sending the radar the sensitivity it read.          *)
(* The controller may lose power between any two steps.                    *)
(***************************************************************************)
EXTENDS HostCommands, WebRequests

CONSTANTS
  None,            \* no update file, nothing to send
  Stored,          \* what the file may hold at first
  HostRequests,    \* requests of the host: <<tag, parameters>>
  WebQueries,      \* queries of the web pages
  Updates,         \* update files that may be put into /root: the fields their
                   \* parts (head, rest, network) set, whether they switch on
                   \* automatic dimming (useAutodimming), and whether they are
                   \* for the large sign (largeSign, bit 0x40)
  MaxEvents        \* requests, update files and losses of power in all

Absent == <<>>     \* no configuration file

VARIABLES
  file, synced,    \* the file as written, and as it survives a loss of power
  fileDirty,
  deviceInfo,      \* the main loop's copy
  pc,              \* per thread: its place
  own, level,      \* the copy a handler is to write, and the level of its user
  DeviceInfo,      \* FileRoutines' global record, while autoconf works on it
  update,          \* /root/update.vac, or None
  radar,           \* what the radar was last set to
  overwritten,     \* the memory task has written since the handler's read
  unapplied,       \* the memory task has written since the radar was set
  threadInfo,      \* the radar thread's copy (DeviceInfo in src/radar.cpp)
  request,         \* the sensitivity it is about to send, or None
  undone,          \* it has sent another one since the radar was set
  clobbered,       \* the global record, or the file, was changed under autoconf
  events           \* still to happen

handlerVars == <<own, level, overwritten>>
autoVars    == <<DeviceInfo, update, clobbered>>
radarVars   == <<radar, unapplied, undone, threadInfo, request>>
vars == <<file, synced, fileDirty, deviceInfo, pc, handlerVars, autoVars, radarVars,
          events>>

\* What the parts of an update file set (autoconfFromCard). The table of the
\* automatic dimming is in the file and is read over.
HeadFields ==
  {"radarBaudRate", "radarProtocol", "sensitivity", "minDisplaySpeed", "blinkLimit",
   "blinkLimitFromRotary", "maxDisplaySpeed", "maxSpeedFromRotary", "blinkOnDurationMs",
   "blinkOffDurationMs", "updateDisplayLengthMs", "updateDisplaySpeedDelta",
   "keepLastSpeedLengthMs", "displayBrightness"}
RestFields ==
  {"panelsConfiguration", "bitmapsConfig", "scheduleType", "schedulesCount", "schedules"}
NetworkFields == {"ipAddress", "subnetMask", "gatewayAddress", "useDHCP"}

ASSUME BoundAssumption ==
  /\ MaxEvents \in Nat
  /\ HostRequests \subseteq STRING \X Seq(Int)
  /\ \A q \in WebQueries :
       q.service = "change_param" /\ q.param = "pwd" => q.value \in Int
  /\ \A u \in Updates : /\ DOMAIN u.head \subseteq HeadFields
                        /\ DOMAIN u.rest \subseteq RestFields
                        /\ DOMAIN u.network \subseteq NetworkFields
  /\ None \notin Updates
  /\ Stored \subseteq DeviceInfoS \cup {Absent}

at(t, l)   == pc[t] = l
goto(t, l) == pc' = [pc EXCEPT ![t] = l]

readDeviceInfo(f) == IF f = Absent THEN DefaultDeviceInfo ELSE f

RadarFields == {"radarBaudRate", "sensitivity", "radarProtocol"}
RadarOf(info) == [f \in RadarFields |-> info[f]]

-----------------------------------------------------------------------------
(* Start: the radar task and the main loop read the file. *)

NoHandler == own' = DefaultDeviceInfo /\ level' = Guest /\ overwritten' = FALSE

Started ==
  /\ fileDirty' = TRUE
  /\ deviceInfo' = readDeviceInfo(file')
  /\ threadInfo' = RadarOf(readDeviceInfo(file')) /\ radar' = threadInfo'
  /\ unapplied' = FALSE /\ undone' = FALSE /\ request' = None
  /\ pc' = [main |-> "loop", memory |-> "idle"]
  /\ NoHandler
  /\ DeviceInfo' = DefaultDeviceInfo /\ clobbered' = FALSE

Init ==
  /\ file \in Stored /\ synced = file
  /\ fileDirty = TRUE
  /\ deviceInfo = readDeviceInfo(file)
  /\ threadInfo = RadarOf(readDeviceInfo(file)) /\ radar = threadInfo
  /\ unapplied = FALSE /\ undone = FALSE /\ request = None
  /\ pc = [main |-> "loop", memory |-> "idle"]
  /\ own = DefaultDeviceInfo /\ level = Guest /\ overwritten = FALSE
  /\ DeviceInfo = DefaultDeviceInfo /\ clobbered = FALSE
  /\ update = None
  /\ events = MaxEvents

Happens == events > 0 /\ events' = events - 1

\* What was written but not yet synced may be lost.
Crash ==
  /\ Happens
  /\ file' \in {file, synced} /\ synced' = file'
  /\ Started
  /\ UNCHANGED update

-----------------------------------------------------------------------------
(* The main loop: its copy *)

Refresh ==
  /\ at("main", "loop") /\ fileDirty
  /\ fileDirty' = FALSE
  /\ goto("main", "refresh")
  /\ UNCHANGED <<file, synced, deviceInfo, handlerVars, autoVars, radarVars, events>>

RefreshRead ==
  /\ at("main", "refresh")
  /\ deviceInfo' = readDeviceInfo(file)
  /\ goto("main", "loop")
  /\ UNCHANGED <<file, synced, fileDirty, handlerVars, autoVars, radarVars, events>>

-----------------------------------------------------------------------------
(* The main loop: handlers. A handler calls the radar before it writes.     *)

\* Radar_Init, or Radar_AutoConf, which also reads the thread's copy anew and
\* leaves the protocol of the program alone.
SetRadar(info, calls) ==
  /\ radar' = IF "radar" \in calls THEN RadarOf(info)
              ELSE IF "radarAutoConf" \in calls
              THEN [RadarOf(info) EXCEPT !.radarProtocol = radar.radarProtocol]
              ELSE radar
  /\ unapplied' = (unapplied /\ "radar" \notin calls)
  /\ undone' = (undone /\ calls \cap {"radar", "radarAutoConf"} = {})
  /\ threadInfo' = IF "radarAutoConf" \in calls THEN RadarOf(info) ELSE threadInfo
  /\ UNCHANGED request

\* What the handler does with the record it read; next is where the main loop
\* goes on when there is nothing to write.
Handle(out, l, next) ==
  LET saved == Updated(readDeviceInfo(file), out.set)
  IN  /\ at("main", "loop") /\ Happens
      /\ SetRadar(saved, out.calls)
      /\ IF out.saves
         THEN own' = saved /\ level' = l /\ overwritten' = FALSE /\ goto("main", "write")
         ELSE UNCHANGED handlerVars /\ goto("main", next)
      /\ UNCHANGED <<file, synced, fileDirty, deviceInfo, autoVars>>

\* Whatever its handler did, a sentence of the host marks the copy as old.
HostRequest(l, r) ==
  Handle(HostOutcome(r[1], readDeviceInfo(file), l, r[2]), l, "dirty")

WebRequest(l, q) == Handle(WebOutcome(readDeviceInfo(file), l, q), l, "loop")

\* writeDeviceInfo: write, then Sync.
\* Seeded fault: the file is not synced.
SaveWrite_NoSync ==
  /\ at("main", "write")
  /\ file' = own
  /\ clobbered' = (clobbered \/ ~at("memory", "idle"))
  /\ NoHandler
  /\ goto("main", "dirty")
  /\ UNCHANGED <<synced, fileDirty, deviceInfo, DeviceInfo, update, radarVars, events>>

SaveWrite ==
  /\ at("main", "write")
  /\ file' = own
  /\ clobbered' = (clobbered \/ ~at("memory", "idle"))
  /\ NoHandler
  /\ goto("main", "sync")
  /\ UNCHANGED <<synced, fileDirty, deviceInfo, DeviceInfo, update, radarVars, events>>

SaveSync ==
  /\ at("main", "sync")
  /\ synced' = file
  /\ goto("main", "dirty")
  /\ UNCHANGED <<file, fileDirty, deviceInfo, handlerVars, autoVars, radarVars, events>>

\* Seeded fault: the flag is not set.
SetDirty_Forgotten ==
  /\ at("main", "dirty")
  /\ goto("main", "loop")
  /\ UNCHANGED <<file, synced, fileDirty, deviceInfo, handlerVars, autoVars, radarVars, events>>

SetDirty ==
  /\ at("main", "dirty")
  /\ fileDirty' = TRUE
  /\ goto("main", "loop")
  /\ UNCHANGED <<file, synced, deviceInfo, handlerVars, autoVars, radarVars, events>>

Request == \E l \in Levels :
  \/ \E r \in HostRequests : HostRequest(l, r)
  \/ \E q \in WebQueries : WebRequest(l, q) \/ WebRequest(NoToken, q)

Main == Refresh \/ RefreshRead \/ SaveWrite \/ SaveSync \/ SetDirty

-----------------------------------------------------------------------------
(* The global record: the vehicle log reads the file into it, in the radar  *)
(* thread and in the main loop, and so does the image library.              *)

ReadGlobal ==
  /\ ~at("memory", "idle")       \* autoconf starts with reading the file
  /\ DeviceInfo' = readDeviceInfo(file)
  /\ clobbered' = (clobbered \/ pc["memory"] \in {"rest", "write", "write2"})
  /\ UNCHANGED <<file, synced, fileDirty, deviceInfo, pc, handlerVars, update, radarVars,
                 events>>

-----------------------------------------------------------------------------
(* autoconfFromCard in the memory task *)

PutUpdate(u) ==
  /\ update = None /\ Happens
  /\ update' = u
  /\ UNCHANGED <<file, synced, fileDirty, deviceInfo, pc, handlerVars, DeviceInfo,
                 clobbered, radarVars>>

autoUnchanged ==
  UNCHANGED <<deviceInfo, own, level, update, radar, undone, threadInfo, request, events>>

AutoOpen ==
  /\ at("memory", "idle") /\ update # None
  /\ DeviceInfo' = readDeviceInfo(file)
  /\ clobbered' = FALSE
  /\ goto("memory", "head")
  /\ autoUnchanged /\ UNCHANGED <<file, synced, fileDirty, overwritten, unapplied>>

\* Radar, limits, durations and brightness; dimming is only ever switched on.
AutoHead ==
  /\ at("memory", "head")
  /\ DeviceInfo' =
       LET info == Updated(DeviceInfo, update.head)
           b    == info.displayBrightness
       IN  IF update.useAutodimming
           THEN [info EXCEPT !.displayBrightness = b + 128 * (1 - ((b \div 128) % 2)),
                             !.autoDim = 1]
           ELSE info
  /\ goto("memory", "rest")
  /\ autoUnchanged /\ UNCHANGED <<file, synced, fileDirty, overwritten, unapplied, clobbered>>

\* The panel configuration, framesets and schedule. A file for the large sign
\* is left: it stays in /root, the global record is read again.
AutoRest ==
  /\ at("memory", "rest")
  /\ IF update.largeSign
     THEN DeviceInfo' = DefaultDeviceInfo /\ goto("memory", "idle")
     ELSE DeviceInfo' = Updated(DeviceInfo, update.rest) /\ goto("memory", "write")
  /\ autoUnchanged /\ UNCHANGED <<file, synced, fileDirty, overwritten, unapplied, clobbered>>

\* The first of two writes, and the second one with the network parameters.
AutoWrite(from, to) ==
  /\ at("memory", from)
  /\ file' = DeviceInfo
  /\ overwritten' = (overwritten \/ at("main", "write"))
  /\ unapplied' = TRUE
  /\ goto("memory", to)
  /\ autoUnchanged /\ UNCHANGED <<synced, fileDirty, DeviceInfo, clobbered>>

AutoSync(from, to) ==
  /\ at("memory", from)
  /\ synced' = file
  /\ goto("memory", to)
  /\ autoUnchanged
  /\ UNCHANGED <<file, fileDirty, DeviceInfo, clobbered, overwritten, unapplied>>

\* Seeded fault: the network parameters are not written.
AutoNetwork_NotWritten ==
  /\ at("memory", "network")
  /\ DeviceInfo' = Updated(DeviceInfo, update.network)
  /\ goto("memory", "done")
  /\ autoUnchanged /\ UNCHANGED <<file, synced, fileDirty, overwritten, unapplied, clobbered>>

AutoNetwork ==
  /\ at("memory", "network")
  /\ DeviceInfo' = Updated(DeviceInfo, update.network)
  /\ goto("memory", IF DOMAIN update.network = {} THEN "done" ELSE "write2")
  /\ autoUnchanged /\ UNCHANGED <<file, synced, fileDirty, overwritten, unapplied, clobbered>>

\* Seeded fault: the main loop is not told.
AutoDone_NotTold ==
  /\ at("memory", "done")
  /\ update' = None
  /\ DeviceInfo' = DefaultDeviceInfo /\ clobbered' = FALSE
  /\ goto("memory", "idle")
  /\ UNCHANGED <<file, synced, fileDirty, deviceInfo, handlerVars, radarVars, events>>

AutoDone ==
  /\ at("memory", "done")
  /\ update' = None
  /\ fileDirty' = TRUE
  /\ DeviceInfo' = DefaultDeviceInfo /\ clobbered' = FALSE
  /\ goto("memory", "idle")
  /\ UNCHANGED <<file, synced, deviceInfo, handlerVars, radarVars, events>>

MemoryTask ==
  \/ AutoOpen \/ AutoHead \/ AutoRest
  \/ AutoWrite("write", "sync") \/ AutoSync("sync", "network")
  \/ AutoNetwork
  \/ AutoWrite("write2", "sync2") \/ AutoSync("sync2", "done")
  \/ AutoDone

-----------------------------------------------------------------------------
(* The radar thread: after every twenty rounds or so it sends the           *)
(* sensitivity of its copy again. The request is sent twice; only the       *)
(* second time counts.                                                      *)

radarUnchanged ==
  UNCHANGED <<file, synced, fileDirty, deviceInfo, pc, handlerVars, autoVars, unapplied,
              threadInfo, events>>

\* Seeded fault: having sent another one, the thread sends no more.
FormatRequest_Once ==
  /\ request = None /\ ~undone
  /\ request' = threadInfo.sensitivity
  /\ radarUnchanged /\ UNCHANGED <<radar, undone>>

FormatRequest ==
  /\ request = None
  /\ request' = threadInfo.sensitivity
  /\ radarUnchanged /\ UNCHANGED <<radar, undone>>

SendRequest ==
  /\ request # None
  /\ radar' = [radar EXCEPT !.sensitivity = request]
  /\ undone' = (undone \/ request # radar.sensitivity)
  /\ request' = None
  /\ radarUnchanged

RadarThread == FormatRequest \/ SendRequest

-----------------------------------------------------------------------------
Next ==
  \/ Main \/ Request \/ MemoryTask \/ RadarThread \/ ReadGlobal \/ Crash
  \/ \E u \in Updates : PutUpdate(u)

\* The three threads keep running.
Fairness == WF_vars(Main) /\ WF_vars(MemoryTask) /\ WF_vars(RadarThread)
Spec     == Init /\ [][Next]_vars /\ Fairness

-----------------------------------------------------------------------------
(* Properties *)

\* The memory task has written and not yet told the main loop.
MemoryWrote == pc["memory"] \in {"sync", "network", "write2", "sync2", "done"}

\* When the flag is down the main loop's copy is the file's content, unless it
\* is about to read it, or a writer has not come to setting the flag: the flag
\* goes down before the copy is read, and up after the file is written
\* (main.cpp:617-622).
CleanMeansCurrent ==
  \/ fileDirty \/ MemoryWrote \/ pc["main"] \in {"refresh", "sync", "dirty"}
  \/ deviceInfo = readDeviceInfo(file)

\* The radar is set as the record says, but for the sensitivity once the radar
\* thread has sent its own.
SetAs(info) ==
  /\ radar.radarBaudRate = info.radarBaudRate
  /\ radar.radarProtocol = info.radarProtocol
  /\ undone \/ radar.sensitivity = info.sensitivity

\* The radar is set as the file says, through every handler that changes the
\* baud rate, protocol or sensitivity, unless autoconf wrote the file since
\* (CommProt.cpp:1347, 1397, 1515, webservices.cpp:735, 760, 784); the sensitivity only
\* until the radar thread sends that of its own copy (radar.cpp:639-649).
RadarFollowsFile == at("main", "loop") /\ ~unapplied => SetAs(readDeviceInfo(file))

\* Once nothing is changed any more, a radar thread whose copy is that of the
\* file, because the file is as it was at the start or the radar has been
\* configured since (radar_autoconf, RAC), has the radar at the file's
\* sensitivity for good, although a request of the old one may have been on its
\* way (radar.cpp:80, 639-649).
SensitivitySettles ==
  <>[](threadInfo.sensitivity = readDeviceInfo(file).sensitivity
         => radar.sensitivity = readDeviceInfo(file).sensitivity)

\* What a user of this level may change: only the administrator changes the
\* radar, the panels, the dimming table and the units, and another user's
\* password, lower case aside.
AdminFields == RadarFields \cup {"panelsConfiguration", "autoDimming", "unitType"}
Lawful(l, a, b) ==
  l = Admin \/ /\ \A f \in AdminFields : a[f] = b[f]
               /\ \A f \in PasswordFields : f = PasswordOf(l) \/ lowercase(a[f]) = lowercase(b[f])

\* A handler's write changes the file only as its user may, unless the memory
\* task wrote between the handler's read and its write.
ChangesAreLawful ==
  [][at("main", "write") /\ pc'["main"] = "sync" /\ ~overwritten =>
       Lawful(level, readDeviceInfo(file), readDeviceInfo(file'))]_vars

\* A loss of power takes away nothing that was answered or taken over: only a
\* write whose Sync has not returned can be lost (FileRoutines.cpp:145-160).
AnsweredIsDurable ==
  [][Crash =>
       \/ at("main", "sync") \/ pc["memory"] \in {"sync", "sync2"}
       \/ readDeviceInfo(file') = readDeviceInfo(file)]_vars

\* autoconf takes over what the update file sets, unless the global record was
\* read again, or the file written by a handler, on the way
\* (FileRoutines.cpp:598-796).
TakenOver(u) ==
  LET info == readDeviceInfo(file)
      off  == {"displayBrightness"}    \* bit 7 depends on what was stored
  IN  /\ \A f \in DOMAIN u.head \ off : info[f] = u.head[f]
      /\ \A f \in DOMAIN u.rest : info[f] = u.rest[f]
      /\ \A f \in DOMAIN u.network : info[f] = u.network[f]

AutoconfTakesOver == at("memory", "done") /\ ~clobbered => TakenOver(update)

\* The main loop gets to know of every change, whoever made it.
SettingsReachMain == []<>(deviceInfo = readDeviceInfo(file))
=============================================================================
