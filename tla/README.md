# Verification of the MonitorSystems controller

The controller (`src/ControllerModule`) is one Linux process that drives a
roadside LED sign: it reads a radar, shows speeds and pictures on LED panels,
dims them by ambient light, stops them at low supply voltage, logs vehicles, and
is configured by a host program over a serial line or TCP, by USB sticks and by a
web server. This directory holds TLA+ models of its parts, the TLC
configurations that check them on small instances, and proofs that `tlapm`
checks for every value of the constants.

All paths below are relative to `src/ControllerModule`.

## Inventory

| Component | State it keeps | Operations | Interacts with |
|---|---|---|---|
| **Display pipeline** `src/VMSDriver.cpp`, `Common/src/pwm.cpp`, `Common/src/spi.cpp` | `VMSBitmap`, `spi_buff`, `spi_buffLen`, semaphores `displayLock`, `displayUpdate`, the transfer buffer of `spi`, the panels' shift registers and latches | draw, `VMSDriver_UpdateFrameFast`, `VMSDriver_Clear`/`Off`, `displayThread`, `VMSDriver_LockDisplay`/`UnlockDisplay` | shared by main loop, display thread, voltage monitor and memory task |
| **Voltage monitor** `src/main.cpp` `readVoltageThread` | filtered voltage, `lowVoltCounter`, `disablePWM` | sample, stop and start the PWM | holds `displayLock` while the PWM is stopped |
| **Host protocol** `src/CommProt.cpp` | one session (`ActiveChannel`, `UserLoggedOn`, `UserLevel`, `UseEncryption`, `ExpectedSentenceNum`), `LastSentSentence`, buffers per channel, file position | `processStream`, `processSentence` and about fifty commands, `KeepAlive`, `resetChannel` | called by the main loop for each channel |
| **Channel exchange** `src/main.cpp`, `Ethernet/TcpInterface.cpp` | serial line, listening socket, the one TCP socket | `ExchangeUARTData`, `ExchangeTcpData`, accept, close | the protocol, the hosts |
| **Radar** `src/radar.cpp` | `LastSpeed`, `LastSpeedTime`, `LastDisplayedSpeed`, sentence buffer, its own copy of the device info | bytes in three protocols, `Radar_DetermineSpeedForDisplay` (from two threads), sensitivity sent periodically, reset of a silent radar | main loop, its own thread, protocol handlers |
| **Speed display** `src/main.cpp` `speedShow`, `animationShow`, `DisplaySpeedToScreen` | frame index, blink state, displayed speed | choose and draw the next frame | radar, display pipeline, vehicle log |
| **Brightness** `src/main.cpp` `DoAutoDimming`, `readLuxThread`, `Common/src/pwm.cpp` | filtered light, duty cycle | filter, dim, `setPwmDuty` | main loop, start sequence |
| **Memory task** `src/FlashDriveTask.cpp` | sticks present, copy complete, card status | look for sticks, mount, move files, update the configuration | display, configuration |
| **Configuration and logs** `src/FileRoutines.cpp` | `DeviceInfoS.dat`, bitmaps, `library.vil`, logs, vehicle counts, the global `DeviceInfo` | read and write device info, `autoconfFromCard`, bitmaps, library by pages and by index | every thread, without a lock |
| **Schedules** `src/main.cpp` | `bStandby` | `IsWithinInterval`, `IsWithinDateInterval`, `UpdateStandbyMode` | main loop |
| **Panel map** `src/VMSDriver.cpp` | none | `LogicalPanelToPhysical`, sizes and layouts of 20 panel configurations, `VMSDriver_RenderBitmapToPanels` | display pipeline |
| **System utilities** `src/SystemUtilities.cpp` | the directory list, mask and place of `ffind` | `ffind`, the clock field by field, delay | listings, schedules |
| **Event loop** `gnode/` | pending reads, writes, timers, sockets, jobs | `proc_events` of each | web services, from the main loop |
| **Web services** `src/webservices.cpp`, `src/http.cpp` | salts, tokens | logins, requests that read and change configuration, pictures, files, clock | event loop, configuration |
| **Web pages** `html/js` | the picture in the editor | draw, save, choose from the library | web services |
| Camera, UDP, peripheral wrappers, cryptography, JSON, system scripts | | | not modelled, see below |

### What is hard

* **Threads without a common lock.** The display semaphore is waited for in one
  thread and posted in another; `VMSDriver_Clear(true)` uses the panels without
  it; three threads fill the same SPI transfer buffer; the radar's globals are written
  by one thread and read by two; the configuration file is rewritten under its
  readers.
* **Waiting for hardware.** `waitPwmOff` polls a pin that changes only while the
  PWM runs, with the display lock held; the main loop waits for that lock, and
  while it waits nothing else of the controller runs.
* **One session for all hosts.** Two channels, a TCP connection that comes and
  goes, encryption that is switched on by one request and off by another, and
  repeated, lost and garbled sentences meet in a handful of globals.
* **One file, many copies.** Every handler reads the whole device info, changes its
  copy and writes it back; the main loop keeps a copy, the radar thread one that it
  never reads again and sends the radar settings from; the memory task works in a
  global record that the vehicle log and the library read over; power may go at
  any time.
* **Statics and clocks.** Two listings share the statics of `ffind`; tokens expire
  by a clock that their users may set; the time is read field by field.
* **Limits.** Full output buffers drop responses silently; the incoming length is
  unsigned; animation frames are counted from 0 and from 1; schedules span
  midnight and the turn of the year; one picture is addressed by bit, hex digit,
  base64 character and pixel.

### What makes each component correct

* Display pipeline: the lock is never held twice nor lost; a buffer is read only
  when complete; a picture is sent once, and when it has been sent the panels show
  it whole, whatever other threads have left in the transfer buffer; nobody with the
  lock hangs on a stopped PWM.
* Protocol and exchange: a file arrives complete and in order over a line that
  loses, repeats and garbles; a user is logged on only over a channel that owns
  the session; requests are answered; a new connection starts afresh; buffers
  stay within their bounds.
* Radar and speed display: a vehicle that stays is shown, its number is the chosen
  speed within the limits, and it is taken off in time, whatever settings are saved
  meanwhile; every picture of the idle animation comes up.
* Brightness: the duty cycle follows the light, stays within its limits, and a
  stopped PWM stays off.
* Configuration: the copy of the main loop is current or known to be old, every
  change reaches it, the radar is set as the file says as far as the radar thread
  lets it, each field is changed only
  at the level it requires, and a loss of power takes away nothing that was
  answered.
* Schedules: stand-by is what the entries mean by the calendar.
* Panel map and digits: each pixel is seen where it was drawn, a number can be read.
* Web services: a session lives as long as promised, whatever happens to the clock;
  listings are complete; pictures come through every conversion as they were meant.

## Modules

### FrameHandoff, DisplayPipeline

`FrameHandoff` is the abstract specification of the frame interface: pictures
are submitted one at a time, each is taken for transmission once and unchanged,
and while the voltage monitor has suspended the display nothing is submitted.

`DisplayPipeline` has the main, display, voltage and memory threads (`pc["main"]`,
`"disp"`, `"volt"`, `"usb"`), and one action per statement that touches shared
state: `UpdateLock`, `UpdateSetLen`, `UpdateMalloc`, `UpdateMemcpy`, `UpdatePost`
are the five statements of `VMSDriver_UpdateFrameFast`; `DispWait` to
`DispUnlock` the body of `displayThread`; `WaitPwmOff`, `SpiZero`, `SpiCopy`,
`SpiTransfer`, `SetDisplayLE`, `ClearDisplayLE` are `SpiSendPanel`, which three
threads run. `tx` is the member `_tx` of the one `spi` object, in two halves: each
thread zeroes it, copies its picture half by half and hands it to the driver, and
another one may do the same in between (`sent` is then `Torn`). `shiftReg`, `outputs`
and `bufLE` are the panels: while the latch enable line is high the outputs follow the
shift registers. Pictures are model values; `Torn`
is a half-drawn one, `Junk` memory that holds no picture (not yet filled, or
freed). `Boot` is the start-up of `main`: `VMSDriver_Initialize` creates the
display thread with `displayUpdate` at 1, one wake-up without a frame, and
`sleep(5)` separates it from the first frame. The constant `SettledStart` says
that these five seconds are enough for the thread to use that wake-up up; with
`Boot_NoSleep` the buffer is read before it is filled, so the sleep is what makes
the pipeline correct. `StoppedPinHigh` is the level the monitored pin has while
the PWM is stopped, which the code does not determine.

`HandoffSpec` states that `DisplayPipeline` implements `FrameHandoff`. In the
refinement mapping the waiting picture is the buffer from the post of
`displayUpdate` until the display thread has copied it, and the owner is the
frame in flight, the monitor or nobody.

### CommProt, FileTransfer, CommSession

`CommProt` has no variables: `ProcessSentence(s, last, c, m)` is the set of
results that processing sentence `m` on channel `c` can have in session `s`,
with the early returns of `CommProt_processSentence` in their order (the textual
`LOF` and `GDT` tests before decryption and checksum, the duplicate test before
the checksum, the channel test after it). Of the commands for logged-on users
there is one that can be repeated safely (`GFI`, start of a file), one that
cannot (`CFI`, next part), `SEP`, which resets its own channel, and `LOF`. A
text that is decrypted though it was sent plain, or the reverse, has no fields
or arbitrary ones (`Readings`).

`CommSession` puts the main loop, the serial line, the TCP connection and the
hosts around it. An exchange with a channel - read a sentence, process it, write
what fits of the output buffer - is one step, since the main loop is one thread;
`turn` alternates between the TCP and the serial part. Lengths are counted in
sentences: `BufSize` stands for `COMM_BUFFER_SIZE`, `WriteSize` for
`MAX_COMM_SENTENCE_LENGTH - 1`, and `IncommingBufferLength` is unsigned modulo
`LengthMod`. `AcceptTcp`, `TcpWrite` and `NoConnection` are the accept and close
logic of the loop: the socket is given up only when a write fails with errno 104.
The serial line loses and garbles (`Lose`, `Garble`: another number, wrong
checksum; garbled commands are not distinguished from garbled numbers).

The hosts are external. They do what the protocol expects: numbered requests,
one at a time, repeated until the response with the same number comes, beginning
on a quiet line. A host that fetches a file keeps the numbers of the parts in
`got`.

`FileTransfer` is the abstract specification of what a host gets from all this,
without sentences, numbers, sessions, buffers or lines: it forgets an old file,
asks, takes the next part as long as parts are missing, and is done with the last
one or gives up. `FetchSpec` states that `CommSession` implements it; in the
refinement mapping a host is fetching while it waits for the answer to `GFI` or
`CFI`. Where `FileIntact` is about what a host has, this is about its steps: while
it fetches, what it has is only extended, and what it takes for the end of the file
is the end.

### SpeedDisplay

The path from a reading to a number. `Hold` to `ZeroLast` are the statements of
`Radar_DetermineSpeedForDisplay`, which the main loop runs in every pass and the
radar thread after every reception, without a lock; `Report` and `ReportTime`
are the two assignments of a reading. `PassBegin` is the start of a pass of the
main loop, and a pass ends with one of `ShowStandby`, `ShowSpeed`, `ShowCorners`
and `ShowAnimation`, which are `speedShow`, `cornerShow` and `animationShow` with
the choice of `DisplaySpeedToScreen` as their guard. They use state of the main
loop only and are one step each, but for two globals of `animationShow` (see below). `screen` is what was drawn last: a number, the
index of an image, lit corners.

Points of time are modelled by their age in ticks. A tick comes when both threads
are idle and the main loop has made a pass: a pass takes less than a tick.
`currentFrameStart = 0` is the greatest age, since `GetTickCount() - 0` exceeds
every duration. `LastSpeedTime = 0` is `Never`, whose `TicksElapsed` is 0, as in
`Common/src/timer.cpp:13`. Within a tick `now == currentFrameStart` may or may
not hold in later passes: the tick count is a `float` of seconds and gets coarse
with the uptime.

The settings are there three times: in the file (`stored`), in the main loop
(`deviceInfo`, read again in `PassBegin` when `fileDirty` is up) and in the radar
thread (`radarInfo`, read once). `RequestSaves` is a handler that saves, between two
passes: it may set `CurrentlyDisplayedSpeed` to -1, as those of limits, blinking
and framesets do, or call `Radar_Init`, which sets `LastDisplayedSpeedTime`.
`FileSaves` is the memory task taking over an update file, at any time. The
animation writes its number of frames and their length in two statements
(`BeginAnimation`, `ShowAnimation`), between which the radar thread may multiply
them. Both speed framesets share mode and images here. `TestModeDuration` is 0.
`Radar_AutoConf` is left out here: it keeps the main loop for 2.4 seconds and more,
while a pass is less than a tick; a number stays on the sign for so much
longer. Its effect on the radar thread's copy is in `ConfigStore`.

Two facts come out of the model that no run is spent on: with
`speedDisplayMode` 2 a new speed that arrives when the old frame is due shows the
image before the number, because `duration` is taken before the frame is
restarted (main.cpp:1094); and a reading that arrives between the test and the
assignments of radar.cpp:485-488 is zeroed with the old one.

### DeviceInfo, HostCommands, WebRequests, ConfigStore

`DeviceInfo` is the stored record with its default values, and what a handler does
with it: an answer, what it shows of the record, the fields it sets, and the calls
it makes (`radar` is `Radar_Init`, `redraw` the number that is drawn again).
`HostCommands` has one operator per request of the host, with the parameters it
needs, its level, ranges and what stands in for a missing parameter (the text is
not cut at the end of the parameters: the sentence number and the checksum follow).
`WebRequests` has one per web service, and one per parameter of `change_param`.

`ConfigStore` has those who use the file as processes. A handler is two steps, the
read with all the calls (`Handle`) and the write (`SaveWrite`), because the memory
task may write in between; `SaveSync` and `SetDirty` follow. `Refresh` lowers the
flag and `RefreshRead` reads the copy. `AutoOpen` to `AutoDone` are
`FileRoutines_autoconfFromCard` in the memory task: read into the global
record, take over the head, the rest, write, sync, take over the network, write and
sync again, rename the file and raise the flag. `ReadGlobal` is the vehicle log or
the library, which read the file into the same global record. `Crash` leaves the
file as written or as last synced. `FormatRequest` and `SendRequest` are the radar
thread's periodic `#set_sensitivity`, from its copy `threadInfo`: read at the start, and
again only by `Radar_AutoConf` (`SetRadar`), which another thread runs while a
request may be formatted and not yet sent. Variables without a counterpart in the code
(`overwritten`, `unapplied`, `clobbered`, `undone`) tell when a property makes no promise.

### PanelMap, Numbers, Panels

`PanelMap` translates the tables of sizes and layouts, `VMSDriver_PixelOn`,
`RenderBitmapToPanels` and `LogicalPanelToPhysical`; a picture is a set of pixels,
the buffer a set of lamps. `Numbers` is `VMSDriver_WriteSpeed`: where each digit of
each font goes and which columns and rows it takes. The glyphs are abstracted to
the columns and rows they have.

`Panels` is their use: the main loop clips with the copy of the device info,
`RenderBitmap` lays out with what is in the file, the display thread sends with
what is in the file then, and a handler or the memory task changes it in between.
`LampAt` and `Seen` are the sign as built, the reference for `InPlace`.

### Schedule, Conditions

`Schedule` has the tests of the code and, apart from them, what they mean
(`InForce`, `OffDuty`, by the calendar). `Conditions` is the once-a-second part of
the main loop (stand-by, test mode, counters), the camera's mode by brightness,
and the dimming thread with the last entry of its table in `PWMDutyCycle` meanwhile. The
time is read field by field: `Torn` is what it may read while the minute turns.
`mktime` reads a field that is not initialised: `Shifts`. `TestModeDuration` counts
down once a second, the clock's seconds themselves are not modelled.

### WebSession, Listing, Pictures, Store

`WebSession` has salts and tokens with the time they have left; `SetSystemTime` is
the user's own change of the clock, which prolongs the user's token, and
`processTIM` the host's, which does not. `clear_expired_salts` walks on from an
element it has erased; `EndedByExpiredSalt` is the process ending there and being
started again. `Listing` has `ffind` with its statics, the host's `GDL` and `CDL`,
the browser's `list_folder` and files that come and go; the shell's `ls` is
external. `Pictures` has the conversions and the library by page and by index.
`Store` composes them: the host writes a picture, users open, draw, choose from
the library and save; the configuration and the library change in between. The
users of the web pages are external. What a writer meant is carried along
(`meant`), for the bits it has meant anything by.

### Proofs

`DisplayPipelineProofs`, `CommSessionProofs`, `SpeedDisplayProofs`,
`ConfigStoreProofs`, `PanelMapProofs`, `PanelsProofs`, `ConditionsProofs` and
`StoreProofs` extend their modules and hold the theorems; see "What is proved".

## Runs

| Run | Instance | Shows |
|---|---|---|
| `display_frames` | two pictures, limit of two low samples, no sticks, fairness | `IInv`, `LockHandedOver`, `BufferCompleteWhenRead`, `NoPollOfStoppedPwm`, `PictureAtRest`, `HandoffSpec`, `LastFrameShown` hold |
| `display_usb` | one picture, sticks, pin low when stopped, fairness | `ControlReturned`, `UpdateGetsThrough` hold with a fourth thread drawing without the lock |
| `comm_serial` | serial host, losses, garbling, both encryptions, `GFI` and `SEP` | `TypeOK`, `TransferInStep`, `FetchSpec` hold |
| `comm_both` | both hosts, failed logins, disconnections, a buffer of three sentences written two at a time | `SessionOwned`, `FileIntact`, `TransferInStep` hold |
| `comm_transfer` | serial host, losses, fairness | `TransferCompletes` holds |
| `comm_login` | TCP host, fairness | `LoginAnswered` holds |
| `comm_reconnect` | TCP host, fairness | **`WaitingHostAccepted` fails**: an orderly close is not noticed |
| `speed_display` | two speeds, from mph with one image to km/h with two images and two idle pictures, or saved unchanged, fairness | `NumberInLimits`, `NumberIsChosen`, `StaleTakenOff`, `VehicleShownWithImage`, `EveryPictureShown` hold |
| `config` | every request and service with the parameters its branches tell apart, update files for both signs, two events, fairness | `CleanMeansCurrent`, `RadarFollowsFile`, `AutoconfTakesOver`, `ChangesAreLawful`, `AnsweredIsDurable`, `SettingsReachMain`, `SensitivitySettles` hold |
| `panels` | seven signs of one to four rows, every font, one change of the configuration | `InPlace`, `NumberReadable`, `OneStaleFrame` hold |
| `conditions` | moments around the edges of schedules; tests; light and settings; fairness | `TestShown`, `StandbyAsScheduled`, `BrightnessFollows`, `CameraFollows` hold |
| `store` | six scenes of logins, clock, directories, pictures and library | `SessionKept`, `ListingWhole`, `PicturesAsMeant`, `ListedIsRead` hold |

The failing run checks what a comment of the source says; the finding in
`PROJECT.json` quotes it. Every property of a passing run has a mutant: an
operator of the model with a plausible bug (named `<Operator>_<Bug>`, beside the
operator it changes), with which the run finds the property violated.

### Bounds, and why they are enough

* **Display.** Two pictures tell an old one from a new one; `OneFrame` is used
  where only the presence of a picture matters. `LowVoltLimit = 2` shows the
  counter below and at its limit (30 in the code). There is one buffer and there
  are two binary semaphores, as in the code; no other counter needs a bound. Two
  halves of the transfer buffer are enough to hold pieces of two pictures.
* **Protocol.** `NChunks = 2` is the least number of parts for which order,
  repetition and omission differ; `MaxNum = 5` sentence numbers are a whole
  session for it: `GDT`, `LGN`, `GFI`, `CFI`, `LOF`. `LinkCap` sentences are in
  flight in one direction; a host waits for its answer, so more only come from
  repetitions. `BufSize` of two sentences makes the output buffer hold a response and
  keep-alive bytes, and overflow. `LengthMod = 16` is well above every length that
  does not wrap around. `BufferAssumption` is a relation of the code's sizes that
  matters: 1536 bytes (`COMM_BUFFER_SIZE`) are written by two calls of at most 819
  (`MAX_COMM_SENTENCE_LENGTH - 1`). With three sentences written one at a time
  responses stay in the buffer over a change of the connection - a new connection resets
  the serial channel only -, and TLC finds a second Ethernet host that reads on in
  its predecessor's file (54 steps); `HostsInStep` rests on it. `comm_both` has three written
  two at a time.
* **Speed.** A tick is about a second: with the default durations blinking takes
  one tick, keeping two and updating none, or one in the second setting. Of the two
  speeds one is shown in the lower frameset in mph and the other is above all limits;
  in km/h both are in the upper one. The sign starts with the setting in mph (`Factory`), and
  `MaxSaves = 1` time one of the two is saved, so that the radar thread's copy is the
  old one and an index, a number and a frame of the old setting meet the new one; more
  changes, from every setting to every other one, are in the proofs. Ages saturate at `MaxAge = 3`, the
  first age the properties exclude, that of a frame at `MaxFrameAge = 1`, the longest
  duration of a frame. `MaxReports = 1` reading per tick. Stand-by changes once in a
  tick. `Wide = 256` stands for 2^32.
* **Configuration.** `MaxEvents = 2`: two of request, update file and loss of power,
  so that each meets each, at every step of either. The radar thread may send at any
  time, not only after twenty rounds. Tables have two entries
  (`MAX_FRAMES`, `MAX_SCHEDULES`, `Framesets`, `DimmingEntries`): the first, the last,
  and one too many. Lengths and passwords are small numbers.
* **Panels.** `MCSigns` has one to four rows, two to five columns, upright and lying
  panels, panels left out in front, and each font at a place where it fits. The
  number 85 has two digits that differ and fill all columns. The image has pixels
  in every panel. `MaxChanges = 1` change of the configuration; what more of them
  may do is proved, not run.
* **Conditions.** A world is chosen at first, so that what does not interact is not
  multiplied: moments one minute to either side of the edges of an interval
  over midnight and the turn of the year, around 29 February, and days within and
  outside of periods; tests of 1 to 3 seconds with two pictures; two
  levels of light and settings with and without dimming. `UpdateEvery = 1` stands for 30
  seconds, `ResendEvery = 2` for 600.
* **Store.** Scenes likewise. `SaltLife = TokenLife = 1` and `UseLife = 3` stand for 60, 60
  and 180 seconds, `Jumps` of two in both directions are longer than the
  one and shorter than the other, `Horizon = 7` is more than the clock can be set
  back in all. Two names fit into an answer (`PerAnswer`) and into a page of the
  library (`PageSize`), of directories and libraries with three or four.

### Fairness

* **Display.** Weak fairness of each thread's own steps: no thread is suspended
  for ever by the scheduler. `UpdateFrameFast` has strong fairness because it
  waits for a semaphore that others take in between; a Linux semaphore wakes its
  waiters, and the voltage monitor sleeps between its samples. Drawing, voltage
  drops and sticks being inserted have none.
* **Protocol.** The main loop alternates between its channels (weak), and a
  sentence repeated again and again is read at some time (strong fairness of
  reading and receiving): a line may lose any sentence, but not every one. Hosts
  repeat a request that is not answered. Connecting, giving up, losing and
  garbling have none.
* **Speed.** Both threads go on (weak) and the clock ticks (strong, since the
  tick is only enabled between passes). Readings, saved settings and the schedule
  have none: `VehicleShownWithImage` speaks of a speed the radar keeps reporting.
* **Configuration, conditions.** The main loop and the other threads go on (weak): the
  radar thread waits at most 500 ms in `select`, so that it comes to send again. In `Conditions` a second passes in the end (weak). Requests, update files,
  light and losses of power have none.

## What is proved

`tlapm` checks every proof; nothing is assumed but the named assumptions on the
constants, which TLC evaluates in every run.

* **DisplayPipeline** (`SettledStart` assumed in each theorem): `Invariance`
  shows that `IInv` is inductive. `LockHandedOver` alone is not: that the display
  thread posts the lock only for a frame in flight needs `CreditState` (a wake-up
  exists only for a frame whose buffer is filled), which needs `BufferState`
  (what the buffer holds in each step of the update), and that the monitor owns
  the lock whenever the PWM is stopped is `PwmState`; `ControlState` counts the
  memory task's display control. From `IInv` follow `TypeCorrect`,
  `LockExclusive`, `ReadsCompleteBuffer`, `PollsRunningPwm`, and `Refinement`:
  initial states map to initial states of `FrameHandoff`, and every step to a
  submission, a take, a suspension, a resumption or a stutter. `FrameArrives`
  (without sticks, `~UsbSticks`: with them the memory task clears the same bitmap)
  proves `PictureAtRest`. Transfer buffer, bus and latch line have no lock, but as long
  as the bitmap is the frame that main drew last, main itself does not use them, since
  `Clear` blanks the bitmap first: from its wake-up for that frame on only the display
  thread does, and each of its steps leaves the whole frame one place further on
  (`RestInv`).
* **CommSession**: `LoginOwned` proves `SessionOwned` for every number of parts,
  every buffer size and every behaviour of hosts and lines; its invariant is about
  the session record alone. `TypeCorrect` is `TypeOK`. `FileIntactHolds` and
  `TransferInStepHolds` state the properties of the runs for the hosts on both channels:
  a line that loses, repeats and garbles, connections that come and go, and two hosts
  that break into each other's session. They follow from `HostsInStep`, whose invariant
  has two layers. `ChannelInv` follows one number through request, session, stored
  response and host: a stored confirmation or part belongs to the number before the
  expected one (`KeptInv`); requests on the line are not newer than the host's
  (`RequestsInv`); no part of an old file follows the answer to a login (`LoginInv`);
  parts on the way are old or the one waited for, and the file position agrees with the
  host's count (`FileInv`). It counts as on the way what is still in the output buffer
  (`Pipeline`). `EthernetInv` is about that buffer, which outlives the connection:
  without a connection nobody is at the other end (`ConnInv`); keep-alive bytes fill it
  only then, so that only answers to the next host's first request are dropped
  (`FullInv`); it holds one response at most, where the next call takes it (`OneInv`,
  from `BufferAssumption`), and no file has been read since if that confirms a login
  (`PendingInv`). The other channel can only take the session away (`Elsewhere`). The
  hypothesis `"missing" \notin Logins` says that a host sends a password with its
  login, as one that wants to log in does: without one the session changes hands with
  the response of an earlier one still stored. `FetchRefinement` proves `FetchSpec`
  under the same hypothesis: initial states map to initial states of `FileTransfer`,
  every step of a host to a step of it or a stutter (`FetchReceived` is the case that
  needs `HostsInStep`: the response a host takes for a part carries the next one),
  and steps of controller, line and connections to stutters.
* **SpeedDisplay**: `TypeCorrect`, `NumberLimited` and `NumberChosen`, for all
  settings, speeds and bounds. `NumberInv` joins the two properties: a pass that
  starts no frame keeps the number of an earlier pass, so that each needs the
  other. The arithmetic is `KphWithinLimit`: the rounded number of a
  speed is at most the limit if the speed is at most the truncated limit, and at
  least the limit otherwise. `StaleNumberGoes` proves `StaleTakenOff`: the ages of the last
  reading and of the last number are tied to the place of both threads, and a number
  stays no longer than keep time and update time together (an update time of 0
  counts as the tick in which the pass runs). The limits are those of the main loop's
  settings, the radar thread's own and the animation as the two globals have it, whichever
  are the longest, and age is counted anew when they change (`quietAge`).
* **ConfigStore**: for all requests, parameters, tables and contents of the file, and
  any number of losses of power. `IInv` adds to `CleanMeansCurrent` that only a write
  whose Sync is to come is unsafe (`SyncedUnlessWriting`), and that a handler about to
  write has already set the radar to what it writes and writes what its level
  allows (`WriteFits`), since the radar is set before the write. `Agrees` leaves out the
  sensitivity once the radar thread has sent another one; `RadarWhole` says that its
  requests change nothing else. The lemmas on
  outcomes (`Fits`) go through every request and service one by one. From it follow
  `CleanMeansCurrentHolds`, `RadarFollowsFileHolds`, `ChangesAreLawfulHolds` and
  `AnsweredIsDurableHolds`. `AutoconfTakesOverHolds` follows an update file through the
  three stages in which its fields are written (`HeadFields`, `RestFields`,
  `NetworkFields`): after each stage the file holds that stage's fields, unless another
  thread wrote in between.
* **Panel map and panels**: `PhysicalIsInvolution` (the chain's order undoes itself, so
  it is a permutation), `SizesAgree` (three tables of sizes), `PictureSeen` (layout and
  chain together put every pixel of every picture where the sign has it),
  and from these `InPlaceHolds`, whose invariant says of buffer and queue that they
  hold the picture they are said to hold. `OneStaleFrameHolds` is independent: once
  the main loop has settled, only the queued frame can be of an old layout.
  `NumberReadableHolds` is for every frameset, font, number and configuration, by the
  places and widths of each font.
* **Conditions**: `IntervalTests` and `PeriodTest` show that the comparisons field by
  field mean what the calendar says, for all entries; `StandbyAsScheduledHolds` rests
  on them, on the arithmetic of weekdays and on the table of month lengths, which
  is wrong only before 1 March of a leap year. `TestShownHolds` is for all pictures
  and durations.
* **Store**: `SessionKeptHolds` (`AliveInStep`: the time a token has left is its life less
  the time it was idle), `ListingWholeHolds` (`AtPlace`: where `ffind` is, against what
  was told), for every number of browsers, directories, names and sizes of an
  answer. `PicturesAsMeantHolds` and `ListedIsReadHolds` rest on `PicturesInv`: library,
  files of the card and browsers' editors each hold what was last meant for them, and
  a list that host or browser works from is that of the library it was read from.
  The lists are filtered by a recursive function; that it keeps the order and leaves
  nothing out is proved by taking the least place where it would not. Both assume
  libraries whose entries have names, and the first that no two images of one have the
  same: the upload of a library checks neither, and with an empty or repeated name
  a place in the list is another picture's. The conversions are proved for every picture: `HexRoundTrip`,
  `Base64RoundTrip`, `HostWrites`, `BrowserWrites`, `BrowserShows`, `LibraryImageShown`
  (for a library of the display's size), where a run tries few of the 2^2880.

The assumptions are `ConstantsAssumption`, `ProtocolAssumption`, `BufferAssumption`,
`SettingsAssumption`, `AgesAssumption`,
`TableAssumption`, `BoundAssumption`, `PanelsAssumption`, `ConditionsAssumption`,
`ListingAssumption`, `PageAssumption`, `StoreAssumption`, `LibraryAssumption` and the two
`SessionAssumption`s: types of the constants, that update files set no passwords
(the code has no key for them), and that the listing tool prints each name once.

Every safety property of a run is the subject of a theorem. Only model-checked: all
liveness properties (`LastFrameShown`, `ControlReturned`, `UpdateGetsThrough`,
`TransferCompletes`, `LoginAnswered`, `VehicleShownWithImage`, `EveryPictureShown`,
`SettingsReachMain`, `SensitivitySettles`, `BrightnessFollows`, `CameraFollows`), as `tlapm` cannot prove them.

## What is not modelled

* The contents of pictures in the display pipeline: drawing produces a model value
  there; in `Panels` glyphs are their columns and rows.
* The queries of the protocol for logs, statistics, versions and counters, and the file
  commands but listing and deleting: they read files that nothing else reads.
* The bytes of the radar protocols, the reset of a silent radar, the intensity. The
  main loop's `Radar_Init` resets the length of the incoming sentence while the
  radar thread stores into it, `Radar_AutoConf` reads the same bytes as that
  thread (radar.cpp:140, 164) and replaces the shared pointer `radar_uart` under it.
* Writes to the card that fail or stop half-way: nothing looks at their results.
* Mounting sticks, copying files and the capacity of the card.
* The light meter's filter, the voltage filter.
* Camera, UDP messages between tasks, peripheral wrappers: input and output
  without state of their own. `CreateCameraTask` is not called (main.cpp:570).
* The event loop of `gnode/`: the web services finish a request in one callback on
  the main loop's thread, which the models take as one step.
* AES, MD5, Diffie-Hellman, JSON and HTTP parsing: vendored. The protocol model
  treats an encrypted text as unreadable without the key.
* The web pages but the picture editor; the system scripts.
* Wrap-around of the uptime: `LastDisplayedSpeedTime` is 32 bits wide on the ARM
  build, and after 49 days the update delay no longer applies.

The following inputs are left out, as the code does not check them: schedules with a
weekday above 6, a negative or more than daily duration; negative durations of a
test; `SSC` with more entries than the table has; empty names in a library.

### Facts of the code that no run is spent on

Where the code differs from what a comment of it says:

* `VMSDriver_Clear(true)` takes no lock: a frame in flight is latched after it and the
  sign is not dark (VMSDriver.cpp:842), or, as both fill the buffer of `spi::write`
  (Common/src/spi.cpp:104), the sign shows a mixture of the two until the next frame.
* A stored response begins with 0x19, so that the comparison with `$CHK` never
  matches, and a stored checksum error is sent again (CommProt.cpp:482).
* Accepting a TCP connection resets the serial channel (main.cpp:839).
* Without images in the speed framesets, as by default, a number is only drawn when
  it differs from the last one drawn: a cleared one stays off (main.cpp:1158).
* `autoconfFromCard` says that it returns true if the configuration is applied
  (FileRoutines.cpp:596); when the vehicle log or the library reads the file into
  the global record meanwhile (main.cpp:1106), what was taken over is lost.
* Bit 0x80 of the brightness is said to switch dimming (FileRoutines.h:108); `SDL` and
  the page's `display-brightness` do not touch `autoDim`, which is what counts.

Protocol: `displaySem` is taken by the memory task only; `CommProt_checkForTimeout` is
never called; `LGN` sets the user level before an incomplete request returns; after
a `SEP` the unsigned input length wraps around and the next sentence is lost, which
the host's repetition heals; `stopPwm` sets the run flag.

Speed: in the speed framesets the index counts from 1 to the number of images, and the
picture one past the list is drawn (main.cpp:1152); the lower frameset, which resets it,
shows the first two entries only, the upper one all but the first after the first
round. After new settings are
read, the index that the old ones have left is drawn with as long as the clock shows the
same time. The radar
thread selects by the settings of the start until `Radar_AutoConf`.

Configuration: a saved sensitivity is undone by the radar thread within some twenty
rounds of its loop, until the next start or `Radar_AutoConf` (radar.cpp:642); a loss of power after `O_CREAT` leaves an empty file, which is read
as whatever was in the buffer; autoconf does not set up the radar, its
`useAutodimming=0` does not clear `autoDim`, and its dimming table is not used; `RAC`
does not update `SelectedProtocol`; `PSS` stores passwords in lower case, with which
the login of the pages, by MD5, fails; a page refuses a guest's limits, blinking,
name and address, the host protocol accepts them; `SetupEthernetParams`
(main.cpp:1619) has no effect; `delete_schedule_entry` with an id behind the last entry
deletes the last one.

Panels: numbers from 100 on draw the leading one twice in fonts 1 to 5;
configurations 2, 3, 6 and 7 have a layout but no size, numbers are not drawn with
them; with five columns the last place of the chain is read from behind the buffer
of 39 panels; a frame that was queued may be sent after `Clear(true)`.

Conditions: a host's sentence during a test sets `fileDirty`, which clears the sign,
and the test's picture is not drawn again; 1 March of a leap year counts as the day
after 28 February.

Store: a browser's listing disturbs a host's, as they share statics; a file
deleted during a listing truncates it; `GBM` and `GCB` answer with a number one
lower than asked for, and `GCB` with two pictures is longer than its buffer; a `BMP`
that is shorter leaves the rest of the file uninitialised; saving a picture erases the pixels
outside of the current grid; an index behind the last image of the library gives
what was in the buffer; the host's `TIM` changes the clock without prolonging any
session.

## Plan

The order in which the modules were written: display pipeline, protocol session,
speed display, configuration, panels, conditions, store. What is left, the most
important first:

1. **FlashDrive** (`src/FlashDriveTask.cpp`): sticks, mounting, moving files, the card's
   status and capacity. Properties: no file is lost when a stick is pulled out; a
   transfer ends. Composed with the memory task's part of `DisplayPipeline`.
2. **RadarPort** (`src/radar.cpp`): bytes and sentences of the three protocols, with the
   main loop's resets while the radar thread stores; the reset of a silent radar.
3. **EventLoop** (`gnode/`): pending operations, callbacks that change the lists
   they are called from. Property: every request is answered once.
4. **VehicleLog** (`src/FileRoutines.cpp`): counts and statistics over restarts, and the
   requests that read them by parts.
5. The dimming thread together with the voltage monitor: a stopped PWM whose duty
   cycle is still written.

Theorems for later: the step invariants from which the liveness properties would
follow.
