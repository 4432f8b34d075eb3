------------------------------- MODULE Panels -------------------------------
(***************************************************************************)
(* From a picture to the lamps of the sign (src/VMSDriver.cpp, with the    *)
(* callers in src/main.cpp). Three places use the panel configuration:     *)
(*   - the main loop clips a number with the device info it has in memory  *)
(*     (VMSDriver_WriteSpeed), which it reads again when fileDirty is set; *)
(*   - VMSDriver_RenderBitmap reads it from the file, for each picture;    *)
(*   - the display thread reads it from the file, for each frame sent.     *)
(* Command handlers change it between two passes of the main loop; the     *)
(* memory task changes it at any time, and tells the main loop afterwards. *)
(***************************************************************************)
EXTENDS Numbers, FiniteSets

CONSTANTS
  Signs,       \* the device infos a sign may start with: the panel configuration
               \* and where and how numbers are drawn
  NewConfigs,  \* the panel configurations it may be changed to
  Speeds,      \* the numbers drawn
  Images,      \* sets of pixels
  MaxChanges   \* of the configuration

ASSUME PanelsAssumption ==
  /\ Signs \subseteq [panelsConfiguration : Nat,
                      frameset : [x : Int, y : Int, font : 0 .. 5]]
  /\ NewConfigs \subseteq Nat
  /\ Speeds \subseteq Nat
  /\ Images \subseteq SUBSET (Nat \X Nat)
  /\ MaxChanges \in Nat

VARIABLES
  frameset,    \* of numbers, in the device info file and the copy
  stored,      \* panelsConfiguration in the device info file
  deviceInfo,  \* and in the main loop's copy
  fileDirty,   \* the main loop is to read the file again
  memory,      \* the memory task: "idle", or "wrote" and has not set fileDirty
  pc,          \* the main loop
  flashing,    \* theLastMode = CORNERS
  testing,     \* TestModeDuration > 0
  step,        \* of the start sequence
  VMSBitmap,   \* the lamps drawn
  drawn,       \* what they stand for: pixels, the layouts used, a number
  spi_buff,    \* the frame queued for the display thread, or NoFrame
  shown,       \* the frame on the panels, with the configuration sent with
  stale,       \* frames shown since Refresh that were drawn with another one
  changes      \* of the configuration, so far

fileVars == <<frameset, stored, memory, changes>>
modeVars == <<flashing, testing>>
mainVars == <<deviceInfo, fileDirty, modeVars>>
drawVars == <<VMSBitmap, drawn>>
vars == <<frameset, stored, deviceInfo, fileDirty, memory, pc, flashing, testing, step,
          VMSBitmap, drawn, spi_buff, shown, stale, changes>>

NoNumber == <<>>
Nothing  == [pixels |-> {}, layouts |-> {}, number |-> NoNumber]
NoFrame  == <<>>
Dark     == [lamps |-> {}, picture |-> Nothing, sent |-> 0]

Init ==
  /\ \E sign \in Signs : stored = sign.panelsConfiguration /\ frameset = sign.frameset
  /\ deviceInfo = stored
  /\ fileDirty = TRUE
  /\ memory = "idle"
  /\ pc = "start"
  /\ flashing = FALSE /\ testing = FALSE
  /\ step = 0
  /\ VMSBitmap = {} /\ drawn = Nothing
  /\ spi_buff = NoFrame
  /\ shown = Dark
  /\ stale = 0
  /\ changes = 0

-----------------------------------------------------------------------------
(* The start sequence: a diagonal runs over every panel *)

Diagonal(i) ==
  IF i >= VMS_WIDTH + VMS_HEIGHT - 1 THEN {}
  ELSE LET columns == IF i < VMS_HEIGHT THEN 0 .. i ELSE i - VMS_HEIGHT + 1 .. VMS_WIDTH - 1
       IN  UNION {PixelLamps(k + j * VMS_WIDTH, i - k) : k \in columns, j \in 0 .. VMS_PANELS - 1}

\* VMSDriver_UpdateFrameFast waits until the display thread has sent the frame.
UpdateFrameFast(lamps, picture) ==
  /\ spi_buff = NoFrame
  /\ spi_buff' = [lamps |-> lamps, picture |-> picture]

RunStartSequence ==
  /\ pc = "start"
  /\ LET lit == VMSBitmap \cup Diagonal(step)
     IN  VMSBitmap' = lit /\ UpdateFrameFast(lit, Nothing)
  /\ step' = step + 1
  /\ pc' = IF step' = VMS_WIDTH + VMS_HEIGHT THEN "top" ELSE "start"
  /\ UNCHANGED <<fileVars, mainVars, drawn, shown, stale>>

-----------------------------------------------------------------------------
(* A pass of the main loop *)

\* VMSDriver_Clear; the panels are sent the empty buffer if doUpdate.
Clear(doUpdate) ==
  /\ VMSBitmap' = {} /\ drawn' = Nothing
  /\ shown' = IF doUpdate THEN Dark ELSE shown

\* Seeded fault: a new configuration leaves the picture in the buffer.
Refresh_NoClear ==
  /\ pc = "top"
  /\ fileDirty
  /\ fileDirty' = FALSE
  /\ deviceInfo' = stored
  /\ stale' = 0
  /\ pc' = "draw"
  /\ UNCHANGED <<fileVars, modeVars, step, drawVars, spi_buff, shown>>

Refresh ==
  /\ pc = "top"
  /\ fileDirty
  /\ fileDirty' = FALSE
  /\ Clear(TRUE)
  /\ deviceInfo' = stored
  /\ stale' = 0
  /\ pc' = "draw"
  /\ UNCHANGED <<fileVars, modeVars, step, spi_buff>>

NoRefresh ==
  /\ pc = "top"
  /\ ~fileDirty
  /\ pc' = "draw"
  /\ UNCHANGED <<fileVars, mainVars, step, drawVars, spi_buff, shown, stale>>

\* VMSDriver_RenderBitmap: adds a picture, laid out as the file says.
RenderBitmap(pixels, number) ==
  /\ VMSBitmap' = VMSBitmap \cup RenderBitmapToPanels(Layout(stored), pixels)
  /\ drawn' = [pixels  |-> drawn.pixels \cup pixels,
               layouts |-> drawn.layouts \cup {stored},
               number  |-> number]

\* speedShow and animationShow clear the sign for a new frame, and draw a
\* number, an image or both.
NewFrame ==
  /\ pc = "draw"
  /\ ~testing
  /\ flashing' = FALSE
  /\ Clear(TRUE)
  /\ pc' = "number"
  /\ UNCHANGED <<fileVars, deviceInfo, fileDirty, testing, step, spi_buff, stale>>

DrawNumber ==
  /\ pc = "number"
  /\ \E speed \in Speeds :
       RenderBitmap(WriteSpeed(frameset.x, frameset.y, deviceInfo, speed, frameset.font),
                    [speed |-> speed, for |-> deviceInfo])
  /\ pc' \in {"image", "update"}
  /\ UNCHANGED <<fileVars, mainVars, step, spi_buff, shown, stale>>

DrawImage ==
  /\ pc \in {"number", "image"}
  /\ \E image \in Images : RenderBitmap(image, drawn.number)
  /\ pc' = "update"
  /\ UNCHANGED <<fileVars, mainVars, step, spi_buff, shown, stale>>

\* cornerShow flashes the corners, after a clear at first. Where the
\* configuration has no size the corners' place is not initialised.
Corners ==
  /\ pc = "draw"
  /\ ~testing
  /\ flashing' = TRUE
  /\ LET size    == GetDimensions(deviceInfo)
         corners == MakeCornerBitmap(size)
         before  == IF flashing THEN VMSBitmap ELSE {}
         picture == IF flashing THEN drawn ELSE Nothing
         lamps   == RenderBitmapToPanels(Layout(stored), corners)
         with(pixels) == [pixels  |-> pixels,
                          layouts |-> picture.layouts \cup {stored},
                          number  |-> picture.number]
     IN  /\ size.width > 0
         /\ \/ VMSBitmap' = before \cup lamps /\ drawn' = with(picture.pixels \cup corners)
            \/ VMSBitmap' = before \ lamps /\ drawn' = with(picture.pixels \ corners)
  /\ shown' = IF flashing THEN shown ELSE Dark
  /\ pc' = "update"
  /\ UNCHANGED <<fileVars, deviceInfo, fileDirty, testing, step, spi_buff, stale>>

\* VMSDriver_TestMode: every lamp, or an image of the store.
TestMode ==
  /\ pc = "draw"
  /\ testing' = TRUE
  /\ \/ VMSBitmap' = Lamps /\ drawn' = Nothing
     \/ \E image \in Images :
          /\ VMSBitmap' = RenderBitmapToPanels(Layout(stored), image)
          /\ drawn' = [pixels |-> image, layouts |-> {stored}, number |-> NoNumber]
  /\ pc' = "update"
  /\ UNCHANGED <<fileVars, deviceInfo, fileDirty, flashing, step, spi_buff, shown, stale>>

\* Stand-by and the end of a test turn the sign off.
Off ==
  /\ pc = "draw"
  /\ testing' = FALSE
  /\ Clear(TRUE)
  /\ pc' = "handle"
  /\ UNCHANGED <<fileVars, deviceInfo, fileDirty, flashing, step, spi_buff, stale>>

SameFrame ==
  /\ pc = "draw"
  /\ pc' = "handle"
  /\ UNCHANGED <<fileVars, mainVars, step, drawVars, spi_buff, shown, stale>>

Update ==
  /\ pc = "update"
  /\ UpdateFrameFast(VMSBitmap, drawn)
  /\ pc' = "handle"
  /\ UNCHANGED <<fileVars, mainVars, step, drawVars, shown, stale>>

\* A command of a host or of a browser may set the configuration.
HandleCommands ==
  /\ pc = "handle"
  /\ pc' = "top"
  /\ \/ UNCHANGED <<stored, fileDirty, changes>>
     \/ /\ changes < MaxChanges
        /\ changes' = changes + 1
        /\ stored' \in NewConfigs \ {stored}
        /\ fileDirty' = TRUE
  /\ UNCHANGED <<frameset, deviceInfo, modeVars, memory, step, drawVars, spi_buff, shown, stale>>

-----------------------------------------------------------------------------
(* The other threads *)

\* Whether a frame should by now be drawn as the file says.
Settled == memory = "idle" /\ ~fileDirty /\ deviceInfo = stored

\* displayThread: the frame goes out in the order of the chain of panels.
Send ==
  /\ spi_buff # NoFrame
  /\ shown' = [lamps   |-> Stream(stored, spi_buff.lamps),
               picture |-> spi_buff.picture,
               sent    |-> stored]
  /\ stale' = IF Settled /\ ~(spi_buff.picture.layouts \subseteq {stored})
              THEN stale + 1 ELSE stale
  /\ spi_buff' = NoFrame
  /\ UNCHANGED <<fileVars, mainVars, pc, step, drawVars>>

\* Automatic configuration by the memory task
Autoconf ==
  /\ memory = "idle"
  /\ changes < MaxChanges
  /\ changes' = changes + 1
  /\ stored' \in NewConfigs \ {stored}
  /\ memory' = "wrote"
  /\ UNCHANGED <<frameset, mainVars, pc, step, drawVars, spi_buff, shown, stale>>

AutoconfTold ==
  /\ memory = "wrote"
  /\ memory' = "idle"
  /\ fileDirty' = TRUE
  /\ UNCHANGED <<frameset, stored, deviceInfo, modeVars, pc, step, drawVars, spi_buff, shown,
                 stale, changes>>

-----------------------------------------------------------------------------
Draw == NewFrame \/ DrawNumber \/ DrawImage \/ Corners \/ TestMode \/ Off \/ SameFrame \/ Update

Next ==
  \/ RunStartSequence
  \/ Refresh \/ NoRefresh \/ Draw \/ HandleCommands
  \/ Send
  \/ Autoconf \/ AutoconfTold

Spec == Init /\ [][Next]_vars

-----------------------------------------------------------------------------
(* Properties *)

\* The sign as it is built: the chain runs through the rows of panels to and
\* fro, and a panel that lies on its side has its first line at the left.
LampAt(l, x, y) ==
  LET row   == (y \div PanelHeight(l)) + (l.first \div l.cols)
      col   == x \div PanelWidth(l)
      place == row * l.cols + IF row % 2 = 0 THEN col ELSE l.cols - col - 1
      line  == VMS_HEIGHT - 1 - ((IF Landscape(l) THEN x ELSE y) % VMS_HEIGHT)
      bit   == IF Landscape(l) THEN VMS_WIDTH - 1 - (y % VMS_WIDTH) ELSE x % VMS_WIDTH
  IN  place * PanelSize + line * VMS_WIDTH + bit

\* The lamps that show a picture.
Seen(panelsConfig, pixels) ==
  LET l == Layout(panelsConfig)
  IN  {LampAt(l, p[1], p[2]) : p \in {q \in pixels : q[1] < l.width /\ q[2] < l.height}}

\* A picture drawn and sent under the same configuration is seen on the sign as
\* it was drawn, at every pixel that it has room for, and lights no lamp anywhere else
\* (VMSDriver_RenderBitmapToPanels, LogicalPanelToPhysical); the start sequence
\* ends with every lamp on.
InPlace ==
  /\ shown.picture.layouts = {shown.sent} =>
       shown.lamps = Seen(shown.sent, shown.picture.pixels)
  /\ pc = "start" /\ step = VMS_WIDTH + VMS_HEIGHT - 1 => VMSBitmap = Lamps

\* A number of one or two digits that the sign is large enough for is drawn
\* whole, digits apart, if the configuration has not changed meanwhile
\* (VMSDriver_WriteSpeed, with the sizes of VMSDriver_GetDimensions, and
\* the layouts of VMSDriver_RenderBitmap).
Places(n, i) ==
  LET glyph == GlyphOf(frameset.font)[Digit(n.speed, i)]
      x     == DigitX(frameset.font, n.speed, frameset.x, i)
  IN  {<<x + c, frameset.y + r>> : c \in glyph.cols, r \in glyph.rows}

NumberReadable ==
  LET n      == shown.picture.number
      units  == Places(n, 0)
      tens   == IF n.speed < 10 THEN {} ELSE Places(n, 1)
      l      == Layout(n.for)
  IN  \/ n = NoNumber
      \/ n.speed \notin 1 .. 99 \/ GetDimensions(n.for).width = 0
      \/ ~(units \cup tens \subseteq (0 .. l.width - 1) \X (0 .. l.height - 1))
      \/ /\ units \cap tens = {}
         /\ units \cup tens \subseteq shown.picture.pixels

\* After the main loop has taken over a changed configuration at most one frame
\* still comes out scrambled: the one that was queued (fileDirty, the queue of
\* VMSDriver_UpdateFrameFast).
OneStaleFrame == stale <= 1
=============================================================================
