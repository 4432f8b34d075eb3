------------------------------ MODULE PanelMap ------------------------------
(***************************************************************************)
(* The panels of a sign (src/VMSDriver.cpp): the layouts of the panel      *)
(* configurations, the lamp a pixel of a picture becomes in the display    *)
(* buffer, and the order in which the buffer is sent down the chain of     *)
(* panels. A panel has VMS_WIDTH x VMS_HEIGHT lamps, a byte of the buffer  *)
(* per line of VMS_WIDTH lamps; the buffer is modelled as the set of the   *)
(* lamps that are on, lamp b of byte i being the number VMS_WIDTH * i + b. *)
(***************************************************************************)
EXTENDS Integers, Sequences

VMS_WIDTH  == 8
VMS_HEIGHT == 10
VMS_PANELS == 36
MAX_BMP_WIDTH == 60

PanelSize == VMS_WIDTH * VMS_HEIGHT      \* lamps of one panel
Lamps     == 0 .. VMS_PANELS * PanelSize - 1

-----------------------------------------------------------------------------
(* Configurations *)

\* The size of the picture, 0 x 0 where the table has no entry.
GetDimensions(panelsConfig) ==
  LET size(w, h) == [width |-> w, height |-> h]
  IN  CASE panelsConfig \in {0, 1} -> size(16, 10)
        [] panelsConfig = 4  -> size(20, 16) [] panelsConfig = 5  -> size(16, 20)
        [] panelsConfig = 8  -> size(16, 30) [] panelsConfig = 9  -> size(20, 24)
        [] panelsConfig = 10 -> size(30, 16) [] panelsConfig = 11 -> size(24, 20)
        [] panelsConfig = 13 -> size(32, 20) [] panelsConfig = 14 -> size(40, 16)
        [] panelsConfig = 15 -> size(24, 30) [] panelsConfig = 16 -> size(30, 24)
        [] panelsConfig = 17 -> size(32, 30) [] panelsConfig = 18 -> size(40, 24)
        [] panelsConfig = 19 -> size(50, 24) [] panelsConfig = 20 -> size(50, 32)
        [] panelsConfig = 21 -> size(40, 32)
        [] OTHER -> size(0, 0)

\* The same table for the image library and the upload of images.
DimensionsFromConfig(panelsConfig) ==
  LET size(w, h) == [width |-> w, height |-> h]
  IN  CASE panelsConfig \in {0, 1} -> size(16, 10)
        [] panelsConfig = 4  -> size(20, 16) [] panelsConfig = 5  -> size(16, 20)
        [] panelsConfig = 8  -> size(16, 30) [] panelsConfig = 9  -> size(20, 24)
        [] panelsConfig = 10 -> size(30, 16) [] panelsConfig = 11 -> size(24, 20)
        [] panelsConfig = 13 -> size(32, 20) [] panelsConfig = 14 -> size(40, 16)
        [] panelsConfig = 15 -> size(24, 30) [] panelsConfig = 16 -> size(30, 24)
        [] panelsConfig = 17 -> size(32, 30) [] panelsConfig = 18 -> size(40, 24)
        [] panelsConfig = 19 -> size(50, 24) [] panelsConfig = 20 -> size(50, 32)
        [] panelsConfig = 21 -> size(40, 32)
        [] OTHER -> size(0, 0)

\* What is drawn for a configuration: the part of the picture, and the panels,
\* rows by columns, behind the first ones that are left out. Nothing is drawn
\* for configuration 0 and for unknown ones.
NoLayout == [width |-> 0, height |-> 0, first |-> 0, rows |-> 0, cols |-> 1]

Layout(panelsConfig) ==
  LET panels(w, h, f, r, c) == [width |-> w, height |-> h, first |-> f, rows |-> r, cols |-> c]
  IN  CASE panelsConfig = 1  -> panels(16, 10, 0, 1, 2)
        [] panelsConfig = 2  -> panels(20,  8, 2, 1, 2)
        [] panelsConfig = 3  -> panels(16, 10, 2, 1, 2)
        [] panelsConfig = 4  -> panels(20, 16, 0, 2, 2)
        [] panelsConfig = 5  -> panels(16, 20, 0, 2, 2)
        [] panelsConfig = 6  -> panels(20, 16, 2, 2, 2)
        [] panelsConfig = 7  -> panels(16, 20, 2, 2, 2)
        [] panelsConfig = 8  -> panels(16, 30, 0, 3, 2)
        [] panelsConfig = 9  -> panels(20, 24, 0, 3, 2)
        [] panelsConfig = 10 -> panels(30, 16, 0, 2, 3)
        [] panelsConfig = 11 -> panels(24, 20, 0, 2, 3)
        [] panelsConfig = 13 -> panels(32, 20, 0, 2, 4)
        [] panelsConfig = 14 -> panels(40, 16, 0, 2, 4)
        [] panelsConfig = 15 -> panels(24, 30, 0, 3, 3)
        [] panelsConfig = 16 -> panels(30, 24, 0, 3, 3)
        [] panelsConfig = 17 -> panels(32, 30, 0, 3, 4)
        [] panelsConfig = 18 -> panels(40, 24, 0, 3, 4)
        [] panelsConfig = 19 -> panels(50, 24, 0, 3, 5)
        [] panelsConfig = 20 -> panels(50, 32, 0, 4, 5)
        [] panelsConfig = 21 -> panels(40, 32, 0, 4, 4)
        [] OTHER -> NoLayout

\* Panels of 10 x 8 instead of 8 x 10 lamps.
Landscape(l) == l.width \div l.cols = VMS_HEIGHT
PanelWidth(l)  == IF Landscape(l) THEN VMS_HEIGHT ELSE VMS_WIDTH
PanelHeight(l) == IF Landscape(l) THEN VMS_WIDTH ELSE VMS_HEIGHT

Columns(panelsConfig) ==
  CASE panelsConfig \in 0 .. 9           -> 2
    [] panelsConfig \in {10, 11, 15, 16} -> 3
    [] panelsConfig \in {13, 14, 17, 18, 21} -> 4
    [] panelsConfig \in {19, 20}         -> 5
    [] OTHER                             -> 1

-----------------------------------------------------------------------------
(* From pixels to lamps *)

\* The lamp of x, y on the panels side by side, if there is one; the arguments
\* are unsigned: a negative number is a large one.
PixelLamps(x, y) ==
  IF x \in 0 .. VMS_WIDTH * VMS_PANELS - 1 /\ y \in 0 .. VMS_HEIGHT - 1
  THEN {VMS_WIDTH * (VMS_HEIGHT - y - 1 + (x \div VMS_WIDTH) * VMS_HEIGHT) + (x % VMS_WIDTH)}
  ELSE {}

\* The lamps of a picture, a set of pixels <<x, y>>.
RenderBitmapToPanels(l, pixels) ==
  LET lamps(x, y) ==
        LET xPos  == x % PanelWidth(l)
            yPos  == y % PanelHeight(l)
            panel == l.first + l.cols * (y \div PanelHeight(l)) + (x \div PanelWidth(l))
        IN  IF Landscape(l)
            THEN PixelLamps(PanelHeight(l) - yPos - 1 + panel * VMS_WIDTH, xPos)
            ELSE PixelLamps(xPos + panel * VMS_WIDTH, yPos)
  IN  UNION {lamps(p[1], p[2]) : p \in {q \in pixels : q[1] < l.width /\ q[2] < l.height}}

-----------------------------------------------------------------------------
(* From the buffer to the panels: the panels are wired row by row, to and   *)
(* fro. With five columns the last place of the chain, which no sign has a   *)
(* panel at, would be read from behind the buffer; here it is dark.         *)

\* Seeded fault: the way back starts one panel too far.
PhysicalOf_OffByOne(cols, panelID) ==
  LET row == panelID \div cols
      col == panelID % cols
  IN  row * cols + IF row % 2 = 0 THEN col ELSE cols - col

PhysicalOf(cols, panelID) ==
  LET row == panelID \div cols
      col == panelID % cols
  IN  row * cols + IF row % 2 = 0 THEN col ELSE cols - col - 1

LogicalPanelToPhysical(panelsConfig, panelID) == PhysicalOf(Columns(panelsConfig), panelID)

\* Lamp n of the stream is lamp n % PanelSize of the panel at place
\* n \div PanelSize of the chain.
Stream(panelsConfig, lamps) ==
  {n \in Lamps :
     PanelSize * LogicalPanelToPhysical(panelsConfig, n \div PanelSize) + (n % PanelSize)
       \in lamps}

=============================================================================
