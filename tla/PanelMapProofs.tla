--------------------------- MODULE PanelMapProofs ---------------------------
(***************************************************************************)
(* Facts about the panel map for every configuration and every pixel.      *)
(***************************************************************************)
EXTENDS Panels, TLAPS

\* The order of the chain of panels is its own inverse.
THEOREM PhysicalIsInvolution ==
  ASSUME NEW cols \in 1 .. 5, NEW j \in Nat
  PROVE  /\ PhysicalOf(cols, j) \in Nat
         /\ PhysicalOf(cols, PhysicalOf(cols, j)) = j
<1>1. CASE cols = 1
  BY <1>1 DEF PhysicalOf
<1>2. CASE cols = 2
  BY <1>2 DEF PhysicalOf
<1>3. CASE cols = 3
  BY <1>3 DEF PhysicalOf
<1>4. CASE cols = 4
  BY <1>4 DEF PhysicalOf
<1>5. CASE cols = 5
  BY <1>5 DEF PhysicalOf
<1>6. QED
  BY <1>1, <1>2, <1>3, <1>4, <1>5

LEMMA ColumnsBound ==
  ASSUME NEW c \in Nat
  PROVE  Columns(c) \in 1 .. 5
BY DEF Columns

\* What the layouts have in common.
LEMMA LayoutShape ==
  ASSUME NEW c \in Nat
  PROVE  LET l == Layout(c)
         IN  /\ l.cols \in 1 .. 5 /\ l.width \in Nat /\ l.height \in Nat
             /\ l.width > 0 =>
                  /\ l.cols = Columns(c) /\ l.rows \in 1 .. 4 /\ l.first \in {0, l.cols}
                  /\ l.width = l.cols * PanelWidth(l)
                  /\ l.height = l.rows * PanelHeight(l)
                  /\ l.first + l.rows * l.cols <= VMS_PANELS
<1>1. CASE c \in 0 .. 5
  BY <1>1 DEF Layout, NoLayout, Columns, PanelWidth, PanelHeight, Landscape, VMS_WIDTH, VMS_HEIGHT, VMS_PANELS
<1>2. CASE c \in 6 .. 10
  BY <1>2 DEF Layout, NoLayout, Columns, PanelWidth, PanelHeight, Landscape, VMS_WIDTH, VMS_HEIGHT, VMS_PANELS
<1>3. CASE c \in 11 .. 16
  BY <1>3 DEF Layout, NoLayout, Columns, PanelWidth, PanelHeight, Landscape, VMS_WIDTH, VMS_HEIGHT, VMS_PANELS
<1>4. CASE c \in 17 .. 21
  BY <1>4 DEF Layout, NoLayout, Columns, PanelWidth, PanelHeight, Landscape, VMS_WIDTH, VMS_HEIGHT, VMS_PANELS
<1>5. CASE c > 21
  BY <1>5 DEF Layout, NoLayout
<1>6. QED
  BY <1>1, <1>2, <1>3, <1>4, <1>5

\* The tables of sizes agree: the size numbers are clipped to, the size the
\* image library uses and, where there is one, the size of what is drawn.
THEOREM SizesAgree ==
  ASSUME NEW c \in Nat
  PROVE  /\ DimensionsFromConfig(c) = GetDimensions(c)
         /\ GetDimensions(c).width > 0 /\ c # 0 =>
              /\ GetDimensions(c).width = Layout(c).width
              /\ GetDimensions(c).height = Layout(c).height
<1>1. DimensionsFromConfig(c) = GetDimensions(c)
  BY DEF DimensionsFromConfig, GetDimensions
<1>2. CASE c \in 0 .. 10
  BY <1>1, <1>2 DEF GetDimensions, Layout, NoLayout
<1>3. CASE c \in 11 .. 21
  BY <1>1, <1>3 DEF GetDimensions, Layout, NoLayout
<1>4. CASE c > 21
  BY <1>1, <1>4 DEF GetDimensions
<1>5. QED
  BY <1>2, <1>3, <1>4

LEMMA Chain ==
  ASSUME NEW cols \in 1 .. 5, NEW row \in Nat, NEW col \in 0 .. cols - 1
  PROVE  LET place == row * cols + IF row % 2 = 0 THEN col ELSE cols - col - 1
         IN  /\ place \in Nat /\ place < cols * (row + 1)
             /\ PhysicalOf(cols, place) = cols * row + col
<1>1. CASE cols = 1
  BY <1>1 DEF PhysicalOf
<1>2. CASE cols = 2
  BY <1>2 DEF PhysicalOf
<1>3. CASE cols = 3
  BY <1>3 DEF PhysicalOf
<1>4. CASE cols = 4
  BY <1>4 DEF PhysicalOf
<1>5. CASE cols = 5
  BY <1>5 DEF PhysicalOf
<1>6. QED
  BY <1>1, <1>2, <1>3, <1>4, <1>5

\* The lamp in the buffer of a pixel that a layout has room for.
BufferLamp(l, x, y) ==
  LET panel == l.first + l.cols * (y \div PanelHeight(l)) + (x \div PanelWidth(l))
      line  == VMS_HEIGHT - 1 - ((IF Landscape(l) THEN x ELSE y) % VMS_HEIGHT)
      bit   == IF Landscape(l) THEN VMS_WIDTH - 1 - (y % VMS_WIDTH) ELSE x % VMS_WIDTH
  IN  panel * PanelSize + line * VMS_WIDTH + bit

LEMMA SplitLamp ==
  ASSUME NEW panel \in Nat, NEW line \in 0 .. 9, NEW bit \in 0 .. 7
  PROVE  LET n == panel * 80 + line * 8 + bit
         IN  n \in Nat /\ n \div 80 = panel /\ n % 80 = line * 8 + bit
OBVIOUS

LEMMA PixelInPlace ==
  ASSUME NEW c \in Nat, NEW l, l = Layout(c),
         NEW x \in Nat, NEW y \in Nat, x < l.width, y < l.height
  PROVE  LET n == LampAt(l, x, y)
         IN  /\ n \in Lamps
             /\ BufferLamp(l, x, y) \in Lamps
             /\ PanelSize * LogicalPanelToPhysical(c, n \div PanelSize) + (n % PanelSize)
                  = BufferLamp(l, x, y)
<1> DEFINE R == y \div PanelHeight(l)
           C == x \div PanelWidth(l)
           line == VMS_HEIGHT - 1 - ((IF Landscape(l) THEN x ELSE y) % VMS_HEIGHT)
           bit  == IF Landscape(l) THEN VMS_WIDTH - 1 - (y % VMS_WIDTH) ELSE x % VMS_WIDTH
           row  == R + (l.first \div l.cols)
           place == row * l.cols + IF row % 2 = 0 THEN C ELSE l.cols - C - 1
<1>1. /\ l.cols \in 1 .. 5 /\ l.cols = Columns(c) /\ l.rows \in 1 .. 4 /\ l.first \in {0, l.cols}
      /\ l.width = l.cols * PanelWidth(l) /\ l.height = l.rows * PanelHeight(l)
      /\ l.first + l.rows * l.cols <= 36
  BY LayoutShape DEF VMS_PANELS
<1>2. line \in 0 .. 9 /\ bit \in 0 .. 7
  BY DEF VMS_HEIGHT, VMS_WIDTH
<1>3. R \in Nat /\ C \in Nat /\ R < l.rows /\ C < l.cols
  <2>1. CASE Landscape(l)
    BY <1>1, <2>1 DEF PanelWidth, PanelHeight, VMS_HEIGHT, VMS_WIDTH
  <2>2. CASE ~Landscape(l)
    BY <1>1, <2>2 DEF PanelWidth, PanelHeight, VMS_HEIGHT, VMS_WIDTH
  <2>3. QED
    BY <2>1, <2>2
<1> HIDE DEF R, C, line, bit
<1>4. row \in Nat /\ l.cols * row = l.first + l.cols * R /\ l.cols * (row + 1) <= 36
  <2>1. CASE l.first = 0
    BY <1>1, <1>3, <2>1
  <2>2. CASE l.first = l.cols
    BY <1>1, <1>3, <2>2
  <2>3. QED
    BY <1>1, <2>1, <2>2
<1>5. place \in Nat /\ place < 36 /\ PhysicalOf(l.cols, place) = l.cols * row + C
  <2>1. l.cols \in 1 .. 5 /\ row \in Nat /\ C \in 0 .. l.cols - 1
    BY <1>1, <1>3, <1>4
  <2>2. place \in Nat /\ place < l.cols * (row + 1) /\ PhysicalOf(l.cols, place) = l.cols * row + C
    BY <2>1, Chain DEF place
  <2>3. QED
    BY <1>1, <1>4, <2>2
<1> HIDE DEF row, place
<1>6. LampAt(l, x, y) = place * 80 + line * 8 + bit
  BY DEF LampAt, place, row, R, C, line, bit, PanelSize, VMS_WIDTH, VMS_HEIGHT
<1>7. BufferLamp(l, x, y) = (l.first + l.cols * R + C) * 80 + line * 8 + bit
  BY DEF BufferLamp, R, C, line, bit, PanelSize, VMS_WIDTH, VMS_HEIGHT
<1>8. /\ LampAt(l, x, y) \in Nat
      /\ LampAt(l, x, y) \div 80 = place /\ LampAt(l, x, y) % 80 = line * 8 + bit
  <2>1. LET n == place * 80 + line * 8 + bit
        IN  n \in Nat /\ n \div 80 = place /\ n % 80 = line * 8 + bit
    BY <1>2, <1>5, SplitLamp
  <2>2. QED
    BY <1>6, <2>1
<1>9. l.cols * row + C \in Nat /\ l.cols * row + C < 36
  <2>1. l.cols * (row + 1) = l.cols * row + l.cols
    BY <1>1, <1>4
  <2>2. QED
    BY <1>1, <1>3, <1>4, <2>1
<1>10. BufferLamp(l, x, y) = (l.cols * row + C) * 80 + line * 8 + bit
  BY <1>4, <1>7
<1>11. QED
  BY <1>1, <1>2, <1>5, <1>6, <1>8, <1>9, <1>10
     DEF Lamps, PanelSize, LogicalPanelToPhysical, VMS_PANELS, VMS_WIDTH, VMS_HEIGHT

\* What a layout makes of a pixel.
LEMMA LampsOfPixel ==
  ASSUME NEW c \in Nat, NEW l, l = Layout(c),
         NEW x \in Nat, NEW y \in Nat, x < l.width, y < l.height
  PROVE  LET panel == l.first + l.cols * (y \div PanelHeight(l)) + (x \div PanelWidth(l))
         IN  (IF Landscape(l)
              THEN PixelLamps(PanelHeight(l) - (y % PanelHeight(l)) - 1 + panel * VMS_WIDTH,
                              x % PanelWidth(l))
              ELSE PixelLamps((x % PanelWidth(l)) + panel * VMS_WIDTH, y % PanelHeight(l)))
             = {BufferLamp(l, x, y)}
<1> DEFINE R == y \div PanelHeight(l)
           C == x \div PanelWidth(l)
           panel == l.first + l.cols * R + C
<1>1. /\ l.cols \in 1 .. 5 /\ l.rows \in 1 .. 4 /\ l.first \in {0, l.cols}
      /\ l.width = l.cols * PanelWidth(l) /\ l.height = l.rows * PanelHeight(l)
      /\ l.first + l.rows * l.cols <= 36
  BY LayoutShape DEF VMS_PANELS
<1>2. R \in Nat /\ C \in Nat /\ R < l.rows /\ C < l.cols
  <2>1. CASE Landscape(l)
    BY <1>1, <2>1 DEF PanelWidth, PanelHeight, VMS_HEIGHT, VMS_WIDTH
  <2>2. CASE ~Landscape(l)
    BY <1>1, <2>2 DEF PanelWidth, PanelHeight, VMS_HEIGHT, VMS_WIDTH
  <2>3. QED
    BY <2>1, <2>2
<1> HIDE DEF R, C
<1>3. l.cols * R + C < l.cols * l.rows
  <2>1. l.cols * R + l.cols <= l.cols * l.rows
    BY <1>1, <1>2
  <2>2. QED
    BY <1>1, <1>2, <2>1
<1>4. panel \in Nat /\ panel < 36
  BY <1>1, <1>2, <1>3
<1> HIDE DEF panel
<1>5. CASE Landscape(l)
  <2>1. PanelHeight(l) = 8 /\ PanelWidth(l) = 10
    BY <1>5 DEF PanelWidth, PanelHeight, VMS_HEIGHT, VMS_WIDTH
  <2>2. PixelLamps(8 - (y % 8) - 1 + panel * 8, x % 10)
         = {8 * (10 - (x % 10) - 1 + panel * 10) + 7 - (y % 8)}
    BY <1>4 DEF PixelLamps, VMS_WIDTH, VMS_HEIGHT, VMS_PANELS
  <2>3. BufferLamp(l, x, y) = 8 * (10 - (x % 10) - 1 + panel * 10) + 7 - (y % 8)
    BY <1>4, <1>5, <2>1 DEF BufferLamp, panel, R, C, PanelSize, VMS_WIDTH, VMS_HEIGHT
  <2>4. QED
    BY <1>5, <2>1, <2>2, <2>3 DEF panel, R, C, VMS_WIDTH
<1>6. CASE ~Landscape(l)
  <2>1. PanelHeight(l) = 10 /\ PanelWidth(l) = 8
    BY <1>6 DEF PanelWidth, PanelHeight, VMS_HEIGHT, VMS_WIDTH
  <2>2. PixelLamps((x % 8) + panel * 8, y % 10)
         = {8 * (10 - (y % 10) - 1 + panel * 10) + (x % 8)}
    BY <1>4 DEF PixelLamps, VMS_WIDTH, VMS_HEIGHT, VMS_PANELS
  <2>3. BufferLamp(l, x, y) = 8 * (10 - (y % 10) - 1 + panel * 10) + (x % 8)
    BY <1>4, <1>6, <2>1 DEF BufferLamp, panel, R, C, PanelSize, VMS_WIDTH, VMS_HEIGHT
  <2>4. QED
    BY <1>6, <2>1, <2>2, <2>3 DEF panel, R, C, VMS_WIDTH
<1>7. QED
  BY <1>5, <1>6
=============================================================================
