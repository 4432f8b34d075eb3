----------------------------- MODULE PanelsProofs -----------------------------
(***************************************************************************)
(* Pictures come out in place, and a changed configuration scrambles one   *)
(* frame at most: for every sign, number and image.                        *)
(***************************************************************************)
EXTENDS PanelMapProofs

-----------------------------------------------------------------------------
(* Pictures *)

InSize(l, pixels) == {q \in pixels : q[1] < l.width /\ q[2] < l.height}

LEMMA RenderIs ==
  ASSUME NEW c \in Nat, NEW pixels \in SUBSET (Nat \X Nat)
  PROVE  RenderBitmapToPanels(Layout(c), pixels)
          = {BufferLamp(Layout(c), p[1], p[2]) : p \in InSize(Layout(c), pixels)}
<1> DEFINE l == Layout(c)
           lamps(x, y) ==
             LET xPos  == x % PanelWidth(l)
                 yPos  == y % PanelHeight(l)
                 panel == l.first + l.cols * (y \div PanelHeight(l)) + (x \div PanelWidth(l))
             IN  IF Landscape(l)
                 THEN PixelLamps(PanelHeight(l) - yPos - 1 + panel * VMS_WIDTH, xPos)
                 ELSE PixelLamps(xPos + panel * VMS_WIDTH, yPos)
<1>1. RenderBitmapToPanels(l, pixels) = UNION {lamps(p[1], p[2]) : p \in InSize(l, pixels)}
  BY DEF RenderBitmapToPanels, InSize
<1>2. ASSUME NEW p \in InSize(l, pixels)
      PROVE  lamps(p[1], p[2]) = {BufferLamp(l, p[1], p[2])}
  <2>1. p[1] \in Nat /\ p[2] \in Nat /\ p[1] < l.width /\ p[2] < l.height
    BY DEF InSize
  <2>2. QED
    BY <2>1, LampsOfPixel
<1> HIDE DEF lamps, l
<1>3. QED
  BY <1>1, <1>2 DEF l

LEMMA StreamInjective ==
  ASSUME NEW cols \in 1 .. 5, NEW n \in Nat, NEW m \in Nat,
         80 * PhysicalOf(cols, n \div 80) + (n % 80) = 80 * PhysicalOf(cols, m \div 80) + (m % 80)
  PROVE  n = m
<1>1. n \div 80 \in Nat /\ m \div 80 \in Nat /\ n % 80 \in 0 .. 79 /\ m % 80 \in 0 .. 79
  OBVIOUS
<1>2. PhysicalOf(cols, n \div 80) \in Nat /\ PhysicalOf(cols, m \div 80) \in Nat
  BY <1>1, PhysicalIsInvolution
<1>3. PhysicalOf(cols, n \div 80) = PhysicalOf(cols, m \div 80) /\ n % 80 = m % 80
  BY <1>1, <1>2
<1>4. n \div 80 = m \div 80
  BY <1>1, <1>3, PhysicalIsInvolution
<1>5. QED
  BY <1>3, <1>4

\* A picture laid out and sent for the same configuration is seen in place.
THEOREM PictureSeen ==
  ASSUME NEW c \in Nat, NEW pixels \in SUBSET (Nat \X Nat)
  PROVE  Stream(c, RenderBitmapToPanels(Layout(c), pixels)) = Seen(c, pixels)
<1> DEFINE l == Layout(c)
           at(n) == PanelSize * LogicalPanelToPhysical(c, n \div PanelSize) + (n % PanelSize)
<1>1. ASSUME NEW p \in InSize(l, pixels)
      PROVE  /\ LampAt(l, p[1], p[2]) \in Lamps
             /\ at(LampAt(l, p[1], p[2])) = BufferLamp(l, p[1], p[2])
  <2>1. p[1] \in Nat /\ p[2] \in Nat /\ p[1] < l.width /\ p[2] < l.height
    BY DEF InSize
  <2>2. QED
    BY <2>1, PixelInPlace
<1>2. ASSUME NEW n \in Lamps, NEW m \in Lamps, at(n) = at(m)
      PROVE  n = m
  <2>1. Columns(c) \in 1 .. 5 /\ n \in Nat /\ m \in Nat
    BY ColumnsBound DEF Lamps
  <2>2. /\ at(n) = 80 * PhysicalOf(Columns(c), n \div 80) + (n % 80)
        /\ at(m) = 80 * PhysicalOf(Columns(c), m \div 80) + (m % 80)
    BY DEF LogicalPanelToPhysical, PanelSize, VMS_WIDTH, VMS_HEIGHT
  <2>3. QED
    BY <1>2, <2>1, <2>2, StreamInjective
<1>3. Seen(c, pixels) = {LampAt(l, p[1], p[2]) : p \in InSize(l, pixels)}
  BY DEF Seen, InSize
<1>4. Stream(c, RenderBitmapToPanels(l, pixels))
       = {n \in Lamps : \E p \in InSize(l, pixels) : at(n) = BufferLamp(l, p[1], p[2])}
  BY RenderIs DEF Stream
<1> HIDE DEF at, l
<1>5. QED
  BY <1>1, <1>2, <1>3, <1>4 DEF l

\* The parts of a buffer lamp's number.
Line(l, x, y) == VMS_HEIGHT - 1 - ((IF Landscape(l) THEN x ELSE y) % VMS_HEIGHT)
Bit(l, x, y)  == IF Landscape(l) THEN VMS_WIDTH - 1 - (y % VMS_WIDTH) ELSE x % VMS_WIDTH

LEMMA RowAndColumn ==
  ASSUME NEW k \in 1 .. 5, NEW row \in Nat, NEW col \in Nat, col < k
  PROVE  (k * row + col) \div k = row /\ (k * row + col) % k = col
<1>1. CASE k = 1
  BY <1>1
<1>2. CASE k = 2
  BY <1>2
<1>3. CASE k = 3
  BY <1>3
<1>4. CASE k = 4
  BY <1>4
<1>5. CASE k = 5
  BY <1>5
<1>6. QED
  BY <1>1, <1>2, <1>3, <1>4, <1>5

\* A pixel can be told from its lamp.
LEMMA BufferParts ==
  ASSUME NEW c \in Nat, NEW l, l = Layout(c),
         NEW x \in Nat, NEW y \in Nat, x < l.width, y < l.height
  PROVE  LET n == BufferLamp(l, x, y)
         IN  /\ y \div PanelHeight(l) = ((n \div 80) - l.first) \div l.cols
             /\ x \div PanelWidth(l) = ((n \div 80) - l.first) % l.cols
             /\ Line(l, x, y) = (n % 80) \div 8 /\ Bit(l, x, y) = (n % 80) % 8
<1> DEFINE row == y \div PanelHeight(l)
           col == x \div PanelWidth(l)
<1>1. l.cols \in 1 .. 5 /\ l.first \in Nat /\ l.width = l.cols * PanelWidth(l)
  BY LayoutShape
<1>2. Line(l, x, y) \in 0 .. 9 /\ Bit(l, x, y) \in 0 .. 7
  BY DEF Line, Bit, VMS_HEIGHT, VMS_WIDTH
<1>3. row \in Nat /\ col \in Nat /\ col < l.cols
  <2>1. CASE Landscape(l)
    BY <1>1, <2>1 DEF PanelWidth, PanelHeight, VMS_HEIGHT, VMS_WIDTH
  <2>2. CASE ~Landscape(l)
    BY <1>1, <2>2 DEF PanelWidth, PanelHeight, VMS_HEIGHT, VMS_WIDTH
  <2>3. QED
    BY <2>1, <2>2
<1>4. BufferLamp(l, x, y) = (l.first + l.cols * row + col) * 80 + Line(l, x, y) * 8 + Bit(l, x, y)
  BY DEF BufferLamp, Line, Bit, PanelSize, VMS_WIDTH, VMS_HEIGHT
<1> HIDE DEF row, col
<1>5. l.first + l.cols * row + col \in Nat /\ l.cols * row + col \in Nat
  BY <1>1, <1>3
<1>6. LET n == BufferLamp(l, x, y)
      IN  /\ n \div 80 = l.first + l.cols * row + col
          /\ (n % 80) \div 8 = Line(l, x, y) /\ (n % 80) % 8 = Bit(l, x, y)
  <2>1. PICK panel \in Nat, line \in 0 .. 9, bit \in 0 .. 7 :
           panel = l.first + l.cols * row + col /\ line = Line(l, x, y) /\ bit = Bit(l, x, y)
    BY <1>2, <1>5
  <2>2. BufferLamp(l, x, y) = panel * 80 + line * 8 + bit
    BY <1>4, <2>1
  <2>3. /\ (panel * 80 + line * 8 + bit) \div 80 = panel
        /\ (panel * 80 + line * 8 + bit) % 80 = line * 8 + bit
    OBVIOUS
  <2>4. (line * 8 + bit) \div 8 = line /\ (line * 8 + bit) % 8 = bit
    OBVIOUS
  <2>5. QED
    BY <2>1, <2>2, <2>3, <2>4
<1>7. (l.cols * row + col) \div l.cols = row /\ (l.cols * row + col) % l.cols = col
  BY <1>1, <1>3, RowAndColumn
<1>8. (l.first + l.cols * row + col) - l.first = l.cols * row + col
  BY <1>1, <1>3
<1>9. QED
  BY <1>6, <1>7, <1>8 DEF row, col

LEMMA BufferInjective ==
  ASSUME NEW c \in Nat, NEW l, l = Layout(c),
         NEW x \in Nat, NEW y \in Nat, x < l.width, y < l.height,
         NEW v \in Nat, NEW w \in Nat, v < l.width, w < l.height,
         BufferLamp(l, x, y) = BufferLamp(l, v, w)
  PROVE  x = v /\ y = w
<1>1. /\ y \div PanelHeight(l) = w \div PanelHeight(l) /\ x \div PanelWidth(l) = v \div PanelWidth(l)
      /\ Line(l, x, y) = Line(l, v, w) /\ Bit(l, x, y) = Bit(l, v, w)
  BY BufferParts
<1>2. CASE Landscape(l)
  BY <1>1, <1>2 DEF Line, Bit, PanelWidth, PanelHeight, VMS_WIDTH, VMS_HEIGHT
<1>3. CASE ~Landscape(l)
  BY <1>1, <1>3 DEF Line, Bit, PanelWidth, PanelHeight, VMS_WIDTH, VMS_HEIGHT
<1>4. QED
  BY <1>2, <1>3

\* Adding and erasing a picture.
LEMMA RenderUnion ==
  ASSUME NEW c \in Nat, NEW A \in SUBSET (Nat \X Nat), NEW B \in SUBSET (Nat \X Nat)
  PROVE  /\ RenderBitmapToPanels(Layout(c), A) \cup RenderBitmapToPanels(Layout(c), B)
              = RenderBitmapToPanels(Layout(c), A \cup B)
         /\ RenderBitmapToPanels(Layout(c), A) \ RenderBitmapToPanels(Layout(c), B)
              = RenderBitmapToPanels(Layout(c), A \ B)
         /\ RenderBitmapToPanels(Layout(c), {}) = {}
<1> DEFINE l == Layout(c)
           lamps(P) == {BufferLamp(l, p[1], p[2]) : p \in InSize(l, P)}
<1>1. \A P \in SUBSET (Nat \X Nat) : RenderBitmapToPanels(l, P) = lamps(P)
  BY RenderIs
<1>2. ASSUME NEW p \in InSize(l, A), NEW q \in InSize(l, B),
             BufferLamp(l, p[1], p[2]) = BufferLamp(l, q[1], q[2])
      PROVE  p = q
  <2>1. /\ p \in Nat \X Nat /\ p[1] < l.width /\ p[2] < l.height
        /\ q \in Nat \X Nat /\ q[1] < l.width /\ q[2] < l.height
    BY DEF InSize
  <2>2. p[1] = q[1] /\ p[2] = q[2]
    BY <1>2, <2>1, BufferInjective
  <2>3. QED
    BY <2>1, <2>2
<1>3. lamps(A) \cup lamps(B) = lamps(A \cup B)
  BY DEF InSize
<1>4. lamps(A) \ lamps(B) = lamps(A \ B)
  BY <1>2 DEF InSize
<1>5. lamps({}) = {}
  BY DEF InSize
<1> HIDE DEF lamps, l
<1>6. QED
  BY <1>1, <1>3, <1>4, <1>5 DEF l

-----------------------------------------------------------------------------
(* What is drawn *)

LEMMA SizesInt ==
  ASSUME NEW c \in Nat
  PROVE  /\ GetDimensions(c).width \in Nat /\ GetDimensions(c).height \in Nat
         /\ GetDimensions(c).width > 0 =>
              GetDimensions(c).width >= 16 /\ GetDimensions(c).height >= 10
BY DEF GetDimensions

LEMMA CharPixels ==
  ASSUME NEW glyph, glyph.cols \subseteq Int, glyph.rows \subseteq Int,
         NEW xPos \in Int, NEW yPos \in Int, NEW size
  PROVE  WriteChar(glyph, xPos, yPos, size) \in SUBSET (Nat \X Nat)
<1>1. ASSUME NEW x \in glyph.cols, NEW y \in glyph.rows,
             NEW p, p = xPos + x + (yPos + y) * MAX_BMP_WIDTH, p >= 0
      PROVE  p % MAX_BMP_WIDTH \in Nat /\ p \div MAX_BMP_WIDTH \in Nat
  BY <1>1 DEF MAX_BMP_WIDTH
<1>2. QED
  BY <1>1 DEF WriteChar

LEMMA GlyphInt ==
  ASSUME NEW font \in 0 .. 5, NEW d \in Digits
  PROVE  GlyphOf(font)[d].cols \subseteq Int /\ GlyphOf(font)[d].rows \subseteq Int
<1>1. CASE font = 0
  BY <1>1 DEF GlyphOf, Small, Glyph, Digits
<1>2. CASE font = 1
  BY <1>2 DEF GlyphOf, Normal, Glyph, Digits
<1>3. CASE font = 2
  BY <1>3 DEF GlyphOf, Bold, Glyph, Digits
<1>4. CASE font = 3
  BY <1>4 DEF GlyphOf, Large, Glyph, Digits
<1>5. CASE font = 4
  BY <1>5 DEF GlyphOf, Huge, Glyph, Digits
<1>6. CASE font = 5
  BY <1>6 DEF GlyphOf, Enormous, Glyph, Digits
<1>7. QED
  BY <1>1, <1>2, <1>3, <1>4, <1>5, <1>6

LEMMA SpeedPixels ==
  ASSUME NEW x \in Int, NEW y \in Int, NEW c \in Nat, NEW speed \in Nat, NEW font \in 0 .. 5
  PROVE  WriteSpeed(x, y, c, speed, font) \in SUBSET (Nat \X Nat)
<1> DEFINE size == GetDimensions(c)
           front == WriteChar(GlyphOf(font)[1], FrontX(font, speed, x), y, size)
           digit(i) == WriteChar(GlyphOf(font)[Digit(speed, i)], DigitX(font, speed, x, i), y, size)
<1>1. dig3offset(font, speed) \in Int
  BY DEF dig3offset, Digit1_XRange
<1>2. FrontX(font, speed, x) \in Int
  BY <1>1 DEF FrontX
<1>3. front \in SUBSET (Nat \X Nat)
  BY <1>2, GlyphInt, CharPixels DEF Digits
<1>4. ASSUME NEW i \in 0 .. 2
      PROVE  digit(i) \in SUBSET (Nat \X Nat)
  <2>1. Step(font) \in Int /\ Gap(font) \in Int
    BY DEF Step, Gap
  <2>2. DigitX(font, speed, x, i) \in Int
    BY <1>1, <2>1 DEF DigitX
  <2>3. Digit(speed, i) \in Digits
    BY DEF Digit, Digits
  <2>4. QED
    BY <2>2, <2>3, GlyphInt, CharPixels
<1> HIDE DEF front, digit
<1>5. WriteSpeed(x, y, c, speed, font) =
        IF speed = 0 THEN {}
        ELSE (IF speed >= 100 THEN front ELSE {})
               \cup UNION {digit(i) : i \in {j \in 0 .. 2 : Written(speed, j)}}
  BY DEF WriteSpeed, front, digit, size
<1>6. QED
  BY <1>3, <1>4, <1>5

LEMMA CornerPixels ==
  ASSUME NEW c \in Nat, GetDimensions(c).width > 0
  PROVE  MakeCornerBitmap(GetDimensions(c)) \in SUBSET (Nat \X Nat)
BY SizesInt DEF MakeCornerBitmap

\* The diagonal a lamp is on.
Diag(n) == (n % 8) + 9 - ((n \div 8) % 10)

LEMMA DiagRange ==
  ASSUME NEW n \in Lamps
  PROVE  n \in Nat /\ Diag(n) \in 0 .. 16
<1>1. n \in Nat
  BY DEF Lamps
<1>2. n % 8 \in 0 .. 7 /\ (n \div 8) % 10 \in 0 .. 9
  BY <1>1
<1>3. QED
  BY <1>1, <1>2 DEF Diag

LEMMA DiagonalCovers ==
  ASSUME NEW i \in 0 .. 17, NEW n \in Lamps, Diag(n) = i
  PROVE  n \in Diagonal(i)
<1> DEFINE k == n % 8
           j == n \div 80
<1>1. n \in Nat /\ n < 2880 /\ k \in 0 .. 7 /\ j \in 0 .. 35
  BY DEF Lamps, PanelSize, VMS_PANELS, VMS_WIDTH, VMS_HEIGHT
<1>2. (n \div 8) % 10 = 9 - (i - k) /\ i - k \in 0 .. 9 /\ i < 17
  BY <1>1 DEF Diag
<1>3. (k + j * 8) \div 8 = j /\ (k + j * 8) % 8 = k /\ k + j * 8 \in 0 .. 287
  BY <1>1
<1>4. n = 8 * (10 - (i - k) - 1 + j * 10) + k
  BY <1>1, <1>2
<1>5. n \in PixelLamps(k + j * VMS_WIDTH, i - k)
  BY <1>2, <1>3, <1>4 DEF PixelLamps, VMS_WIDTH, VMS_HEIGHT, VMS_PANELS
<1>6. k \in IF i < 10 THEN 0 .. i ELSE i - 10 + 1 .. 7
  BY <1>1, <1>2
<1> HIDE DEF k, j
<1>7. QED
  BY <1>1, <1>2, <1>5, <1>6 DEF Diagonal, VMS_WIDTH, VMS_HEIGHT, VMS_PANELS

LEMMA DiagonalWithin ==
  ASSUME NEW i \in 0 .. 17, NEW n \in Diagonal(i)
  PROVE  n \in Lamps /\ Diag(n) <= i
<1>1. PICK k \in IF i < 10 THEN 0 .. i ELSE i - 10 + 1 .. 7, j \in 0 .. 35 :
         n \in PixelLamps(k + j * 8, i - k)
  BY DEF Diagonal, VMS_WIDTH, VMS_HEIGHT, VMS_PANELS
<1>2. k \in 0 .. 9 /\ i - k \in 0 .. 9
  BY <1>1
<1>3. CASE k < 8
  <2>1. (k + j * 8) \div 8 = j /\ (k + j * 8) % 8 = k
    BY <1>2, <1>3
  <2>2. n = 8 * (10 - (i - k) - 1 + j * 10) + k
    BY <1>1, <1>2, <2>1 DEF PixelLamps, VMS_WIDTH, VMS_HEIGHT, VMS_PANELS
  <2>3. n % 8 = k /\ (n \div 8) % 10 = 9 - (i - k) /\ n \in 0 .. 2879
    <3>1. PICK line \in 0 .. 9, bit \in 0 .. 7 : line = 9 - (i - k) /\ bit = k
      BY <1>2, <1>3
    <3>2. n = 8 * (line + j * 10) + bit
      BY <1>2, <2>2, <3>1
    <3>3. n % 8 = bit /\ n \div 8 = line + j * 10
      BY <3>2
    <3>4. (line + j * 10) % 10 = line /\ n \in 0 .. 2879
      BY <3>2
    <3>5. QED
      BY <3>1, <3>3, <3>4
  <2>4. QED
    BY <1>2, <1>3, <2>3 DEF Diag, Lamps, PanelSize, VMS_PANELS, VMS_WIDTH, VMS_HEIGHT
<1>4. CASE k >= 8
  <2>1. (k + j * 8) \div 8 = j + 1 /\ (k + j * 8) % 8 = k - 8
    <3>1. CASE k = 8
      BY <3>1
    <3>2. CASE k = 9
      BY <3>2
    <3>3. QED
      BY <1>2, <1>4, <3>1, <3>2
  <2>2. n = 8 * (10 - (i - k) - 1 + (j + 1) * 10) + (k - 8) /\ j + 1 <= 35
    BY <1>1, <1>2, <1>4, <2>1 DEF PixelLamps, VMS_WIDTH, VMS_HEIGHT, VMS_PANELS
  <2>3. n % 8 = k - 8 /\ (n \div 8) % 10 = 9 - (i - k) /\ n \in 0 .. 2879
    BY <1>2, <1>4, <2>2
  <2>4. QED
    BY <1>2, <1>4, <2>3 DEF Diag, Lamps, PanelSize, VMS_PANELS, VMS_WIDTH, VMS_HEIGHT
<1>5. QED
  BY <1>2, <1>3, <1>4

-----------------------------------------------------------------------------
(* InPlace *)

PictureOK(lamps, picture) ==
  /\ picture.pixels \in SUBSET (Nat \X Nat)
  /\ \A c \in Nat : picture.layouts = {c} =>
       lamps = RenderBitmapToPanels(Layout(c), picture.pixels)

Types ==
  /\ stored \in Nat /\ deviceInfo \in Nat
  /\ frameset.x \in Int /\ frameset.y \in Int /\ frameset.font \in 0 .. 5

DrawnOK ==
  /\ PictureOK(VMSBitmap, drawn)
  /\ drawn.layouts = {} =>
       /\ drawn.pixels = {}
       /\ VMSBitmap = {} \/ testing \/ pc = "start" \/ (pc = "top" /\ fileDirty)
  /\ pc \in {"number", "image"} => ~testing

StartOK ==
  pc = "start" =>
    /\ fileDirty /\ drawn = Nothing
    /\ step \in 0 .. 17
    /\ VMSBitmap = {n \in Lamps : Diag(n) < step}

IInv ==
  /\ Types
  /\ DrawnOK
  /\ StartOK
  /\ spi_buff # NoFrame => PictureOK(spi_buff.lamps, spi_buff.picture)
  /\ InPlace

LEMMA InitIInv == Init => IInv
<1> SUFFICES ASSUME Init PROVE IInv
  OBVIOUS
<1>1. Types
  BY PanelsAssumption DEF Init, Types
<1>2. PictureOK({}, Nothing)
  BY DEF PictureOK, Nothing
<1>3. VMSBitmap = {n \in Lamps : Diag(n) < step}
  <2>1. \A n \in Lamps : ~(Diag(n) < 0)
    BY DiagRange
  <2>2. QED
    BY <2>1 DEF Init
<1>4. DrawnOK
  BY <1>2 DEF Init, DrawnOK, Nothing
<1>5. StartOK
  BY <1>3 DEF Init, StartOK
<1>6. InPlace
  BY DEF Init, InPlace, Dark, Nothing, VMS_WIDTH, VMS_HEIGHT
<1>7. QED
  BY <1>1, <1>4, <1>5, <1>6 DEF IInv, Init

\* Adding a picture to another, or erasing it.
LEMMA AddOK ==
  ASSUME NEW config \in Nat, NEW lamps, NEW picture, PictureOK(lamps, picture),
         picture.layouts = {} => picture.pixels = {} /\ lamps = {},
         NEW pixels \in SUBSET (Nat \X Nat), NEW lampsNew, NEW new,
         new.layouts = picture.layouts \cup {config},
         \/ /\ lampsNew = lamps \cup RenderBitmapToPanels(Layout(config), pixels)
            /\ new.pixels = picture.pixels \cup pixels
         \/ /\ lampsNew = lamps \ RenderBitmapToPanels(Layout(config), pixels)
            /\ new.pixels = picture.pixels \ pixels
  PROVE  PictureOK(lampsNew, new) /\ new.layouts # {}
<1>1. picture.pixels \in SUBSET (Nat \X Nat)
  BY DEF PictureOK
<1>2. ASSUME NEW c \in Nat, new.layouts = {c}
      PROVE  lampsNew = RenderBitmapToPanels(Layout(c), new.pixels)
  <2>1. c = config /\ (picture.layouts = {} \/ picture.layouts = {config})
    BY <1>2
  <2>2. RenderBitmapToPanels(Layout(config), {}) = {}
    BY <1>1, RenderUnion
  <2>3. lamps = RenderBitmapToPanels(Layout(config), picture.pixels)
    BY <2>1, <2>2 DEF PictureOK
  <2>4. /\ RenderBitmapToPanels(Layout(config), picture.pixels) \cup RenderBitmapToPanels(Layout(config), pixels)
             = RenderBitmapToPanels(Layout(config), picture.pixels \cup pixels)
        /\ RenderBitmapToPanels(Layout(config), picture.pixels) \ RenderBitmapToPanels(Layout(config), pixels)
             = RenderBitmapToPanels(Layout(config), picture.pixels \ pixels)
    <3>1. PICK P \in SUBSET (Nat \X Nat) : P = picture.pixels
      BY <1>1
    <3>2. /\ RenderBitmapToPanels(Layout(config), P) \cup RenderBitmapToPanels(Layout(config), pixels)
               = RenderBitmapToPanels(Layout(config), P \cup pixels)
          /\ RenderBitmapToPanels(Layout(config), P) \ RenderBitmapToPanels(Layout(config), pixels)
               = RenderBitmapToPanels(Layout(config), P \ pixels)
      BY RenderUnion
    <3>3. QED
      BY <3>1, <3>2
  <2>5. QED
    BY <2>1, <2>3, <2>4
<1>3. QED
  BY <1>1, <1>2 DEF PictureOK

\* Steps that neither draw nor send keep what they leave alone.
LEMMA DarkInPlace ==
  ASSUME shown' = Dark, pc' # "start"
  PROVE  InPlace'
BY DEF InPlace, Dark, Nothing

LEMMA ClearOK ==
  ASSUME VMSBitmap' = {}, drawn' = Nothing
  PROVE  PictureOK(VMSBitmap', drawn') /\ drawn'.pixels = {}
BY DEF PictureOK, Nothing

LEMMA StartIInv ==
  ASSUME IInv, RunStartSequence
  PROVE  IInv'
<1> USE DEF IInv
<1>1. /\ step \in 0 .. 17 /\ drawn = Nothing /\ drawn' = Nothing /\ fileDirty /\ fileDirty'
      /\ VMSBitmap = {n \in Lamps : Diag(n) < step}
      /\ step' = step + 1 /\ VMSBitmap' = VMSBitmap \cup Diagonal(step)
  BY DEF RunStartSequence, StartOK, mainVars
<1>2. VMSBitmap' = {n \in Lamps : Diag(n) < step'}
  <2>1. \A n \in Lamps : Diag(n) \in Int
    BY DiagRange
  <2>2. QED
    BY <1>1, <2>1, DiagonalCovers, DiagonalWithin
<1>3. pc' = "start" => step' \in 0 .. 17
  BY <1>1 DEF RunStartSequence, VMS_WIDTH, VMS_HEIGHT
<1>4. Types'
  BY DEF RunStartSequence, Types, fileVars, mainVars
<1>5. PictureOK(VMSBitmap', drawn')
  BY <1>1 DEF PictureOK, Nothing
<1>6. DrawnOK'
  BY <1>1, <1>5 DEF DrawnOK, RunStartSequence, Nothing, PictureOK
<1>7. StartOK'
  BY <1>1, <1>2, <1>3 DEF StartOK
<1>8. spi_buff' # NoFrame => PictureOK(spi_buff'.lamps, spi_buff'.picture)
  BY DEF RunStartSequence, UpdateFrameFast, PictureOK, Nothing
<1>9. InPlace'
  <2>1. pc' = "start" /\ step' = 17 => VMSBitmap' = Lamps
    <3>1. \A n \in Lamps : Diag(n) < 17
      BY DiagRange
    <3>2. QED
      BY <1>2, <3>1
  <2>2. QED
    BY <2>1 DEF RunStartSequence, InPlace, VMS_WIDTH, VMS_HEIGHT
<1>10. QED
  BY <1>4, <1>6, <1>7, <1>8, <1>9

LEMMA DrawIInv ==
  ASSUME IInv, DrawNumber \/ DrawImage
  PROVE  IInv'
<1>0. \E number : \E pixels \in SUBSET (Nat \X Nat) : RenderBitmap(pixels, number)
  <2>1. CASE DrawNumber
    <3>1. PICK speed \in Speeds :
             RenderBitmap(WriteSpeed(frameset.x, frameset.y, deviceInfo, speed, frameset.font),
                          [speed |-> speed, for |-> deviceInfo])
      BY <2>1 DEF DrawNumber
    <3>2. /\ speed \in Nat /\ deviceInfo \in Nat
          /\ frameset.x \in Int /\ frameset.y \in Int /\ frameset.font \in 0 .. 5
      BY PanelsAssumption DEF IInv, Types
    <3>3. WriteSpeed(frameset.x, frameset.y, deviceInfo, speed, frameset.font)
            \in SUBSET (Nat \X Nat)
      BY <3>2, SpeedPixels, Zenon
    <3>4. QED
      BY <3>1, <3>3, Zenon
  <2>2. CASE DrawImage
    <3>1. PICK image \in Images : RenderBitmap(image, drawn.number)
      BY <2>2 DEF DrawImage
    <3>2. QED
      BY <3>1, PanelsAssumption
  <2>3. QED
    BY <2>1, <2>2
<1> PICK number : \E pixels \in SUBSET (Nat \X Nat) : RenderBitmap(pixels, number)
  BY <1>0
<1>1. PICK pixels \in SUBSET (Nat \X Nat) : RenderBitmap(pixels, number)
  OBVIOUS
<1>2. /\ pc \in {"number", "image"} /\ pc' \in {"image", "update"}
      /\ UNCHANGED <<fileVars, mainVars, step, spi_buff, shown, stale>>
  BY DEF DrawNumber, DrawImage
<1>3. drawn.layouts = {} => drawn.pixels = {} /\ VMSBitmap = {}
  BY <1>2 DEF IInv, DrawnOK
<1>4. /\ drawn'.pixels = drawn.pixels \cup pixels
      /\ drawn'.layouts = drawn.layouts \cup {stored}
      /\ VMSBitmap' = VMSBitmap \cup RenderBitmapToPanels(Layout(stored), pixels)
  BY <1>1 DEF RenderBitmap
<1>5. PictureOK(VMSBitmap', drawn') /\ drawn'.layouts # {}
  BY <1>3, <1>4, AddOK DEF IInv, DrawnOK, Types
<1>6. DrawnOK'
  BY <1>2, <1>5 DEF IInv, DrawnOK, mainVars, modeVars
<1>7. Types' /\ StartOK' /\ InPlace'
  BY <1>2 DEF IInv, Types, StartOK, InPlace, Seen, fileVars, mainVars
<1>8. QED
  BY <1>2, <1>6, <1>7 DEF IInv, PictureOK

LEMMA CornersIInv ==
  ASSUME IInv, Corners
  PROVE  IInv'
<1> DEFINE corners == MakeCornerBitmap(GetDimensions(deviceInfo))
           before  == IF flashing THEN VMSBitmap ELSE {}
           picture == IF flashing THEN drawn ELSE Nothing
<1>1. /\ pc = "draw" /\ ~testing /\ pc' = "update" /\ GetDimensions(deviceInfo).width > 0
      /\ UNCHANGED <<fileVars, deviceInfo, fileDirty, testing, step, spi_buff, stale>>
      /\ shown' = IF flashing THEN shown ELSE Dark
  BY DEF Corners
<1>2. /\ drawn'.layouts = picture.layouts \cup {stored}
      /\ \/ /\ VMSBitmap' = before \cup RenderBitmapToPanels(Layout(stored), corners)
            /\ drawn'.pixels = picture.pixels \cup corners
         \/ /\ VMSBitmap' = before \ RenderBitmapToPanels(Layout(stored), corners)
            /\ drawn'.pixels = picture.pixels \ corners
  BY DEF Corners
<1>3. corners \in SUBSET (Nat \X Nat)
  BY <1>1, CornerPixels DEF IInv, Types
<1>4. PictureOK(before, picture) /\ (picture.layouts = {} => picture.pixels = {} /\ before = {})
  BY <1>1 DEF IInv, DrawnOK, PictureOK, Nothing
<1>5. stored \in Nat
  BY DEF IInv, Types
<1> HIDE DEF corners, before, picture
<1>6. PictureOK(VMSBitmap', drawn') /\ drawn'.layouts # {}
  BY <1>2, <1>3, <1>4, <1>5, AddOK
<1>7. DrawnOK'
  BY <1>1, <1>6 DEF DrawnOK
<1>8. Types' /\ StartOK'
  BY <1>1 DEF IInv, Types, StartOK, fileVars
<1>9. InPlace'
  <2>1. CASE flashing
    BY <1>1, <2>1 DEF IInv, InPlace, Seen
  <2>2. CASE ~flashing
    BY <1>1, <2>2, DarkInPlace
  <2>3. QED
    BY <2>1, <2>2
<1>10. QED
  BY <1>1, <1>7, <1>8, <1>9 DEF IInv, PictureOK

LEMMA TestModeIInv ==
  ASSUME IInv, TestMode
  PROVE  IInv'
<1>1. /\ testing' = TRUE /\ pc' = "update"
      /\ UNCHANGED <<fileVars, deviceInfo, fileDirty, flashing, step, spi_buff, shown, stale>>
  BY DEF TestMode
<1>2. PictureOK(VMSBitmap', drawn') /\ (drawn'.layouts = {} => drawn'.pixels = {})
  <2>1. CASE drawn' = Nothing
    BY <2>1 DEF PictureOK, Nothing
  <2>2. CASE \E image \in Images :
               /\ VMSBitmap' = RenderBitmapToPanels(Layout(stored), image)
               /\ drawn' = [pixels |-> image, layouts |-> {stored}, number |-> NoNumber]
    BY <2>2, PanelsAssumption DEF PictureOK
  <2>3. QED
    BY <2>1, <2>2 DEF TestMode
<1>3. DrawnOK'
  BY <1>1, <1>2 DEF DrawnOK
<1>4. Types' /\ StartOK' /\ InPlace'
  BY <1>1 DEF IInv, Types, StartOK, InPlace, Seen, fileVars
<1>5. QED
  BY <1>1, <1>3, <1>4 DEF IInv, PictureOK

LEMMA ClearedIInv ==
  ASSUME IInv, Refresh \/ NewFrame \/ Off
  PROVE  IInv'
<1>1. /\ VMSBitmap' = {} /\ drawn' = Nothing /\ shown' = Dark
      /\ pc' \in {"draw", "number", "handle"} /\ (pc' = "number" => ~testing')
      /\ UNCHANGED <<fileVars, spi_buff>> /\ deviceInfo' \in {deviceInfo, stored}
  BY DEF Refresh, NewFrame, Off, Clear, modeVars
<1>2. DrawnOK'
  BY <1>1, ClearOK DEF DrawnOK
<1>3. InPlace'
  BY <1>1, DarkInPlace
<1>4. Types' /\ StartOK'
  BY <1>1 DEF IInv, Types, StartOK, fileVars
<1>5. QED
  BY <1>1, <1>2, <1>3, <1>4 DEF IInv, PictureOK

LEMMA SendIInv ==
  ASSUME IInv, Send
  PROVE  IInv'
<1>1. shown'.picture.layouts = {shown'.sent} =>
        shown'.lamps = Seen(shown'.sent, shown'.picture.pixels)
  <2>1. shown' = [lamps |-> Stream(stored, spi_buff.lamps), picture |-> spi_buff.picture,
                  sent |-> stored]
    BY DEF Send
  <2>2. PictureOK(spi_buff.lamps, spi_buff.picture) /\ stored \in Nat
    BY DEF Send, IInv, Types
  <2>3. ASSUME spi_buff.picture.layouts = {stored}
        PROVE  Stream(stored, spi_buff.lamps) = Seen(stored, spi_buff.picture.pixels)
    BY <2>2, <2>3, PictureSeen DEF PictureOK
  <2>4. QED
    BY <2>1, <2>3
<1>2. UNCHANGED <<fileVars, mainVars, pc, step, drawVars>> /\ spi_buff' = NoFrame
  BY DEF Send
<1>3. Types' /\ DrawnOK' /\ StartOK'
  BY <1>2 DEF IInv, Types, DrawnOK, StartOK, PictureOK, fileVars, mainVars, modeVars, drawVars
<1>4. InPlace'
  BY <1>1, <1>2 DEF IInv, InPlace, drawVars
<1>5. QED
  BY <1>2, <1>3, <1>4 DEF IInv

LEMMA OtherIInv ==
  ASSUME IInv,
         \/ NoRefresh \/ SameFrame \/ Update \/ HandleCommands
         \/ Autoconf \/ AutoconfTold \/ UNCHANGED vars
  PROVE  IInv'
<1>1. /\ UNCHANGED <<frameset, modeVars, step, drawVars, shown>>
      /\ stored' \in {stored} \cup NewConfigs /\ deviceInfo' = deviceInfo
      /\ spi_buff' \in {spi_buff, [lamps |-> VMSBitmap, picture |-> drawn]}
  BY DEF NoRefresh, SameFrame, Update, UpdateFrameFast, HandleCommands, Autoconf, AutoconfTold,
         vars, fileVars, mainVars, modeVars, drawVars
<1>2. \/ pc' = pc /\ (fileDirty => fileDirty')
      \/ pc = "top" /\ ~fileDirty /\ pc' = "draw"
      \/ pc \in {"draw", "update"} /\ pc' = "handle"
      \/ pc = "handle" /\ pc' = "top" /\ (fileDirty => fileDirty')
  BY DEF NoRefresh, SameFrame, Update, HandleCommands, Autoconf, AutoconfTold, vars, mainVars
<1>3. Types'
  BY <1>1, PanelsAssumption DEF IInv, Types
<1>4. PictureOK(VMSBitmap', drawn') /\ PictureOK(VMSBitmap, drawn)
  BY <1>1 DEF IInv, DrawnOK, drawVars, PictureOK
<1>5. DrawnOK'
  BY <1>1, <1>2, <1>4 DEF IInv, DrawnOK, drawVars, modeVars
<1>6. StartOK'
  BY <1>1, <1>2 DEF IInv, StartOK, drawVars
<1>7. spi_buff' # NoFrame => PictureOK(spi_buff'.lamps, spi_buff'.picture)
  BY <1>1, <1>4 DEF IInv
<1>8. InPlace'
  BY <1>1, <1>2 DEF IInv, InPlace, Seen, drawVars
<1>9. QED
  BY <1>3, <1>5, <1>6, <1>7, <1>8 DEF IInv

LEMMA Invariance == Spec => []IInv
<1>1. IInv /\ [Next]_vars => IInv'
  BY StartIInv, DrawIInv, CornersIInv, TestModeIInv, ClearedIInv, SendIInv, OtherIInv
     DEF Next, Draw
<1>2. QED
  BY InitIInv, <1>1, PTL DEF Spec

\* The invariant holds in every state: pictures are seen where they were drawn.
THEOREM InPlaceHolds == Spec => []InPlace
<1>1. IInv => InPlace
  BY DEF IInv
<1>2. QED
  BY <1>1, Invariance, PTL

-----------------------------------------------------------------------------
(* OneStaleFrame *)

StaleInv ==
  /\ stale \in 0 .. 1
  /\ pc = "start" => fileDirty
  /\ Settled => drawn.layouts \subseteq {stored}
  /\ Settled /\ spi_buff # NoFrame /\ ~(spi_buff.picture.layouts \subseteq {stored}) => stale = 0

LEMMA StaleStep == StaleInv /\ [Next]_vars => StaleInv'
<1> SUFFICES ASSUME StaleInv, [Next]_vars PROVE StaleInv'
  OBVIOUS
<1> USE DEF StaleInv, Settled, fileVars, mainVars, modeVars, drawVars
<1>1. CASE RunStartSequence
  BY <1>1 DEF RunStartSequence, UpdateFrameFast, Nothing
<1>2. CASE Refresh
  BY <1>2 DEF Refresh, Clear, Nothing
<1>3. CASE NoRefresh
  BY <1>3 DEF NoRefresh
<1>4. CASE NewFrame
  BY <1>4 DEF NewFrame, Clear, Nothing
<1>5. CASE DrawNumber
  BY <1>5 DEF DrawNumber, RenderBitmap
<1>6. CASE DrawImage
  BY <1>6 DEF DrawImage, RenderBitmap
<1>7. CASE Corners
  <2>1. drawn'.layouts = (IF flashing THEN drawn ELSE Nothing).layouts \cup {stored}
    BY <1>7 DEF Corners
  <2>2. QED
    BY <1>7, <2>1 DEF Corners, Nothing
<1>8. CASE TestMode
  BY <1>8 DEF TestMode, Nothing
<1>9. CASE Off
  BY <1>9 DEF Off, Clear, Nothing
<1>10. CASE SameFrame
  BY <1>10 DEF SameFrame
<1>11. CASE Update
  BY <1>11 DEF Update, UpdateFrameFast
<1>12. CASE HandleCommands
  BY <1>12 DEF HandleCommands
<1>13. CASE Send
  BY <1>13 DEF Send
<1>14. CASE Autoconf
  BY <1>14 DEF Autoconf
<1>15. CASE AutoconfTold
  BY <1>15 DEF AutoconfTold
<1>16. CASE UNCHANGED vars
  BY <1>16 DEF vars
<1>17. QED
  BY <1>1, <1>2, <1>3, <1>4, <1>5, <1>6, <1>7, <1>8, <1>9, <1>10, <1>11, <1>12, <1>13, <1>14,
     <1>15, <1>16 DEF Next, Draw

\* After the main loop has taken over a configuration one scrambled frame at
\* most comes out.
THEOREM OneStaleFrameHolds == Spec => []OneStaleFrame
<1>1. Init => StaleInv
  BY DEF Init, StaleInv, Settled, Nothing
<1>2. StaleInv => OneStaleFrame
  BY DEF StaleInv, OneStaleFrame
<1>3. QED
  BY <1>1, <1>2, StaleStep, PTL DEF Spec

-----------------------------------------------------------------------------
(* NumberReadable: where a number of one or two digits goes *)

\* A pixel of a glyph that lies within the size is drawn where it belongs.
LEMMA CharDrawn ==
  ASSUME NEW glyph, glyph.cols \subseteq Int, glyph.rows \subseteq Int,
         NEW xPos \in Int, NEW yPos \in Int,
         NEW c \in glyph.cols, NEW r \in glyph.rows,
         NEW size, size.width \in 0 .. MAX_BMP_WIDTH, size.height \in Nat,
         xPos + c \in 0 .. size.width - 1, yPos + r \in 0 .. size.height - 1
  PROVE  <<xPos + c, yPos + r>> \in WriteChar(glyph, xPos, yPos, size)
<1> DEFINE p == xPos + c + (yPos + r) * MAX_BMP_WIDTH
           cols == {x \in glyph.cols : xPos + x < size.width}
           rows == {y \in glyph.rows : yPos + y < size.height}
           drawn0 == {q \in {xPos + x + (yPos + y) * MAX_BMP_WIDTH : x \in cols, y \in rows} :
                        q >= 0}
<1>1. PICK X \in 0 .. 59, Y \in Nat : X = xPos + c /\ Y = yPos + r
  BY DEF MAX_BMP_WIDTH
<1>2. p = X + 60 * Y /\ p \in Nat
  BY <1>1 DEF MAX_BMP_WIDTH
<1>3. p % MAX_BMP_WIDTH = X /\ p \div MAX_BMP_WIDTH = Y
  <2>1. (X + 60 * Y) % 60 = X /\ (X + 60 * Y) \div 60 = Y
    OBVIOUS
  <2>2. QED
    BY <1>2, <2>1 DEF MAX_BMP_WIDTH
<1>4. c \in cols /\ r \in rows
  BY <1>1
<1>5. p \in drawn0
  BY <1>2, <1>4
<1>6. WriteChar(glyph, xPos, yPos, size)
        = {<<q % MAX_BMP_WIDTH, q \div MAX_BMP_WIDTH>> : q \in drawn0}
  BY DEF WriteChar
<1> HIDE DEF p, drawn0
<1>7. QED
  BY <1>1, <1>3, <1>5, <1>6

\* In every font the tens end left of the units.
LEMMA DigitsApart ==
  ASSUME NEW font \in 0 .. 5, NEW d \in Digits, NEW e \in Digits,
         NEW c \in GlyphOf(font)[d].cols, NEW k \in GlyphOf(font)[e].cols
  PROVE  c < Step(font) + Gap(font) + k
<1>1. CASE font = 0
  BY <1>1 DEF GlyphOf, Small, Glyph, Digits, Step, Gap
<1>2. CASE font = 1
  BY <1>2 DEF GlyphOf, Normal, Glyph, Digits, Step, Gap
<1>3. CASE font = 2
  BY <1>3 DEF GlyphOf, Bold, Glyph, Digits, Step, Gap
<1>4. CASE font = 3
  BY <1>4 DEF GlyphOf, Large, Glyph, Digits, Step, Gap
<1>5. CASE font = 4
  BY <1>5 DEF GlyphOf, Huge, Glyph, Digits, Step, Gap
<1>6. CASE font = 5
  BY <1>6 DEF GlyphOf, Enormous, Glyph, Digits, Step, Gap
<1>7. QED
  BY <1>1, <1>2, <1>3, <1>4, <1>5, <1>6

\* Where the digits of a number below 100 go.
LEMMA TwoDigits ==
  ASSUME NEW font \in 0 .. 5, NEW speed \in 1 .. 99, NEW x \in Int
  PROVE  /\ DigitX(font, speed, x, 0) = x + Step(font) + Gap(font)
         /\ DigitX(font, speed, x, 1) = x
         /\ DigitX(font, speed, x, 0) \in Int
         /\ Step(font) \in Int /\ Gap(font) \in Int
         /\ Digit(speed, 0) \in Digits /\ Digit(speed, 1) \in Digits
         /\ Written(speed, 0) /\ (speed >= 10 => Written(speed, 1))
<1>1. Step(font) \in Int /\ Gap(font) \in Int
  BY DEF Step, Gap
<1>2. dig3offset(font, speed) = 0
  BY DEF dig3offset
<1>3. Digit(speed, 0) = speed % 10 /\ Digit(speed, 1) = (speed \div 10) % 10
  BY DEF Digit
<1>4. QED
  BY <1>1, <1>2, <1>3 DEF DigitX, Digits, Written

\* A pixel where a digit belongs and the sign has room is drawn.
LEMMA PlaceDrawn ==
  ASSUME NEW config \in Nat, GetDimensions(config).width # 0,
         NEW x \in Int, NEW y \in Int, NEW font \in 0 .. 5, NEW speed \in 1 .. 99,
         NEW i \in 0 .. 1, Written(speed, i),
         NEW c \in GlyphOf(font)[Digit(speed, i)].cols,
         NEW r \in GlyphOf(font)[Digit(speed, i)].rows,
         <<DigitX(font, speed, x, i) + c, y + r>>
           \in (0 .. Layout(config).width - 1) \X (0 .. Layout(config).height - 1)
  PROVE  <<DigitX(font, speed, x, i) + c, y + r>> \in WriteSpeed(x, y, config, speed, font)
<1> DEFINE size == GetDimensions(config)
           X == DigitX(font, speed, x, i)
           glyph == GlyphOf(font)[Digit(speed, i)]
           front == WriteChar(GlyphOf(font)[1], FrontX(font, speed, x), y, size)
           digit(j) == WriteChar(GlyphOf(font)[Digit(speed, j)], DigitX(font, speed, x, j), y, size)
<1>1. /\ size.width \in 0 .. MAX_BMP_WIDTH /\ size.height \in Nat
      /\ size.width = Layout(config).width /\ size.height = Layout(config).height
  <2>1. config # 0
    BY DEF Layout, NoLayout
  <2>2. size.width > 0
    BY SizesInt
  <2>3. size.width \in 0 .. MAX_BMP_WIDTH
    BY DEF GetDimensions, MAX_BMP_WIDTH
  <2>4. QED
    BY <2>1, <2>2, <2>3, SizesAgree, SizesInt
<1>2. glyph.cols \subseteq Int /\ glyph.rows \subseteq Int /\ X \in Int
  <2>1. Digit(speed, i) \in Digits /\ X \in Int
    <3>1. /\ DigitX(font, speed, x, 0) \in Int /\ DigitX(font, speed, x, 1) \in Int
          /\ Digit(speed, 0) \in Digits /\ Digit(speed, 1) \in Digits
      BY TwoDigits
    <3>2. i = 0 \/ i = 1
      OBVIOUS
    <3>3. QED
      BY <3>1, <3>2
  <2>2. QED
    BY <2>1, GlyphInt
<1> HIDE DEF X, glyph, size
<1>3. <<X + c, y + r>> \in WriteChar(glyph, X, y, size)
  <2>1. X + c \in 0 .. size.width - 1 /\ y + r \in 0 .. size.height - 1
    BY <1>1 DEF X
  <2>2. c \in glyph.cols /\ r \in glyph.rows
    BY DEF glyph
  <2>3. QED
    BY <1>1, <1>2, <2>1, <2>2, CharDrawn
<1>4. <<X + c, y + r>> \in digit(i)
  BY <1>3 DEF X, glyph, size
<1> HIDE DEF digit, front
<1>5. WriteSpeed(x, y, config, speed, font) =
        IF speed = 0 THEN {}
        ELSE (IF speed >= 100 THEN front ELSE {})
               \cup UNION {digit(j) : j \in {k \in 0 .. 2 : Written(speed, k)}}
  BY DEF WriteSpeed, front, digit, size
<1>6. QED
  BY <1>4, <1>5 DEF X

-----------------------------------------------------------------------------
\* What is drawn of a number is in the picture that goes by its name, drawn or
\* queued or shown; flashing corners, which erase pixels, have no number.
NumberDrawn(picture) ==
  picture.number # NoNumber =>
    \E speed \in Nat, config \in Nat :
      /\ picture.number = [speed |-> speed, for |-> config]
      /\ WriteSpeed(frameset.x, frameset.y, config, speed, frameset.font) \subseteq picture.pixels

NumberInv ==
  /\ NumberDrawn(drawn)
  /\ spi_buff # NoFrame => NumberDrawn(spi_buff.picture)
  /\ NumberDrawn(shown.picture)
  /\ flashing => drawn.number = NoNumber
  /\ pc \in {"number", "image"} => ~flashing

LEMMA NothingNumber == Nothing.number = NoNumber /\ Dark.picture = Nothing
BY DEF Nothing, Dark

LEMMA NumberInit == Init => NumberInv
BY NothingNumber DEF Init, NumberInv, NumberDrawn

LEMMA NumberStep == IInv /\ NumberInv /\ [Next]_vars => NumberInv'
<1> SUFFICES ASSUME IInv, NumberInv, [Next]_vars PROVE NumberInv'
  OBVIOUS
<1> USE DEF NumberInv, NumberDrawn, fileVars, mainVars, modeVars, drawVars
<1>1. CASE RunStartSequence
  BY <1>1, NothingNumber DEF RunStartSequence, UpdateFrameFast, NoFrame
<1>2. CASE Refresh
  BY <1>2, NothingNumber DEF Refresh, Clear
<1>3. CASE NewFrame
  BY <1>3, NothingNumber DEF NewFrame, Clear
<1>4. CASE Off
  BY <1>4, NothingNumber DEF Off, Clear
<1>5. CASE DrawNumber
  <2>1. PICK speed \in Speeds :
           RenderBitmap(WriteSpeed(frameset.x, frameset.y, deviceInfo, speed, frameset.font),
                        [speed |-> speed, for |-> deviceInfo])
    BY <1>5 DEF DrawNumber
  <2>2. /\ drawn'.number = [speed |-> speed, for |-> deviceInfo]
        /\ WriteSpeed(frameset.x, frameset.y, deviceInfo, speed, frameset.font)
             \subseteq drawn'.pixels
    BY <2>1 DEF RenderBitmap
  <2>3. speed \in Nat /\ deviceInfo \in Nat
    BY PanelsAssumption DEF IInv, Types
  <2>4. /\ UNCHANGED <<frameset, flashing, spi_buff, shown>>
        /\ pc = "number" /\ pc' \in {"image", "update"}
    BY <1>5 DEF DrawNumber
  <2>5. NumberDrawn(drawn)'
    BY <2>2, <2>3, <2>4
  <2>6. QED
    BY <2>4, <2>5
<1>6. CASE DrawImage
  <2>1. PICK image \in Images : RenderBitmap(image, drawn.number)
    BY <1>6 DEF DrawImage
  <2>2. drawn'.number = drawn.number /\ drawn.pixels \subseteq drawn'.pixels
    BY <2>1 DEF RenderBitmap
  <2>3. /\ UNCHANGED <<frameset, flashing, spi_buff, shown>>
        /\ pc \in {"number", "image"} /\ pc' = "update"
    BY <1>6 DEF DrawImage
  <2>4. NumberDrawn(drawn)'
    BY <2>2, <2>3
  <2>5. QED
    BY <2>3, <2>4
<1>7. CASE Corners
  <2>1. drawn'.number = (IF flashing THEN drawn ELSE Nothing).number
    BY <1>7 DEF Corners
  <2>2. drawn'.number = NoNumber
    BY <2>1, NothingNumber
  <2>3. /\ UNCHANGED <<frameset, spi_buff>> /\ shown' \in {shown, Dark} /\ pc' = "update"
    BY <1>7 DEF Corners
  <2>4. QED
    BY <2>2, <2>3, NothingNumber
<1>8. CASE TestMode
  BY <1>8, NothingNumber DEF TestMode
<1>9. CASE Update
  BY <1>9 DEF Update, UpdateFrameFast
<1>10. CASE Send
  BY <1>10 DEF Send
<1>11. CASE NoRefresh \/ SameFrame \/ HandleCommands
  BY <1>11 DEF NoRefresh, SameFrame, HandleCommands
<1>12. CASE Autoconf \/ AutoconfTold \/ UNCHANGED vars
  BY <1>12 DEF Autoconf, AutoconfTold, vars
<1>13. QED
  BY <1>1, <1>2, <1>3, <1>4, <1>5, <1>6, <1>7, <1>8, <1>9, <1>10, <1>11, <1>12 DEF Next, Draw

\* The places of a number's digit are the glyph's pixels.
LEMMA NumberPlaces ==
  ASSUME IInv, NEW config \in Nat, GetDimensions(config).width # 0, NEW speed \in 1 .. 99,
         NEW n, n = [speed |-> speed, for |-> config]
  PROVE  LET units == Places(n, 0)
             tens  == IF speed < 10 THEN {} ELSE Places(n, 1)
             l     == Layout(config)
         IN  /\ units \cap tens = {}
             /\ units \cup tens \subseteq (0 .. l.width - 1) \X (0 .. l.height - 1) =>
                  units \cup tens
                    \subseteq WriteSpeed(frameset.x, frameset.y, config, speed, frameset.font)
<1> DEFINE font == frameset.font
           X(i) == DigitX(font, speed, frameset.x, i)
           glyph(i) == GlyphOf(font)[Digit(speed, i)]
           room == (0 .. Layout(config).width - 1) \X (0 .. Layout(config).height - 1)
           drawn0 == WriteSpeed(frameset.x, frameset.y, config, speed, font)
<1>1. font \in 0 .. 5 /\ frameset.x \in Int /\ frameset.y \in Int
  BY DEF IInv, Types
<1>2. ASSUME NEW i \in 0 .. 1
      PROVE  Places(n, i) = {<<X(i) + c, frameset.y + r>> : c \in glyph(i).cols, r \in glyph(i).rows}
  BY DEF Places
<1>3. Places(n, 0) \cap Places(n, 1) = {}
  <2> SUFFICES ASSUME NEW p \in Places(n, 0), p \in Places(n, 1) PROVE FALSE
    OBVIOUS
  <2>1. PICK k \in glyph(0).cols, q \in glyph(0).rows : p = <<X(0) + k, frameset.y + q>>
    BY <1>2
  <2>2. PICK c \in glyph(1).cols, r \in glyph(1).rows : p = <<X(1) + c, frameset.y + r>>
    BY <1>2
  <2>3. Digit(speed, 0) \in Digits /\ Digit(speed, 1) \in Digits
    BY <1>1, TwoDigits
  <2>4. c < Step(font) + Gap(font) + k
    BY <1>1, <2>3, DigitsApart
  <2>5. c \in Int /\ k \in Int
    BY <1>1, <2>3, GlyphInt
  <2>6. X(0) = frameset.x + Step(font) + Gap(font) /\ X(1) = frameset.x
        /\ Step(font) \in Int /\ Gap(font) \in Int
    BY <1>1, TwoDigits
  <2>7. X(0) + k = X(1) + c
    BY <2>1, <2>2
  <2> HIDE DEF X, font
  <2>8. QED
    BY <1>1, <2>4, <2>5, <2>6, <2>7
<1>4. ASSUME NEW i \in 0 .. 1, Written(speed, i), Places(n, i) \subseteq room
      PROVE  Places(n, i) \subseteq drawn0
  <2> SUFFICES ASSUME NEW c \in glyph(i).cols, NEW r \in glyph(i).rows
               PROVE  <<X(i) + c, frameset.y + r>> \in drawn0
    BY <1>2
  <2>1. <<X(i) + c, frameset.y + r>> \in room
    BY <1>2, <1>4
  <2>2. QED
    BY <1>1, <1>4, <2>1, PlaceDrawn
<1>5. Written(speed, 0) /\ (speed >= 10 => Written(speed, 1))
  BY <1>1, TwoDigits
<1> HIDE DEF room, drawn0
<1>6. QED
  BY <1>3, <1>4, <1>5 DEF room, drawn0

\* A number of one or two digits that there is room for is whole, for every
\* configuration, font, place and number.
THEOREM NumberReadableHolds == Spec => []NumberReadable
<1>1. IInv /\ NumberInv => NumberReadable
  <2> SUFFICES ASSUME IInv, NumberInv PROVE NumberReadable
    OBVIOUS
  <2> DEFINE n == shown.picture.number
  <2>1. CASE n = NoNumber
    BY <2>1 DEF NumberReadable
  <2>2. CASE n # NoNumber
    <3>1. PICK speed \in Nat, config \in Nat :
            /\ n = [speed |-> speed, for |-> config]
            /\ WriteSpeed(frameset.x, frameset.y, config, speed, frameset.font)
                 \subseteq shown.picture.pixels
      BY <2>2 DEF NumberInv, NumberDrawn
    <3>2. n.speed = speed /\ n.for = config
      BY <3>1
    <3>3. CASE speed \notin 1 .. 99 \/ GetDimensions(config).width = 0
      BY <3>2, <3>3 DEF NumberReadable
    <3>4. CASE speed \in 1 .. 99 /\ GetDimensions(config).width # 0
      <4> HIDE DEF n
      <4>1. LET units == Places(n, 0)
                tens  == IF speed < 10 THEN {} ELSE Places(n, 1)
                l     == Layout(config)
            IN  /\ units \cap tens = {}
                /\ units \cup tens \subseteq (0 .. l.width - 1) \X (0 .. l.height - 1) =>
                     units \cup tens \subseteq shown.picture.pixels
        BY <3>1, <3>4, NumberPlaces
      <4>2. QED
        BY <3>2, <4>1, Zenon DEF NumberReadable, n
    <3>5. QED
      BY <3>3, <3>4
  <2>3. QED
    BY <2>1, <2>2
<1>2. QED
  BY <1>1, Invariance, NumberInit, NumberStep, PTL DEF Spec
=============================================================================
