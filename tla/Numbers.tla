------------------------------- MODULE Numbers -------------------------------
(***************************************************************************)
(* How a speed is drawn (VMSDriver_WriteSpeed of src/VMSDriver.cpp with    *)
(* the digits of include/fonts.h): where each digit goes, and the columns  *)
(* and rows its glyph takes. A picture is a set of pixels <<x, y>>.        *)
(***************************************************************************)
EXTENDS PanelMap

Digits == 0 .. 9

\* The columns of a digit's glyph that have a lamp on, and its rows.
Glyph(wide, one, rows) ==
  [d \in Digits |-> [cols |-> IF d = 1 THEN one ELSE wide, rows |-> rows]]

Small        == Glyph(0 .. 4, 1 .. 3, 0 .. 6)        \* Font0
Normal       == Glyph(1 .. 6, 2 .. 6, 0 .. 8)        \* Font1
Bold         == Glyph(0 .. 7, 2 .. 5, 0 .. 9)        \* Font2
Large        == Glyph(0 .. 7, 1 .. 5, 0 .. 12)       \* Font5
Huge         == Glyph(0 .. 11, 2 .. 9, 0 .. 17)      \* Font4
Enormous     ==                                      \* Font6
  [Glyph(0 .. 15, 0 .. 15, 0 .. 23) EXCEPT ![5].cols = 0 .. 14, ![6].cols = 0 .. 14]

GlyphOf(font) ==
  CASE font = 0 -> Small [] font = 1 -> Normal [] font = 2 -> Bold
    [] font = 3 -> Large [] font = 4 -> Huge [] font = 5 -> Enormous

\* The columns of a one, in a table of their own.
Digit1_XRange == << <<1, 3>>, <<2, 6>>, <<2, 5>>, <<1, 5>>, <<2, 9>>, <<3, 12>> >>

\* Half a one: what the number moves to the right when it has three digits.
dig3offset(font, speed) ==
  IF speed >= 100
  THEN (Digit1_XRange[font + 1][2] - Digit1_XRange[font + 1][1] + 2) \div 2 ELSE 0

\* Seeded fault: the digits of font 4 are set as closely as those of font 3.
Step_Close(font) == CASE font = 0 -> 5 [] font \in 1 .. 4 -> 8 [] font = 5 -> 16

\* How far the digits are apart, and the units from the others.
Step(font) == CASE font = 0 -> 5 [] font \in {1, 2, 3} -> 8 [] font = 4 -> 12 [] font = 5 -> 16
Gap(font)  == IF font = 1 THEN 0 ELSE 1

\* Where digit i from the right goes.
DigitX(font, speed, x, i) ==
  x + Step(font) - i * Step(font) + (IF i = 0 THEN Gap(font) ELSE 0) + dig3offset(font, speed)

\* Where the one in front goes, when there are three digits.
FrontX(font, speed, x) ==
  x - dig3offset(font, speed) - (IF font \in {2, 4, 5} THEN 3 ELSE 1)

\* One of the five routines that write a digit. A column left of the picture
\* ends in the line above.
WriteChar(glyph, xPos, yPos, size) ==
  {<<p % MAX_BMP_WIDTH, p \div MAX_BMP_WIDTH>> :
     p \in {q \in {xPos + x + (yPos + y) * MAX_BMP_WIDTH :
                     x \in {c \in glyph.cols : xPos + c < size.width},
                     y \in {r \in glyph.rows : yPos + r < size.height}} : q >= 0}}

\* Digit i from the right.
Digit(speed, i) ==
  CASE i = 0 -> speed % 10 [] i = 1 -> (speed \div 10) % 10 [] i = 2 -> (speed \div 100) % 10

\* No zero in front, unless the number has three digits.
Written(speed, i) == Digit(speed, i) # 0 \/ i = 0 \/ speed >= 100

WriteSpeed(x, y, panelsConfig, speed, font) ==
  LET size  == GetDimensions(panelsConfig)
      front == IF speed >= 100
               THEN WriteChar(GlyphOf(font)[1], FrontX(font, speed, x), y, size) ELSE {}
      digit(i) == WriteChar(GlyphOf(font)[Digit(speed, i)], DigitX(font, speed, x, i), y, size)
  IN  IF speed = 0 THEN {}
      ELSE front \cup UNION {digit(i) : i \in {j \in 0 .. 2 : Written(speed, j)}}

\* The four corners that flash.
MakeCornerBitmap(size) ==
  UNION {{<<i, j>>, <<i + size.width - 3, j>>, <<i, j + size.height - 3>>,
          <<i + size.width - 3, j + size.height - 3>>} : i \in 0 .. 2, j \in 0 .. 2}
=============================================================================
