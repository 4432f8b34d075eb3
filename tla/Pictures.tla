------------------------------ MODULE Pictures ------------------------------
(***************************************************************************)
(* The user's pictures and the image library, as they are converted        *)
(* between the pixels of a sign, the bytes of their files, the digits the  *)
(* host (src/CommProt.cpp) and the browser (src/webservices.cpp,           *)
(* html/js/bitmaps.js) send and are sent, and the pages a library is       *)
(* listed in (src/FileRoutines.cpp). Bytes are the set of the bits that    *)
(* are on, bit b of byte i being the number 8 * i + b; digits are a set of *)
(* pairs, <<i, b>> being bit b of digit i.                                 *)
(***************************************************************************)
EXTENDS PanelMap, FiniteSetsExt, SequencesExt

CONSTANT PageSize       \* 10: names in one part of a list

ASSUME PageAssumption == PageSize \in Nat \ {0}

MAX_BITMAPS == 500
MAX_BMP_HEIGHT == 48
BitmapBytes == (MAX_BMP_WIDTH * MAX_BMP_HEIGHT) \div 8
BitmapS     == 0 .. 8 * BitmapBytes - 1

-----------------------------------------------------------------------------
(* Digits *)

\* Of the text's digits, counted from its end, two make a byte.
StringToHex(length, digits, bytes) ==
  {8 * (bytes - 1 - ((length - 1) \div 2 - d[1] \div 2)) + (IF d[1] % 2 = 0 THEN 4 ELSE 0) + d[2] :
     d \in digits}

HexToString(bits) ==
  {<<2 * (p \div 8) + (IF p % 8 >= 4 THEN 0 ELSE 1), p % 4>> : p \in bits}

\* Three bytes make four characters, the first byte the first ones.
EncodeBase64(bits) ==
  LET inToken(p) == 8 * (2 - ((p \div 8) % 3)) + (p % 8)
  IN  {<<4 * (p \div 24) + 3 - inToken(p) \div 6, inToken(p) % 6>> : p \in bits}

\* What the host makes of digits, and how it writes a picture.
FromHex(digits) ==
  {8 * (d[1] \div 2) + (IF d[1] % 2 = 0 THEN 4 ELSE 0) + d[2] : d \in digits}
FromBase64(chars) ==
  LET inToken(c) == 6 * (3 - (c[1] % 4)) + c[2]
  IN  {8 * (3 * (c[1] \div 4) + 2 - inToken(c) \div 8) + (inToken(c) % 8) : c \in chars}

-----------------------------------------------------------------------------
(* Pixels *)

Grid(size) == (0 .. size.width - 1) \X (0 .. size.height - 1)

\* The grid the web pages draw for a configuration.
WebGrid(panelsConfig) ==
  LET size == GetDimensions(panelsConfig)
  IN  IF size.width = 0 THEN [width |-> MAX_BMP_WIDTH, height |-> MAX_BMP_HEIGHT] ELSE size

IndexOf(p) == MAX_BMP_WIDTH * p[2] + p[1]

\* get_bitmap and get_bitmap_data
get_bitmap_data(panelsConfig, bits) == {p \in Grid(WebGrid(panelsConfig)) : IndexOf(p) \in bits}

\* The digits the browser sends.
save_image(pixels) ==
  {<<2 * (IndexOf(p) \div 8) + (IF IndexOf(p) % 8 >= 4 THEN 0 ELSE 1), IndexOf(p) % 4>> : p \in pixels}

\* Seeded fault: the high digit of a byte is taken for the low one.
check_bitmap_bit_NoSwap(w, x, y, digits) ==
  LET idx == y * w + x
  IN  <<idx \div 4, idx % 4>> \in digits

check_bitmap_bit(w, x, y, digits) ==
  LET idx   == y * w + x
      digit == idx \div 4
  IN  <<IF digit % 2 = 0 THEN digit + 1 ELSE digit - 1, idx % 4>> \in digits

-----------------------------------------------------------------------------
(* The library: its size, images of a name and a set of pixels, sequences    *)
(* of a name, the delay of a frame and the numbers of the images.            *)

\* The bits of an image, which is stored line by line without gaps.
Stored(library, image) == {library.width * p[2] + p[1] : p \in image.pixels}

libraryCheckWidthHeight(library, panelsConfig) ==
  LET size == DimensionsFromConfig(panelsConfig)
  IN  library.width = size.width /\ library.height = size.height

NamesOf(entries) == [i \in DOMAIN entries |-> entries[i].name]

\* Seeded fault: the name at startIdx is passed over.
Page_Skips(entries, startIdx) ==
  SubSeq(NamesOf(entries), startIdx + 2, Min({startIdx + PageSize, Len(entries)}))

\* The names from startIdx on.
Page(entries, startIdx) ==
  SubSeq(NamesOf(entries), startIdx + 1, Min({startIdx + PageSize, Len(entries)}))

EnumEntries(library, entries, panelsConfig, startIdx) ==
  IF libraryCheckWidthHeight(library, panelsConfig)
  THEN [total |-> Len(entries), names |-> Page(entries, startIdx)]
  ELSE [total |-> 0, names |-> <<>>]

libraryEnumImages(library, panelsConfig, startIdx) ==
  EnumEntries(library, library.images, panelsConfig, startIdx)
libraryEnumSequences(library, panelsConfig, startIdx) ==
  EnumEntries(library, library.sequences, panelsConfig, startIdx)

\* The digits of the image; for an index behind the last one what is in the
\* buffer: the number of images, and junk.
libraryReadImage(library, panelsConfig, imageIdx, junk) ==
  CASE ~libraryCheckWidthHeight(library, panelsConfig) -> [valid |-> FALSE, digits |-> {}]
    [] imageIdx \notin 0 .. Len(library.images) - 1    -> [valid |-> TRUE, digits |-> junk]
    [] OTHER -> [valid  |-> TRUE,
                 digits |-> HexToString(Stored(library, library.images[imageIdx + 1]))]

\* The answer to an index behind the last one is what was in the buffer.
libraryReadSequence(library, panelsConfig, seqIdx) ==
  IF libraryCheckWidthHeight(library, panelsConfig) /\ seqIdx \in 0 .. Len(library.sequences) - 1
  THEN {<<library.sequences[seqIdx + 1].frameDelay, library.sequences[seqIdx + 1].frames>>}
  ELSE {}

Unnamed == ""

\* The names strtok finds in a part: it passes over empty ones.
Tokens(names) ==
  LET upTo[k \in 0 .. Len(names)] ==
        IF k = 0 THEN <<>>
        ELSE IF names[k] = Unnamed THEN upTo[k - 1] ELSE Append(upTo[k - 1], names[k])
  IN  upTo[Len(names)]

\* The whole list, page after page, as the web page is given it: from the
\* c-th name on. A page without names ends it.
AllNames(total, page) ==
  LET from[c \in 0 .. total] ==
        IF c = total \/ Tokens(page[c]) = <<>> THEN <<>>
        ELSE Tokens(page[c]) \o from[Min({c + Len(Tokens(page[c])), total})]
  IN  from[0]

enum_library_contents(library, panelsConfig) ==
  LET images(c)    == libraryEnumImages(library, panelsConfig, c)
      sequences(c) == libraryEnumSequences(library, panelsConfig, c)
  IN  [images    |-> AllNames(images(0).total,
                              [c \in 0 .. images(0).total - 1 |-> images(c).names]),
       sequences |-> AllNames(sequences(0).total,
                              [c \in 0 .. sequences(0).total - 1 |-> sequences(c).names])]

\* get_library_bitmap and get_library_bitmap_data
get_library_bitmap_data(library, panelsConfig, id, junk) ==
  LET size  == WebGrid(panelsConfig)
      image == libraryReadImage(library, panelsConfig, id, junk)
  IN  {p \in Grid(size) : image.valid /\ check_bitmap_bit(size.width, p[1], p[2], image.digits)}
=============================================================================
