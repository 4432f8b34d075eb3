------------------------------- MODULE Store --------------------------------
(***************************************************************************)
(* The pictures and the image library in the store, which the host and the *)
(* pages of the browsers read and write (src/CommProt.cpp,                 *)
(* src/webservices.cpp, src/FileRoutines.cpp, html/js/bitmaps.js), with    *)
(* the sessions the browsers need for it and the listing of its            *)
(* directories. The main loop answers one request at a time; between two   *)
(* requests of a browser anything may happen.                              *)
(***************************************************************************)
EXTENDS Listing, Pictures

CONSTANTS
  Scenes,      \* the requests made together, the browsers that make them and
               \* those of them that have logged in before, at which level, how
               \* much happens, the files and the configurations at first
  Ids,         \* numbers of pictures, of the MAX_BITMAPS
  HostPictures,  \* what the host sends: [length, bits], length in bytes
  Junk,        \* what uninitialised memory may hold
  Pens,        \* the pixels a user may change
  Configs,     \* panel configurations
  Libraries    \* that may be uploaded

ASSUME StoreAssumption ==
  /\ \A s \in Scenes : s.levels \subseteq UserLevels /\ s.loggedIn \cup s.browsers \subseteq Browsers
                         /\ s.files \subseteq [Dirs -> SUBSET Names]
  /\ Configs \subseteq Nat /\ \A s \in Scenes : s.configs \subseteq Nat
  /\ Ids \subseteq 0 .. MAX_BITMAPS - 1
  /\ Junk \subseteq SUBSET BitmapS
  /\ \A p \in HostPictures : p.length \in 1 .. BitmapBytes /\ p.bits \subseteq 0 .. 8 * p.length - 1

\* What an entry of a library consists of; its name is a string of C.
LibraryImages(size) == [name : STRING, pixels : SUBSET Grid(size)]
LibrarySequences == [name : STRING, frameDelay : Nat, frames : Seq(Nat)]

ASSUME LibraryAssumption ==
  \A lib \in Libraries :
    /\ lib = [width |-> lib.width, height |-> lib.height,
              images |-> lib.images, sequences |-> lib.sequences]
    /\ lib.width \in Nat /\ lib.height \in Nat
    /\ lib.images \in Seq(LibraryImages(lib)) /\ lib.sequences \in Seq(LibrarySequences)

VARIABLES
  scene,
  panelsConfiguration,
  bitmaps,     \* per number: the bytes of its file; none on when there is no file
  library,     \* library.vil
  editors,     \* per browser: the picture it edits
  listed,      \* per browser: the images of the library its user may choose from
  meant        \* per number: the bits its last writer has meant to write, and
               \* those it has meant something by

pictureVars == <<panelsConfiguration, bitmaps, library, editors, listed, meant>>
vars == <<scene, events, sessionVars, listingVars, pictureVars>>

Closed    == [id |-> None, size |-> [width |-> 0, height |-> 0], pixels |-> {},
              meant |-> [bits |-> {}, known |-> {}]]
NoLibrary == [width |-> 0, height |-> 0, images |-> <<>>, sequences |-> <<>>]
NotListed == [images |-> <<>>, library |-> NoLibrary]

Init ==
  /\ scene \in Scenes
  /\ events = scene.events
  /\ \E level \in scene.levels : SessionInit(scene.loggedIn, level)
  /\ ListingInit
  /\ files \in scene.files
  /\ panelsConfiguration \in scene.configs
  /\ bitmaps = [id \in Ids |-> {}]
  /\ library = NoLibrary
  /\ editors = [b \in Browsers |-> Closed]
  /\ listed = [b \in Browsers |-> NotListed]
  /\ meant = [id \in Ids |-> [bits |-> {}, known |-> BitmapS]]

-----------------------------------------------------------------------------
(* The host *)

\* The bits of the first bytes of a file.
FirstBytes(n) == 0 .. 8 * n - 1

writeBitmap(id, bits) == bitmaps' = [bitmaps EXCEPT ![id] = bits]

\* The host counts the pictures from one; what it does not send of one is not
\* initialised.
processBMP(n, picture) ==
  LET imageIdx == n - 1
      sent     == StringToHex(2 * picture.length, HexToString(picture.bits), picture.length)
  IN  /\ Happens
      /\ IF imageIdx >= MAX_BITMAPS THEN UNCHANGED <<bitmaps, meant>>
         ELSE /\ \E junk \in Junk :
                   writeBitmap(imageIdx, sent \cup (junk \ FirstBytes(picture.length)))
              /\ meant' = [meant EXCEPT ![imageIdx] =
                             [bits |-> picture.bits, known |-> FirstBytes(picture.length)]]
      /\ UNCHANGED <<sessionVars, listingVars, panelsConfiguration, library, editors, listed>>

processGBM(n) == HexToString(bitmaps[n - 1])
\* The first of the two pictures of an answer.
processGCB(n) == EncodeBase64(bitmaps[n - 1])

processELI(startIdx) == libraryEnumImages(library, panelsConfiguration, startIdx)
processELS(startIdx) == libraryEnumSequences(library, panelsConfiguration, startIdx)
processRLI(imageIdx, junk) == libraryReadImage(library, panelsConfiguration, imageIdx, junk)
processRLS(seqIdx) == libraryReadSequence(library, panelsConfiguration, seqIdx)

-----------------------------------------------------------------------------
(* A browser: its user opens a picture, changes it, takes an image of the    *)
(* library over, and saves it.                                               *)

Within(size, bits) ==
  {i \in bits : i % MAX_BMP_WIDTH < size.width /\ i \div MAX_BMP_WIDTH < size.height}

edit_image(b, id) ==
  /\ listed[b] = NotListed
  /\ check_auth(b, b)
  /\ editors' =
       IF LevelOf(b, b) = Refused THEN editors
       ELSE LET size == WebGrid(panelsConfiguration)
            IN  [editors EXCEPT ![b] =
                   [id |-> id, size |-> size,
                    pixels |-> get_bitmap_data(panelsConfiguration, bitmaps[id]),
                    meant |-> [bits  |-> Within(size, meant[id].bits),
                               known |-> Within(size, meant[id].known)]]]
  /\ UNCHANGED <<events, listingVars, panelsConfiguration, bitmaps, library, listed, meant>>

\* A pixel is drawn, or erased.
Flip(set, e) == IF e \in set THEN set \ {e} ELSE set \cup {e}

on_editor_mousemove(b, p) ==
  LET e == editors[b]
  IN  /\ Happens
      /\ p \in Grid(e.size)
      /\ editors' = [editors EXCEPT
           ![b].pixels = Flip(e.pixels, p),
           ![b].meant = [bits  |-> IF p \in e.pixels THEN e.meant.bits \ {IndexOf(p)}
                                   ELSE e.meant.bits \cup {IndexOf(p)},
                         known |-> e.meant.known \cup {IndexOf(p)}]]
      /\ UNCHANGED <<sessionVars, listingVars, panelsConfiguration, bitmaps, library, listed, meant>>

load_from_library(b) ==
  /\ editors[b] # Closed
  /\ listed' = [listed EXCEPT ![b] =
                  [images  |-> enum_library_contents(library, panelsConfiguration).images,
                   library |-> library]]
  /\ UNCHANGED <<events, sessionVars, listingVars, panelsConfiguration, bitmaps, library, editors,
                 meant>>

\* What a response of this size is drawn into: the first line only, when its
\* lines are longer than those of the editor.
Drawn(size, response) ==
  {p \in Grid(size) : p[1] < response.width
                      /\ p[2] < (IF response.width > size.width THEN 1 ELSE response.height)}

\* The user means the image of the name chosen, when library and display are
\* still those of the list.
ImageMeant(b, i) ==
  LET images == listed[b].library.images
      image  == CHOOSE e \in ToSet(images) : e.name = listed[b].images[i + 1]
  IN  IF /\ listed[b].library = library /\ libraryCheckWidthHeight(library, panelsConfiguration)
         /\ WebGrid(panelsConfiguration) = editors[b].size
      THEN [bits |-> {IndexOf(p) : p \in image.pixels}, known |-> Within(editors[b].size, BitmapS)]
      ELSE [bits |-> {}, known |-> {}]

select_library_image(b, i) ==
  LET e    == editors[b]
      size == WebGrid(panelsConfiguration)
  IN  /\ e # Closed
      /\ i \in 0 .. Len(listed[b].images) - 1
      /\ check_auth(b, b)
      /\ listed' = [listed EXCEPT ![b] = NotListed]
      /\ IF LevelOf(b, b) = Refused THEN UNCHANGED editors
         ELSE \E junk \in Junk :
                editors' = [editors EXCEPT
                  ![b].pixels = (e.pixels \ Drawn(e.size, size))
                                \cup (get_library_bitmap_data(library, panelsConfiguration, i,
                                                              HexToString(junk))
                                      \cap Drawn(e.size, size)),
                  ![b].meant = ImageMeant(b, i)]
      /\ UNCHANGED <<events, listingVars, panelsConfiguration, bitmaps, library, meant>>

\* Once it is saved, or the user gives it up, the editor is closed.
save_bitmap(b) ==
  LET e == editors[b]
  IN  /\ Happens
      /\ e # Closed /\ listed[b] = NotListed
      /\ check_auth(b, b)
      /\ IF LevelOf(b, b) \in {0, 1}
         THEN /\ writeBitmap(e.id, StringToHex(2 * BitmapBytes, save_image(e.pixels), BitmapBytes))
              /\ meant' = [meant EXCEPT ![e.id] = e.meant]
              /\ editors' = [editors EXCEPT ![b] = Closed]
         ELSE UNCHANGED <<bitmaps, meant, editors>>
      /\ UNCHANGED <<listingVars, panelsConfiguration, library, listed>>

GiveUp(b) ==
  /\ editors[b] # Closed
  /\ editors' = [editors EXCEPT ![b] = Closed]
  /\ listed' = [listed EXCEPT ![b] = NotListed]
  /\ UNCHANGED <<events, sessionVars, listingVars, panelsConfiguration, bitmaps, library, meant>>

\* The library is replaced by one for this display.
upload(b, uploaded) ==
  /\ Happens
  /\ check_auth(b, b)
  /\ library' = IF LevelOf(b, b) = 0 /\ libraryCheckWidthHeight(uploaded, panelsConfiguration)
                THEN uploaded ELSE library
  /\ UNCHANGED <<listingVars, panelsConfiguration, bitmaps, editors, listed, meant>>

\* ConfigStore: host or browser changes the configuration.
Reconfigured(c) ==
  /\ Happens
  /\ panelsConfiguration' = c
  /\ UNCHANGED <<sessionVars, listingVars, bitmaps, library, editors, listed, meant>>

-----------------------------------------------------------------------------
Asked(request) == request \in scene.requests

Process ==
  \/ \E b \in scene.browsers : Asked("logins") /\ LogIn(b) /\ UNCHANGED <<listingVars, pictureVars>>
  \/ Tick /\ UNCHANGED <<listingVars, pictureVars>>
  \/ EndedByExpiredSalt /\ ListingRestarted /\ UNCHANGED pictureVars
  \/ Asked("clock") /\ SetClock /\ UNCHANGED <<listingVars, pictureVars>>
  \/ \E b \in scene.browsers : Asked("directories") /\ ListDirectories(b) /\ UNCHANGED pictureVars
  \/ \E b \in scene.browsers : Asked("directories") /\ ChangeFiles(b) /\ UNCHANGED pictureVars
  \/ /\ Asked("pictures")
     /\ \/ \E id \in Ids \cup {MAX_BITMAPS}, picture \in HostPictures : processBMP(id + 1, picture)
        \/ \E b \in scene.browsers :
             \/ \E id \in Ids : edit_image(b, id)
             \/ \E p \in Pens : on_editor_mousemove(b, p)
             \/ save_bitmap(b)
             \/ GiveUp(b)
        \/ \E c \in Configs : Reconfigured(c)
  \/ /\ Asked("library")
     /\ \E b \in scene.browsers :
          \/ load_from_library(b)
          \/ \E i \in 0 .. Len(listed[b].images) - 1 : select_library_image(b, i)
          \/ \E uploaded \in Libraries : upload(b, uploaded)

Next == Process /\ UNCHANGED scene

Spec == Init /\ [][Next]_vars

-----------------------------------------------------------------------------
AsMeant(bits, m) == bits \cap m.known = m.bits \cap m.known

\* However a picture was written last, by the host or by a browser, drawn or
\* taken from the library by its name, the host reads in either form, and a
\* browser shows, what its writer meant, as does the editor what its user
\* means; of a part that was not sent nothing is said.
PicturesAsMeant ==
  /\ \A id \in Ids :
       LET grid  == WebGrid(panelsConfiguration)
           shown == {IndexOf(p) : p \in get_bitmap_data(panelsConfiguration, bitmaps[id])}
       IN  /\ AsMeant(FromHex(processGBM(id + 1)), meant[id])
           /\ AsMeant(FromBase64(processGCB(id + 1)), meant[id])
           /\ AsMeant(shown, [meant[id] EXCEPT !.bits = Within(grid, @)])
  /\ \A b \in Browsers :
       AsMeant({IndexOf(p) : p \in editors[b].pixels}, editors[b].meant)

\* What is read by a place in the list is what the list names there: an image
\* or a sequence of the library, for the host, which asks for the list part by
\* part, and for a browser, which is given all of it.
ListedIsRead ==
  /\ \A startIdx \in 0 .. Len(library.images) :
       LET names == processELI(startIdx).names
       IN  \A k \in DOMAIN names : \E e \in ToSet(library.images) :
             /\ e.name = names[k]
             /\ processRLI(startIdx + k - 1, {}).digits = HexToString(Stored(library, e))
  /\ \A startIdx \in 0 .. Len(library.sequences) :
       LET names == processELS(startIdx).names
       IN  \A k \in DOMAIN names : \E e \in ToSet(library.sequences) :
             e.name = names[k] /\ processRLS(startIdx + k - 1) = {<<e.frameDelay, e.frames>>}
  /\ libraryCheckWidthHeight(library, panelsConfiguration) =>
       enum_library_contents(library, panelsConfiguration)
         = [images |-> NamesOf(library.images), sequences |-> NamesOf(library.sequences)]
=============================================================================
