------------------------------ MODULE Listing -------------------------------
(***************************************************************************)
(* Listing a directory of the data (GDL and CDL of src/CommProt.cpp,       *)
(* list_folder of src/webservices.cpp). The host is given a directory part *)
(* by part, a browser at once, and both go through ffind of                *)
(* src/SystemUtilities.cpp, which keeps the directory's names and its      *)
(* place among them in statics. In the meantime files come and go.         *)
(***************************************************************************)
EXTENDS WebSession, SequencesExt, FiniteSetsExt

CONSTANTS
  Dirs,        \* directories of the data
  Names,       \* that files may have
  ls,          \* the tool: what it prints for a set of names
  PerAnswer    \* as many fit into an answer: 450 characters

NoMask   == "none"
NoDir    == "/dev/null/xyz"
NoName   == ""
Anything == "?"        \* what a name has become whose list is gone

ASSUME ListingAssumption ==
  /\ PerAnswer \in Nat \ {0}
  /\ NoMask \notin Dirs
  /\ NoName \notin Names /\ Anything \notin Names
  /\ \A S \in SUBSET Names :
       ls[S] \in Seq(S) /\ IsInjective(ls[S]) /\ \A n \in S : \E i \in DOMAIN ls[S] : ls[S][i] = n

VARIABLES
  files,           \* per directory: the names in it
  lastmask,        \* ffind: the directory its names are of,
  dirList,         \* the names, or NoList,
  indexPtr,        \* the place of the name last given; behind the names is
                   \* one more, without a name
  FileSearchMask,  \* the host's directory
  FileSearchInfo,  \* what the host's last search has found
  heard            \* what the host was told since its last GDL: names, of
                   \* which; whether the last answer was empty; whether a
                   \* browser has listed meanwhile, or files were deleted

findVars    == <<lastmask, dirList, indexPtr>>
listingVars == <<files, lastmask, dirList, indexPtr, FileSearchMask, FileSearchInfo, heard>>

NoList   == <<>>
Ls(dir) == IF dir \in Dirs THEN ls[files[dir]] ELSE NoList

NothingFound == [valid |-> FALSE, name |-> NoName]
NotAsked     == [dir |-> NoMask, given |-> <<>>, all |-> <<>>, empty |-> FALSE,
                 disturbed |-> FALSE, deleted |-> FALSE]

ListingInit ==
  /\ lastmask = NoMask /\ dirList = NoList /\ indexPtr = 0
  /\ FileSearchMask = NoMask
  /\ FileSearchInfo = NothingFound
  /\ heard = NotAsked

-----------------------------------------------------------------------------
(* ffind, again and again until it finds no file or room names are given:    *)
(* the names given, and what it leaves behind.                               *)

\* From a place in dir's list on.
Scan(dir, list, from, room) ==
  LET end     == Len(list) + 1
      p       == Min({q \in from .. end :
                        q = end \/ q = from + room \/ list[q] \notin files[dir]})
  IN  [mask |-> dir, list |-> list, place |-> p, given |-> SubSeq(list, from, p - 1),
       info |-> IF p = end THEN [valid |-> TRUE, name |-> NoName]
                ELSE [valid |-> list[p] \in files[dir], name |-> list[p]]]

NotFound(mask) ==
  [mask |-> mask, list |-> NoList, place |-> 0, given |-> <<>>,
   info |-> [FileSearchInfo EXCEPT !.valid = FALSE]]

NewSearch(dir, room) ==
  IF Ls(dir) = NoList THEN NotFound(dir) ELSE Scan(dir, Ls(dir), 1, room)

\* With the mask of the last search ffind goes on in the list it has.
Search(dir, room) ==
  CASE lastmask # dir              -> NewSearch(dir, room)
    [] dirList = NoList            -> NotFound(dir)
    [] indexPtr > Len(dirList)     -> NotFound(NoMask)
    [] OTHER                       -> Scan(dir, dirList, indexPtr + 1, room)

Left(search) ==
  lastmask' = search.mask /\ dirList' = search.list /\ indexPtr' = search.place

-----------------------------------------------------------------------------
(* The host's listing *)

\* $DIR
Told(names) ==
  heard' = IF heard.disturbed THEN heard
           ELSE [heard EXCEPT !.given = @ \o names, !.empty = (names = <<>>)]

processGDL(dir) ==
  LET search == NewSearch(dir, PerAnswer)
  IN  /\ FileSearchMask' = dir
      /\ FileSearchInfo' = search.info
      /\ Left(search)
      /\ heard' = [dir |-> dir, given |-> search.given, all |-> Ls(dir),
                   empty |-> search.given = <<>>, disturbed |-> FALSE, deleted |-> FALSE]
      /\ UNCHANGED <<sessionVars, events, files>>

\* The names FileSearchInfo may hold.
Pending == IF FileSearchInfo.name = Anything THEN {NoName, Anything} ELSE {FileSearchInfo.name}

\* Seeded fault: the answer begins with the next name.
processCDL_NextOnly ==
  /\ FileSearchInfo.valid /\ FileSearchInfo.name # NoName
  /\ LET search == Search(FileSearchMask, PerAnswer)
     IN  Left(search) /\ FileSearchInfo' = search.info /\ Told(search.given)
  /\ UNCHANGED <<sessionVars, events, files, FileSearchMask>>

\* The answer begins with the name that did not fit into the last one.
processCDL ==
  /\ \/ /\ FileSearchInfo.valid
        /\ \E name \in Pending \ {NoName} :
             LET search == Search(FileSearchMask, PerAnswer - 1)
             IN  /\ Left(search)
                 /\ FileSearchInfo' = search.info
                 /\ Told(<<name>> \o search.given)
     \/ /\ ~FileSearchInfo.valid \/ NoName \in Pending
        /\ Told(<<>>)
        /\ UNCHANGED <<findVars, FileSearchInfo>>
  /\ UNCHANGED <<sessionVars, events, files, FileSearchMask>>

-----------------------------------------------------------------------------
(* A browser's requests, and what becomes of the files *)

\* It takes the statics for its own directory, all of which it lists, or for
\* none when the path leads out of the data.
list_folder(b, path) ==
  /\ check_auth(b, b)
  /\ IF LevelOf(b, b) = Refused
     THEN UNCHANGED <<findVars, FileSearchInfo, heard>>
     ELSE /\ lastmask' = IF path \in Dirs THEN path ELSE NoDir
          /\ dirList' = Ls(path)
          /\ indexPtr' = IF Ls(path) = NoList THEN 0 ELSE Len(Ls(path)) + 1
          /\ FileSearchInfo' = [FileSearchInfo EXCEPT !.name = Anything]
          /\ heard' = [heard EXCEPT !.disturbed = TRUE]
  /\ UNCHANGED <<events, files, FileSearchMask>>

Deleted(dir, name) ==
  /\ files' = [files EXCEPT ![dir] = @ \ {name}]
  /\ heard' = [heard EXCEPT !.deleted = @ \/ (dir = heard.dir /\ name \in files[dir])]

delete_file(b, dir, name) ==
  /\ Happens
  /\ check_auth(b, b)
  /\ IF LevelOf(b, b) = Refused THEN UNCHANGED <<files, heard>> ELSE Deleted(dir, name)
  /\ UNCHANGED <<findVars, FileSearchMask, FileSearchInfo>>

\* The host's EFC,DEL
processEFC(dir, name) ==
  /\ Happens
  /\ Deleted(dir, name)
  /\ UNCHANGED <<sessionVars, findVars, FileSearchMask, FileSearchInfo>>

\* The log of the vehicles begins a file.
Logged(dir, name) ==
  /\ Happens
  /\ files' = [files EXCEPT ![dir] = @ \cup {name}]
  /\ UNCHANGED <<sessionVars, findVars, FileSearchMask, FileSearchInfo, heard>>

\* A new process has searched for nothing; the host begins anew.
ListingRestarted ==
  /\ lastmask' = NoMask /\ dirList' = NoList /\ indexPtr' = 0
  /\ FileSearchMask' = NoMask
  /\ FileSearchInfo' = NothingFound
  /\ heard' = NotAsked
  /\ UNCHANGED files

ListDirectories(b) ==
  \/ \E dir \in Dirs : processGDL(dir)
  \/ processCDL
  \/ \E path \in Dirs \cup {NoDir} : list_folder(b, path)

ChangeFiles(b) ==
  \E dir \in Dirs, name \in Names :
    delete_file(b, dir, name) \/ processEFC(dir, name) \/ Logged(dir, name)

-----------------------------------------------------------------------------
\* What the host is told of a directory, in however many answers, are its
\* names, each once and in order; unless one was deleted meanwhile, an empty
\* answer comes only when it was told all of them. A browser that lists a
\* directory meanwhile disturbs this, as both use the statics of ffind.
ListingWhole ==
  heard.dir # NoMask /\ ~heard.disturbed =>
    /\ IsPrefix(heard.given, heard.all)
    /\ heard.empty /\ ~heard.deleted => heard.given = heard.all
=============================================================================
