------------------------------ MODULE StoreMC -------------------------------
(* Scenes, so that what does not interact is not multiplied: the clock and    *)
(* two users' sessions; the host and a browser listing directories while      *)
(* files come and go; pictures written and edited; the library as well.       *)
EXTENDS Store

FileNames == {"a", "b", "c", "d"}
InOrder == [S \in SUBSET FileNames |-> SelectSeq(<<"a", "b", "c", "d">>, LAMBDA n : n \in S)]
Jumped == {-2, 2}

\* Some pixels in the corners of the grids of configurations 1 and 5.
Pixels(set) == {IndexOf(p) : p \in set}
Corners == Pixels({<<0, 0>>, <<15, 9>>, <<13, 19>>, <<59, 47>>})
Line    == Pixels({<<x, 0>> : x \in 4 .. 9})
Sent    == {[length |-> 360, bits |-> Corners], [length |-> 2, bits |-> Line]}
Memory  == {{}, Corners}
Pen     == {<<15, 9>>}

Image(name, pixels)   == [name |-> name, pixels |-> pixels]
Sequence(name, n)     == [name |-> name, frameDelay |-> n, frames |-> <<n, 0>>]
Images == <<Image("stop", {<<0, 0>>, <<1, 0>>, <<5, 1>>, <<15, 9>>}), Image("go", {<<7, 3>>}),
            Image("slow", {<<8, 3>>, <<0, 9>>})>>
Small == [width |-> 16, height |-> 10, images |-> Images,
          sequences |-> <<Sequence("a", 1), Sequence("b", 2), Sequence("c", 3)>>]
Other == [width |-> 16, height |-> 10, images |-> SubSeq(Images, 2, 2), sequences |-> <<>>]
Tall  == [width |-> 16, height |-> 20, images |-> <<Image("tall", {<<3, 15>>})>>,
          sequences |-> <<Sequence("a", 1)>>]

SomeLibraries == {Small, Other, Tall}

Scene(requests, users, levels, n, directories) ==
  [requests |-> requests, browsers |-> users, loggedIn |-> IF "logins" \in requests THEN {} ELSE users,
   levels |-> levels, events |-> n, files |-> directories, configs |-> {1}]
NoFiles == {[dir \in {"log", "stat"} |-> {}]}
SomeFiles == {[dir \in {"log", "stat"} |-> IF dir = "log" THEN log ELSE {"a"}] :
                log \in {{"a", "b", "d"}, {"a", "b", "c", "d"}}}

AllScenes ==
  {Scene({"logins", "clock"}, {1, 2}, {0}, 4, NoFiles),
   Scene({"clock"}, {1, 2}, {1}, 3, NoFiles),
   Scene({"logins", "directories"}, {1}, {0}, 2, SomeFiles),
   Scene({"directories"}, {1}, {2}, 1, SomeFiles),
   Scene({"pictures"}, {1}, {0, 2}, 3, NoFiles),
   Scene({"pictures", "library"}, {1}, {0}, 3, NoFiles)}
=============================================================================
