---------------------------- MODULE ConditionsMC ----------------------------
(* Three worlds, so that what does not interact is not multiplied: moments   *)
(* around the edges of the schedules, tests, and changes of the light.       *)
EXTENDS Conditions

Entry(type, dow, date, start, duration) ==
  [entryType |-> type, dow |-> dow, year |-> date[1], month |-> date[2], day |-> date[3],
   start |-> start, duration |-> duration,
   periodStartMonth |-> 1, periodStartDay |-> 1, periodEndMonth |-> 12, periodEndDay |-> 31]
Between(e, from, to) ==
  [e EXCEPT !.periodStartMonth = from[1], !.periodStartDay = from[2],
            !.periodEndMonth = to[1], !.periodEndDay = to[2]]

NoDate == <<0, 0, 0>>
Dim(n, brightness) == [brightness |-> brightness, luminance |-> n]
Manual(entries, brightness) ==
  [scheduleType |-> IF entries = <<>> THEN 0 ELSE 1, schedules |-> entries, autoDim |-> 0,
   autoDimming |-> <<Dim(5, 10), Dim(9, 40), Dim(9, 90)>>, displayBrightness |-> brightness]
Automatic == [Manual(<<>>, 80) EXCEPT !.autoDim = 1]

At(date, h, m) == [year |-> date[1], month |-> date[2], day |-> date[3], hour |-> h, min |-> m]

\* Two hours from 23:00 on, over the turn of the year: every day, on a Sunday, on a date.
NewYear == {At(<<2023, 12, 31>>, 22, 59), At(<<2023, 12, 31>>, 23, 0), At(<<2024, 1, 1>>, 0, 59),
            At(<<2024, 1, 1>>, 1, 0)}
Late == {Entry(0, 0, NoDate, 1380, 120), Entry(1, 0, NoDate, 1380, 120),
         Entry(2, 0, <<2023, 12, 31>>, 1380, 120)}
\* At the end of February.
Leaps == {At(<<2024, 2, 28>>, 23, 30), At(<<2024, 2, 29>>, 23, 30), At(<<2024, 3, 1>>, 0, 30),
          At(<<2023, 3, 1>>, 0, 30)}
LeapDay == {Entry(2, 0, <<2024, 2, 29>>, 1380, 120)}
\* All day long in periods over the turn of the year, within it, and all but a month.
Days == {At(<<2023, 12, 31>>, 12, 0), At(<<2024, 2, 29>>, 12, 0), At(<<2023, 3, 1>>, 12, 0)}
Seasons == {Between(Entry(0, 0, NoDate, 0, 1440), <<11, 15>>, <<2, 28>>),
            Between(Entry(0, 0, NoDate, 0, 1440), <<3, 1>>, <<11, 14>>),
            Between(Entry(0, 0, NoDate, 0, 1440), <<12, 31>>, <<12, 1>>)}

Scheduled(moments, entries) == {<<moments, e>> : e \in entries}

Quiet == [moments |-> {At(<<2024, 6, 1>>, 12, 0)}, configs |-> {Manual(<<>>, 50)},
          luminances |-> {7}, bitmaps |-> {}, durations |-> {}, events |-> 0]

\* A zone with daylight saving time, in winter.
SomeShifts == {0, -1}

AllWorlds ==
  {[Quiet EXCEPT !.moments = s[1], !.configs = {Manual(<<s[2]>>, 50)}] :
     s \in Scheduled(NewYear, Late) \cup Scheduled(Leaps, LeapDay) \cup Scheduled(Days, Seasons)}
  \cup {[Quiet EXCEPT !.bitmaps = {0, 1}, !.durations = {0, 1, 2}, !.events = 2],
        [Quiet EXCEPT !.configs = {Automatic, Manual(<<>>, 138)}, !.luminances = {3, 7},
                     !.events = 2]}
=============================================================================
