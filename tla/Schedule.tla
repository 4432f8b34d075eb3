------------------------------ MODULE Schedule ------------------------------
(***************************************************************************)
(* Stand-by by the schedule: UpdateStandbyMode of src/main.cpp with its    *)
(* interval and period tests. A moment is the local time the RTC_ macros   *)
(* give: year, month, day, hour and minute.                                *)
(***************************************************************************)
EXTENDS Integers, Sequences

Moments == [year : Nat, month : 1 .. 12, day : 1 .. 31, hour : 0 .. 23, min : 0 .. 59]

\* As a schedule entry is stored. Kind 0: every day, 1: weekday, 2: exact date.
Entries == [entryType : 0 .. 3, dow : 0 .. 6, year : Nat, month : 0 .. 15, day : 0 .. 255,
            start : 0 .. 1439, duration : 0 .. 1440,
            periodStartMonth : 0 .. 15, periodStartDay : 0 .. 255,
            periodEndMonth : 0 .. 15, periodEndDay : 0 .. 255]

DIM == <<31, 28, 31, 30, 31, 30, 31, 31, 30, 31, 30, 31>>

crntTime(t) == t.hour * 60 + t.min

\* Seeded fault: one minute too long after midnight.
IsWithinInterval_Long(t, start, duration) ==
  IF start <= crntTime(t) /\ start + duration > crntTime(t) THEN 1
  ELSE IF start > crntTime(t) /\ start + duration >= crntTime(t) + 24 * 60 THEN 2
  ELSE 0

\* 1: an interval that began today, 2: one that began yesterday
IsWithinInterval(t, start, duration) ==
  IF start <= crntTime(t) /\ start + duration > crntTime(t) THEN 1
  ELSE IF start > crntTime(t) /\ start + duration > crntTime(t) + 24 * 60 THEN 2
  ELSE 0

IsWithinDateInterval(t, e) ==
  LET sameMonth == e.periodStartMonth = e.periodEndMonth
      reversed  == \/ e.periodStartMonth > e.periodEndMonth
                   \/ sameMonth /\ e.periodStartDay > e.periodEndDay
      tooEarly  == t.month = e.periodStartMonth /\ t.day < e.periodStartDay
      tooLate   == t.month = e.periodEndMonth /\ t.day > e.periodEndDay
  IN  IF ~reversed
      THEN /\ e.periodStartMonth <= t.month /\ t.month <= e.periodEndMonth
           /\ ~tooEarly /\ ~tooLate
      ELSE /\ ~(e.periodEndMonth < t.month /\ t.month < e.periodStartMonth)
           /\ IF sameMonth /\ t.month = e.periodStartMonth
              THEN ~(tooEarly /\ tooLate)
              ELSE ~tooEarly /\ ~tooLate

\* The day before, by a table without leap years.
DayBefore(t) ==
  CASE t.day > 1                -> <<t.year, t.month, t.day - 1>>
    [] t.day = 1 /\ t.month > 1 -> <<t.year, t.month - 1, DIM[t.month - 1]>>
    [] OTHER                    -> <<t.year - 1, 12, DIM[12]>>

\* The entry keeps the sign on at t, on the day of the week wd.
Covers(e, t, wd) ==
  LET within == IsWithinInterval(t, e.start, e.duration)
      date   == <<e.year, e.month, e.day>>
  IN  /\ within # 0
      /\ IsWithinDateInterval(t, e)
      /\ \/ e.entryType = 0
         \/ e.entryType = 1 /\ within = 1 /\ wd = e.dow
         \/ e.entryType = 1 /\ within = 2 /\ wd = (e.dow + 1) % 7
         \/ e.entryType = 2 /\ within = 1 /\ date = <<t.year, t.month, t.day>>
         \/ e.entryType = 2 /\ within = 2 /\ date = DayBefore(t)

UpdateStandbyMode(info, t, wd) ==
  info.scheduleType # 0 /\ \A i \in DOMAIN info.schedules : ~Covers(info.schedules[i], t, wd)

-----------------------------------------------------------------------------
(* The calendar: mktime and localtime. Their day of the week may be that of  *)
(* an hour earlier or later, for tm_isdst is not set. `shift` is in hours.   *)

Leap(year) == year % 4 = 0 /\ (year % 100 # 0 \/ year % 400 = 0)
MonthLength(year, month) == IF month = 2 /\ Leap(year) THEN 29 ELSE DIM[month]

\* Days since the beginning of the calendar; 1 January of the year 1 is 1.
DayNumber(year, month, day) ==
  LET y    == year - 1
      days == <<0, 31, 59, 90, 120, 151, 181, 212, 243, 273, 304, 334>>
  IN  365 * y + (y \div 4) - (y \div 100) + (y \div 400) + days[month] + day
        + (IF month > 2 /\ Leap(year) THEN 1 ELSE 0)

Weekday(t, shift) ==
  LET off == CASE t.hour + shift < 0  -> -1
               [] t.hour + shift > 23 -> 1
               [] OTHER               -> 0
  IN  (DayNumber(t.year, t.month, t.day) + off) % 7

-----------------------------------------------------------------------------
(* What the tests mean *)

\* The day before, by the calendar.
Yesterday(t) ==
  CASE t.day > 1                -> <<t.year, t.month, t.day - 1>>
    [] t.day = 1 /\ t.month > 1 -> <<t.year, t.month - 1, MonthLength(t.year, t.month - 1)>>
    [] OTHER                    -> <<t.year - 1, 12, 31>>

\* Whether an entry starts on the day `ago` days before t.
StartsOn(e, t, wd, ago) ==
  \/ e.entryType = 0
  \/ e.entryType = 1 /\ (wd - ago) % 7 = e.dow
  \/ /\ e.entryType = 2
     /\ <<e.year, e.month, e.day>> = IF ago = 0 THEN <<t.year, t.month, t.day>> ELSE Yesterday(t)

\* Today is from the first day of the period to the last, over the turn of the
\* year if the last comes first.
InPeriod(e, t) ==
  LET today == 256 * t.month + t.day
      first == 256 * e.periodStartMonth + e.periodStartDay
      last  == 256 * e.periodEndMonth + e.periodEndDay
  IN  IF first <= last THEN first <= today /\ today <= last ELSE first <= today \/ today <= last

\* An interval of the entry has begun and is not over.
InForce(e, t, wd) ==
  /\ InPeriod(e, t)
  /\ \E ago \in {0, 1} :
       /\ StartsOn(e, t, wd, ago)
       /\ e.start <= crntTime(t) + 24 * 60 * ago
       /\ crntTime(t) + 24 * 60 * ago < e.start + e.duration

\* The sign is to be dark.
OffDuty(info, t, wd) ==
  info.scheduleType # 0 /\ ~\E i \in DOMAIN info.schedules : InForce(info.schedules[i], t, wd)
=============================================================================
