-------------------------- MODULE ConditionsProofs --------------------------
(***************************************************************************)
(* Stand-by follows the schedule, and tests show up: for every schedule,   *)
(* every moment and every sequence of commands.                            *)
(***************************************************************************)
EXTENDS Conditions, TLAPS

-----------------------------------------------------------------------------
(* The schedule *)

\* w tells whether the interval holds the minute c of today, or of tomorrow.
Tells(w, c, start, duration) ==
  /\ w = 1 <=> start <= c /\ c < start + duration
  /\ w = 2 <=> start <= c + 1440 /\ c + 1440 < start + duration
  /\ w \in {0, 1, 2}

\* The tests on an interval tell the day it started on.
THEOREM IntervalTests ==
  ASSUME NEW t \in Moments, NEW e \in Entries
  PROVE  Tells(IsWithinInterval(t, e.start, e.duration), crntTime(t), e.start, e.duration)
<1>1. crntTime(t) \in 0 .. 1439
  BY DEF crntTime, Moments
<1>2. e.start \in 0 .. 1439 /\ e.duration \in 0 .. 1440
  BY DEF Entries
<1>3. PICK c \in 0 .. 1439 : crntTime(t) = c
  BY <1>1
<1>4. PICK start \in 0 .. 1439 : e.start = start
  BY <1>2
<1>5. PICK duration \in 0 .. 1440 : e.duration = duration
  BY <1>2
<1> DEFINE w == IsWithinInterval(t, e.start, e.duration)
<1>6. w = IF start <= c /\ start + duration > c THEN 1
          ELSE IF start > c /\ start + duration > c + 24 * 60 THEN 2 ELSE 0
  BY <1>3, <1>4, <1>5 DEF IsWithinInterval
<1> HIDE DEF w
<1>7. start <= c + 1440 /\ (start <= c => ~(c + 1440 < start + duration))
  BY <1>3, <1>4, <1>5
<1>8. Tells(w, c, start, duration)
  <2>1. CASE start <= c /\ c < start + duration
    <3>1. w = 1
      BY <1>3, <1>4, <1>5, <1>6, <2>1
    <3>2. QED
      BY <1>7, <2>1, <3>1 DEF Tells
  <2>2. CASE ~(start <= c) /\ c + 1440 < start + duration
    <3>1. w = 2
      BY <1>3, <1>4, <1>5, <1>6, <2>2
    <3>2. QED
      BY <1>7, <2>2, <3>1 DEF Tells
  <2>3. CASE ~(start <= c /\ c < start + duration) /\ ~(c + 1440 < start + duration)
    <3>1. w = 0
      BY <1>3, <1>4, <1>5, <1>6, <2>3
    <3>2. QED
      BY <2>3, <3>1 DEF Tells
  <2>4. QED
    BY <1>7, <2>1, <2>2, <2>3
<1>9. QED
  BY <1>3, <1>4, <1>5, <1>8 DEF w

\* The comparison field by field is a comparison of dates, over the turn of the
\* year if the period ends before it begins.
THEOREM PeriodTest ==
  ASSUME NEW t \in Moments, NEW e \in Entries
  PROVE  IsWithinDateInterval(t, e) <=> InPeriod(e, t)
<1>1. /\ t.month \in 1 .. 12 /\ t.day \in 1 .. 31
      /\ e.periodStartMonth \in 0 .. 15 /\ e.periodStartDay \in 0 .. 255
      /\ e.periodEndMonth \in 0 .. 15 /\ e.periodEndDay \in 0 .. 255
  BY DEF Moments, Entries
<1>2. PICK m \in 1 .. 12, d \in 1 .. 31, sm \in 0 .. 15, sd \in 0 .. 255,
              em \in 0 .. 15, ed \in 0 .. 255 :
        /\ m = t.month /\ d = t.day /\ sm = e.periodStartMonth /\ sd = e.periodStartDay
        /\ em = e.periodEndMonth /\ ed = e.periodEndDay
  BY <1>1
<1>3. InPeriod(e, t) <=>
        IF 256 * sm + sd <= 256 * em + ed
        THEN 256 * sm + sd <= 256 * m + d /\ 256 * m + d <= 256 * em + ed
        ELSE 256 * sm + sd <= 256 * m + d \/ 256 * m + d <= 256 * em + ed
  BY <1>2 DEF InPeriod
<1>4. CASE sm > em \/ (sm = em /\ sd > ed)
  <2>1. IsWithinDateInterval(t, e) <=>
          /\ ~(em < m /\ m < sm)
          /\ IF sm = em /\ m = sm THEN ~(d < sd /\ d > ed)
             ELSE ~(m = sm /\ d < sd) /\ ~(m = em /\ d > ed)
    BY <1>2, <1>4 DEF IsWithinDateInterval
  <2>2. QED
    BY <1>3, <1>4, <2>1
<1>5. CASE ~(sm > em \/ (sm = em /\ sd > ed))
  <2>1. IsWithinDateInterval(t, e) <=>
          sm <= m /\ m <= em /\ ~(m = sm /\ d < sd) /\ ~(m = em /\ d > ed)
    BY <1>2, <1>5 DEF IsWithinDateInterval
  <2>2. QED
    BY <1>3, <1>5, <2>1
<1>6. QED
  BY <1>4, <1>5

LEMMA DayBeforeIsYesterday ==
  ASSUME NEW t \in Moments, ~(Leap(t.year) /\ t.month = 3 /\ t.day = 1)
  PROVE  DayBefore(t) = Yesterday(t)
<1>1. t.month \in 1 .. 12 /\ t.day \in 1 .. 31
  BY DEF Moments
<1>2. t.day = 1 /\ t.month > 1 => MonthLength(t.year, t.month - 1) = DIM[t.month - 1]
  BY <1>1 DEF MonthLength
<1>3. DIM[12] = 31
  BY DEF DIM
<1>4. QED
  BY <1>1, <1>2, <1>3 DEF DayBefore, Yesterday

LEMMA CoversIsInForce ==
  ASSUME NEW t \in Moments, NEW e \in Entries, NEW wd \in 0 .. 6,
         ~(Leap(t.year) /\ t.month = 3 /\ t.day = 1)
  PROVE  Covers(e, t, wd) <=> InForce(e, t, wd)
<1>1. /\ e.start \in 0 .. 1439 /\ e.duration \in 0 .. 1440 /\ e.dow \in 0 .. 6
      /\ e.entryType \in 0 .. 3
  BY DEF Entries
<1>2. crntTime(t) \in 0 .. 1439
  BY DEF crntTime, Moments
<1>3. DayBefore(t) = Yesterday(t)
  BY DayBeforeIsYesterday
<1>4. /\ (wd - 0) % 7 = wd
      /\ (wd - 1) % 7 = e.dow <=> wd = (e.dow + 1) % 7
  <2>1. \A v \in 0 .. 6 : (v - 0) % 7 = v
    OBVIOUS
  <2>2. \A v, dow \in 0 .. 6 : (v - 1) % 7 = dow <=> v = (dow + 1) % 7
    OBVIOUS
  <2>3. QED
    BY <1>1, <2>1, <2>2
<1> DEFINE w == IsWithinInterval(t, e.start, e.duration)
           date == <<e.year, e.month, e.day>>
           today == <<t.year, t.month, t.day>>
<1>5. /\ w = 1 <=> e.start <= crntTime(t) /\ crntTime(t) < e.start + e.duration
      /\ w = 2 <=> e.start <= crntTime(t) + 1440 /\ crntTime(t) + 1440 < e.start + e.duration
      /\ w \in {0, 1, 2}
  <2>1. Tells(w, crntTime(t), e.start, e.duration)
    BY <1>1, IntervalTests
  <2>2. QED
    BY <2>1 DEF Tells
<1>6. Covers(e, t, wd) <=>
        /\ w # 0 /\ InPeriod(e, t)
        /\ \/ e.entryType = 0
           \/ e.entryType = 1 /\ w = 1 /\ wd = e.dow
           \/ e.entryType = 1 /\ w = 2 /\ wd = (e.dow + 1) % 7
           \/ e.entryType = 2 /\ w = 1 /\ date = today
           \/ e.entryType = 2 /\ w = 2 /\ date = Yesterday(t)
  BY <1>3, PeriodTest DEF Covers
<1>7. /\ StartsOn(e, t, wd, 0) <=> \/ e.entryType = 0
                                   \/ e.entryType = 1 /\ wd = e.dow
                                   \/ e.entryType = 2 /\ date = today
      /\ StartsOn(e, t, wd, 1) <=> \/ e.entryType = 0
                                   \/ e.entryType = 1 /\ wd = (e.dow + 1) % 7
                                   \/ e.entryType = 2 /\ date = Yesterday(t)
  BY <1>4 DEF StartsOn
<1>8. InForce(e, t, wd) <=>
        /\ InPeriod(e, t)
        /\ (StartsOn(e, t, wd, 0) /\ w = 1) \/ (StartsOn(e, t, wd, 1) /\ w = 2)
  <2>1. crntTime(t) + 24 * 60 * 0 = crntTime(t) /\ crntTime(t) + 24 * 60 * 1 = crntTime(t) + 1440
    BY <1>2
  <2>2. InForce(e, t, wd) <=>
          /\ InPeriod(e, t)
          /\ \/ /\ StartsOn(e, t, wd, 0)
                /\ e.start <= crntTime(t) + 24 * 60 * 0
                /\ crntTime(t) + 24 * 60 * 0 < e.start + e.duration
             \/ /\ StartsOn(e, t, wd, 1)
                /\ e.start <= crntTime(t) + 24 * 60 * 1
                /\ crntTime(t) + 24 * 60 * 1 < e.start + e.duration
    BY DEF InForce
  <2>3. QED
    BY <1>5, <2>1, <2>2
<1> HIDE DEF w, date, today
<1>9. CASE w = 1
  BY <1>6, <1>7, <1>8, <1>9
<1>10. CASE w = 2
  BY <1>6, <1>7, <1>8, <1>10
<1>11. CASE w = 0
  BY <1>6, <1>8, <1>11
<1>12. QED
  BY <1>5, <1>9, <1>10, <1>11

LEMMA WeekdayRange ==
  ASSUME NEW t \in Moments, NEW shift \in {-1, 0, 1}
  PROVE  Weekday(t, shift) \in 0 .. 6
<1>1. /\ t.year \in Nat /\ t.month \in 1 .. 12 /\ t.day \in 1 .. 31 /\ t.hour \in 0 .. 23
  BY DEF Moments
<1>2. DayNumber(t.year, t.month, t.day) \in Int
  <2>1. PICK y \in Int : y = t.year - 1
    BY <1>1
  <2>2. PICK days \in Int :
          days = <<0, 31, 59, 90, 120, 151, 181, 212, 243, 273, 304, 334>>[t.month]
    BY <1>1
  <2>3. DayNumber(t.year, t.month, t.day)
          = 365 * y + (y \div 4) - (y \div 100) + (y \div 400) + days + t.day
              + (IF t.month > 2 /\ Leap(t.year) THEN 1 ELSE 0)
    BY <2>1, <2>2 DEF DayNumber
  <2>4. y \div 4 \in Int /\ y \div 100 \in Int /\ y \div 400 \in Int
    BY <2>1
  <2>5. QED
    BY <1>1, <2>2, <2>3, <2>4
<1>3. QED
  BY <1>1, <1>2 DEF Weekday

-----------------------------------------------------------------------------
(* Types *)

Types ==
  /\ world \in Worlds
  /\ file \in world.configs /\ deviceInfo \in world.configs
  /\ now \in world.moments

LEMMA TypesStep == Types /\ [Next]_vars => Types'
<1> SUFFICES ASSUME Types, [Next]_vars PROVE Types'
  OBVIOUS
<1> USE DEF Types, settingVars, clockVars
<1>1. CASE Refresh
  BY <1>1 DEF Refresh
<1>2. CASE Show
  BY <1>2 DEF Show
<1>3. CASE LookAtBrightness \/ TellCamera \/ Remember
  BY <1>3 DEF LookAtBrightness, TellCamera, Remember
<1>4. CASE Second \/ SameSecond
  BY <1>4 DEF Second, SameSecond
<1>5. CASE NoCommand \/ Configure \/ processTST \/ start_test_mode
  BY <1>5 DEF NoCommand, Configure, processTST, start_test_mode
<1>6. CASE Dimming
  BY <1>6 DEF Dimming, DimRead, DimSearch, DimSet
<1>7. CASE Tick \/ Light
  BY <1>7 DEF Tick, Light
<1>8. CASE UNCHANGED vars
  BY <1>8 DEF vars
<1>9. QED
  BY <1>1, <1>2, <1>3, <1>4, <1>5, <1>6, <1>7, <1>8 DEF Next, MainLoop

LEMMA TypesHold == Spec => []Types
<1>1. Init => Types
  BY DEF Init, Types
<1>2. QED
  BY <1>1, TypesStep, PTL DEF Spec

-----------------------------------------------------------------------------
(* StandbyAsScheduled *)

LEMMA JudgedRight ==
  ASSUME NEW info, info.schedules \in Seq(Entries), NEW t \in Moments, NEW wd \in 0 .. 6,
         ~(Leap(t.year) /\ t.month = 3 /\ t.day = 1)
  PROVE  UpdateStandbyMode(info, t, wd) = OffDuty(info, t, wd)
<1>1. \A i \in DOMAIN info.schedules : info.schedules[i] \in Entries
  OBVIOUS
<1>2. \A i \in DOMAIN info.schedules :
        Covers(info.schedules[i], t, wd) <=> InForce(info.schedules[i], t, wd)
  BY <1>1, CoversIsInForce
<1>3. QED
  BY <1>2 DEF UpdateStandbyMode, OffDuty

LEMMA SteadyClock ==
  ASSUME NEW t \in Moments, NEW r \in Torn(t, t)
  PROVE  r = t
<1>1. \E n \in 0 .. Len(Fields) :
        r = [f \in DOMAIN t |-> IF \E i \in 1 .. n : Fields[i] = f THEN t[f] ELSE t[f]]
  BY DEF Torn
<1>2. r = [f \in DOMAIN t |-> t[f]]
  BY <1>1
<1>3. QED
  BY <1>2 DEF Moments

\* Every second the stand-by mode is that of the calendar and the schedule.
THEOREM StandbyAsScheduledHolds == Spec => StandbyAsScheduled
<1>1. ASSUME Types, Second, now' = now, ~(Leap(now.year) /\ now.month = 3 /\ now.day = 1)
      PROVE  \E shift \in Shifts : bStandby' = OffDuty(deviceInfo, now, Weekday(now, shift))
  <2>1. now \in Moments /\ deviceInfo.schedules \in Seq(Entries) /\ Shifts \subseteq {-1, 0, 1}
    BY <1>1, ConditionsAssumption DEF Types
  <2>2. PICK t \in Torn(now, now) : Judge(t)
    BY <1>1 DEF Second
  <2>3. t = now
    BY <2>1, SteadyClock
  <2>4. PICK shift \in Shifts :
           bStandby' = UpdateStandbyMode(deviceInfo, now, Weekday(now, shift))
    BY <2>2, <2>3 DEF Judge
  <2>5. Weekday(now, shift) \in 0 .. 6
    BY <2>1, WeekdayRange
  <2>6. QED
    BY <1>1, <2>1, <2>4, <2>5, JudgedRight
<1>2. Types /\ [Next]_vars =>
        [Second /\ now' = now /\ ~(Leap(now.year) /\ now.month = 3 /\ now.day = 1) =>
           \E shift \in Shifts : bStandby' = OffDuty(deviceInfo, now, Weekday(now, shift))]_vars
  BY <1>1
<1>3. QED
  BY <1>2, TypesHold, PTL DEF Spec, StandbyAsScheduled

-----------------------------------------------------------------------------
(* TestShown *)

TestInv ==
  /\ Types
  /\ TestModeDuration \in Nat /\ TestModeBitmap \in Nat
  /\ LastTestModeBitmap \in Nat \cup {Unset}
  /\ TestModeDuration = 0 => screen \in {Dark, Traffic} /\ LastTestModeBitmap = Unset
  /\ TestModeDuration > 0 =>
       \/ LastTestModeBitmap = Unset
       \/ screen \in {Dark, Test(LastTestModeBitmap)}

LEMMA TestInvStep == TestInv /\ [Next]_vars => TestInv'
<1> SUFFICES ASSUME TestInv, [Next]_vars PROVE TestInv'
  OBVIOUS
<1>0. Types'
  BY TypesStep DEF TestInv
<1> USE DEF TestInv, testVars, Unset
<1>1. CASE Refresh
  BY <1>0, <1>1 DEF Refresh
<1>2. CASE Show
  BY <1>0, <1>2 DEF Show
<1>3. CASE LookAtBrightness \/ TellCamera \/ Remember \/ SameSecond \/ NoCommand
  BY <1>0, <1>3 DEF LookAtBrightness, TellCamera, Remember, SameSecond, NoCommand
<1>4. CASE Second
  <2>1. TestStep
    BY <1>4 DEF Second
  <2>2. CASE TestModeDuration = 0
    BY <1>0, <2>1, <2>2 DEF TestStep
  <2>3. CASE TestModeDuration = 1
    BY <1>0, <2>1, <2>3 DEF TestStep
  <2>4. CASE TestModeDuration > 1
    BY <1>0, <2>1, <2>4 DEF TestStep
  <2>5. QED
    BY <2>2, <2>3, <2>4
<1>5. CASE Configure
  BY <1>0, <1>5 DEF Configure
<1>6. CASE processTST \/ start_test_mode
  <2>1. world.bitmaps \subseteq Nat /\ world.durations \subseteq Nat
    BY ConditionsAssumption DEF Types
  <2>2. QED
    BY <1>0, <1>6, <2>1 DEF processTST, start_test_mode
<1>7. CASE Dimming
  BY <1>0, <1>7 DEF Dimming, DimRead, DimSearch, DimSet
<1>8. CASE Tick \/ Light
  BY <1>0, <1>8 DEF Tick, Light
<1>9. CASE UNCHANGED vars
  BY <1>0, <1>9 DEF vars
<1>10. QED
  BY <1>1, <1>2, <1>3, <1>4, <1>5, <1>6, <1>7, <1>8, <1>9 DEF Next, MainLoop

\* A test shows its picture, and leaves none behind.
THEOREM TestShownHolds == Spec => []TestShown
<1>1. Init => TestInv
  BY DEF Init, TestInv, Types
<1>2. TestInv => TestShown
  BY DEF TestInv, TestShown, Unset
<1>3. QED
  BY <1>1, <1>2, TestInvStep, PTL DEF Spec
=============================================================================
