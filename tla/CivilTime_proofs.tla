--------------------------- MODULE CivilTime_proofs ---------------------------
(***************************************************************************)
(* The date is right for every time and offset, and whatever the lengths   *)
(* of minute, hour and day.                                                *)
(*                                                                         *)
(* The loops trade days for years and seconds for days.  What they keep is *)
(* the number of days from the epoch, NewYearsDay(y) + days; that holds    *)
(* for the skipped years because a year is as long as the next New Year's  *)
(* Day is away (YearAdds), which is where the leap years of the code and   *)
(* those of the calendar have to agree (LeapsFloor).                       *)
(***************************************************************************)
EXTENDS CivilTime, TLAPS

EpochDay == NewYearsDay(y) + days

Labels == {"idle", "years", "carry", "months", "done", "null"}

CivilTypeOK ==
  /\ cpc \in Labels
  /\ timep \in Int /\ offset \in Int /\ y \in Int /\ days \in Int /\ rem \in Int
  /\ tm \in [year : Int, yday : Int, wday : Int, hour : Int, min : Int,
             sec : Int, mon : Int, mday : Int]

\* What has been found so far lies timep, or timep + offset, after the epoch.
Kept ==
  /\ cpc = "years" => SecsPerDay * EpochDay + rem = timep
  /\ cpc = "carry" => SecsPerDay * EpochDay + rem = timep + offset

\* Once the fields are filled in they say the time; days counts from the first
\* of the month reached.
Filled ==
  cpc \in {"months", "done"} =>
    /\ 0 <= rem /\ rem < SecsPerDay
    /\ tm.yday \in 0 .. YearLength(y) - 1 /\ tm.mon \in 0 .. 11
    /\ days >= 0 /\ days + DaysBefore(y, tm.mon) = tm.yday
    /\ SecsPerDay * (NewYearsDay(y) + tm.yday) + rem = timep + offset
    /\ tm.hour = rem \div SecsPerHour
    /\ tm.min = (rem % SecsPerHour) \div SecsPerMin
    /\ tm.sec = (rem % SecsPerHour) % SecsPerMin
    /\ tm.year = y - YearBase
    /\ tm.wday = (EpochWday + NewYearsDay(y) + tm.yday) % 7

DayFound ==
  cpc = "done" => tm.mday = days + 1 /\ days < MonLength(y, tm.mon)

CivilInv == CivilTypeOK /\ Kept /\ Filled /\ DayFound
-----------------------------------------------------------------------------
\* The code's count of leap years, with a mirror image for negative years, is
\* the calendar's.
LEMMA LeapsFloor ==
  ASSUME NEW yr \in Int
  PROVE  LeapsThruEndOf(yr) = yr \div 4 - yr \div 100 + yr \div 400
BY SMTT(30) DEF LeapsThruEndOf, LeapsOf

\* A year is as long as the next New Year's Day is away.
LEMMA YearAdds ==
  ASSUME NEW yr \in Int
  PROVE  NewYearsDay(yr + 1) = NewYearsDay(yr) + YearLength(yr)
BY SMTT(30) DEF NewYearsDay, YearLength, IsLeap, EpochYear

\* The leap years of the code are the years of the calendar with 366 days.
LEMMA LeapDayIs ==
  ASSUME NEW yr \in Int
  PROVE  LeapDay(yr) = IF IsLeap(yr) THEN 1 ELSE 0
<1>1. NewYearsDay(yr) \in Int
  BY DEF NewYearsDay, EpochYear
<1>2. NewYearsDay(yr + 1) = NewYearsDay(yr) + YearLength(yr)
  BY YearAdds
<1> QED
  BY <1>1, <1>2 DEF LeapDay, YearLength

LEMMA CalendarTypes ==
  ASSUME NEW yr \in Int
  PROVE  /\ NewYearsDay(yr) \in Int /\ LeapsThruEndOf(yr) \in Int
         /\ YearLength(yr) \in {365, 366}
<1>1. NewYearsDay(yr) \in Int /\ YearLength(yr) \in {365, 366}
  BY DEF NewYearsDay, EpochYear, YearLength
<1>2. LeapsThruEndOf(yr) \in Int
  BY LeapsFloor
<1> QED
  BY <1>1, <1>2

LEMMA MonthTypes ==
  ASSUME NEW yr \in Int, NEW m \in 0 .. 11
  PROVE  MonLength(yr, m) \in 28 .. 31 /\ DaysBefore(yr, m) \in Nat
BY LeapDayIs DEF MonLength, DaysBefore

\* NewYearsDay in the words of the code.
LEMMA NewYearByLeaps ==
  ASSUME NEW yr \in Int
  PROVE  NewYearsDay(yr) =
           365 * (yr - EpochYear) + LeapsThruEndOf(yr - 1) - LeapsThruEndOf(EpochYear - 1)
<1>0. yr - 1 \in Int
  OBVIOUS
<1>1. LeapsThruEndOf(yr - 1) = (yr - 1) \div 4 - (yr - 1) \div 100 + (yr - 1) \div 400
  BY <1>0, LeapsFloor
<1>2. LeapsThruEndOf(EpochYear - 1) = 477
  BY DEF LeapsThruEndOf, LeapsOf, EpochYear
<1> QED
  BY <1>1, <1>2 DEF NewYearsDay, EpochYear

\* The months follow one another, and the last ends with the year.
LEMMA MonthAdds ==
  ASSUME NEW yr \in Int, NEW m \in 0 .. 11
  PROVE  /\ DaysBefore(yr, m + 1) = DaysBefore(yr, m) + MonLength(yr, m)
         /\ DaysBefore(yr, 12) = YearLength(yr)
<1>1. m \in {0, 1, 2, 3, 4, 5, 6, 7, 8, 9, 10, 11}
  OBVIOUS
<1>2. DaysBefore(yr, 12) = YearLength(yr)
  BY LeapDayIs DEF DaysBefore, YearLength
<1>3. DaysBefore(yr, m + 1) = DaysBefore(yr, m) + MonLength(yr, m)
  BY <1>1, LeapDayIs, SMTT(30) DEF DaysBefore, MonLength
<1> QED
  BY <1>2, <1>3

LEMMA SecsTypes == /\ SecsPerMin \in Nat \ {0} /\ SecsPerHour \in Nat \ {0}
                   /\ SecsPerDay \in Nat \ {0}
<1>1. \A a, b \in Nat \ {0} : a * b \in Nat \ {0}
  OBVIOUS
<1> QED
  BY <1>1, CalendarAssumption DEF SecsPerHour, SecsPerDay
-----------------------------------------------------------------------------
LEMMA QuotRem ==
  ASSUME NEW a \in Int, NEW b \in Nat \ {0}
  PROVE  /\ Quot(a, b) \in Int /\ Rem(a, b) \in Int
         /\ b * Quot(a, b) + Rem(a, b) = a
BY DEF Quot, Rem

LEMMA Distribute ==
  ASSUME NEW a \in Int, NEW b \in Int
  PROVE  /\ b * a \in Int
         /\ b * (a - 1) = b * a - b
         /\ b * (a + 1) = b * a + b
OBVIOUS

LEMMA EpochDayType == CivilTypeOK => EpochDay \in Int
BY CalendarTypes DEF CivilTypeOK, EpochDay

LEMMA InitInv == CivilInit => CivilInv
BY DEF CivilInit, CivilInv, CivilTypeOK, Kept, Filled, DayFound, Labels, NoTm, EpochYear

LEMMA TimesubInv ==
  ASSUME CivilInv, NEW t \in Times, NEW off \in Offsets, Timesub(t, off)
  PROVE  CivilInv'
<1>1. t \in Int /\ off \in Int
  BY CalendarAssumption
<1>2. Quot(t, SecsPerDay) \in Int /\ Rem(t, SecsPerDay) \in Int
        /\ SecsPerDay * Quot(t, SecsPerDay) + Rem(t, SecsPerDay) = t
  BY <1>1, SecsTypes, QuotRem
<1>3. NewYearsDay(EpochYear) = 0
  BY DEF NewYearsDay, EpochYear
<1>4. EpochDay' = Quot(t, SecsPerDay)
  BY <1>2, <1>3 DEF Timesub, EpochDay
<1>5. CivilTypeOK'
  BY <1>1, <1>2 DEF Timesub, CivilTypeOK, Labels, NoTm, EpochYear
<1>6. Kept'
  BY <1>2, <1>4 DEF Timesub, Kept
<1> QED
  BY <1>5, <1>6 DEF CivilInv, Filled, DayFound, Timesub

LEMMA NullInv == CivilInv /\ Null => CivilInv'
<1> SUFFICES ASSUME CivilInv, Null
             PROVE  CivilInv'
  OBVIOUS
<1> QED
  BY DEF CivilInv, CivilTypeOK, Kept, Filled, DayFound, Null, Labels

LEMMA SkipYearsInv == CivilInv /\ SkipYears => CivilInv'
<1> SUFFICES ASSUME CivilInv, SkipYears, ~Null
             PROVE  CivilInv'
  BY NullInv
<1>1. y \in Int /\ days \in Int /\ NewYear \in Int
  BY DEF CivilInv, CivilTypeOK, NewYear, Delta, Quot
<1>2. /\ y' = NewYear /\ UNCHANGED <<cpc, timep, offset, rem, tm>>
      /\ days' = days - 365 * (NewYear - y)
                   - (LeapsThruEndOf(NewYear - 1) - LeapsThruEndOf(y - 1))
  BY DEF SkipYears
<1>3. /\ y - 1 \in Int /\ NewYear - 1 \in Int
      /\ LeapsThruEndOf(y - 1) \in Int /\ LeapsThruEndOf(NewYear - 1) \in Int
      /\ LeapsThruEndOf(EpochYear - 1) \in Int
  BY <1>1, CalendarTypes DEF EpochYear
<1>4. EpochDay' = EpochDay
  BY <1>1, <1>2, <1>3, NewYearByLeaps DEF EpochDay, EpochYear
<1>5. CivilTypeOK'
  BY <1>1, <1>2, <1>3 DEF CivilInv, CivilTypeOK
<1> QED
  BY <1>2, <1>4, <1>5 DEF CivilInv, Kept, Filled, DayFound, SkipYears

LEMMA AddOffsetInv == CivilInv /\ AddOffset => CivilInv'
<1> SUFFICES ASSUME CivilInv, AddOffset
             PROVE  CivilInv'
  OBVIOUS
<1>1. EpochDay' = EpochDay /\ EpochDay \in Int
  BY EpochDayType DEF CivilInv, AddOffset, EpochDay
<1>2. SecsPerDay * EpochDay \in Int
  BY <1>1, SecsTypes, Distribute
<1>3. CivilTypeOK'
  BY DEF CivilInv, CivilTypeOK, AddOffset, Labels
<1>4. Kept'
  BY <1>1, <1>2 DEF CivilInv, CivilTypeOK, Kept, AddOffset
<1> QED
  BY <1>3, <1>4 DEF CivilInv, Filled, DayFound, AddOffset

LEMMA CarryDayInv == CivilInv /\ CarryDay => CivilInv'
<1> SUFFICES ASSUME CivilInv, CarryDay
             PROVE  CivilInv'
  OBVIOUS
<1>1. EpochDay \in Int /\ SecsPerDay \in Int /\ SecsPerDay * EpochDay \in Int
  BY EpochDayType, SecsTypes, Distribute DEF CivilInv
<1>2. CivilTypeOK'
  BY <1>1 DEF CivilInv, CivilTypeOK, CarryDay
<1>3. SecsPerDay * EpochDay' + rem' = SecsPerDay * EpochDay + rem
  <2>1. NewYearsDay(y) \in Int
    BY CalendarTypes DEF CivilInv, CivilTypeOK
  <2>2. CASE rem' = rem + SecsPerDay /\ days' = days - 1
    <3>1. EpochDay' = EpochDay - 1
      BY <2>1, <2>2 DEF EpochDay, CarryDay, CivilInv, CivilTypeOK
    <3> QED
      BY <1>1, <2>2, <3>1, Distribute DEF CivilInv, CivilTypeOK
  <2>3. CASE rem' = rem - SecsPerDay /\ days' = days + 1
    <3>1. EpochDay' = EpochDay + 1
      BY <2>1, <2>3 DEF EpochDay, CarryDay, CivilInv, CivilTypeOK
    <3> QED
      BY <1>1, <2>3, <3>1, Distribute DEF CivilInv, CivilTypeOK
  <2> QED
    BY <2>2, <2>3 DEF CarryDay
<1> QED
  BY <1>2, <1>3 DEF CivilInv, Kept, Filled, DayFound, CarryDay

LEMMA CarryYearInv == CivilInv /\ CarryYear => CivilInv'
<1> SUFFICES ASSUME CivilInv, CarryYear, ~Null
             PROVE  CivilInv'
  BY NullInv
<1>1. y \in Int /\ days \in Int
  BY DEF CivilInv, CivilTypeOK
<1>2. UNCHANGED <<cpc, timep, offset, rem, tm>>
  BY DEF CarryYear
<1>3. EpochDay' = EpochDay /\ y' \in Int /\ days' \in Int
  <2>1. CASE y' = y - 1 /\ days' = days + YearLength(y - 1)
    <3>1. y - 1 \in Int /\ (y - 1) + 1 = y
      BY <1>1
    <3>2. NewYearsDay((y - 1) + 1) = NewYearsDay(y - 1) + YearLength(y - 1)
      BY <3>1, YearAdds
    <3>3. NewYearsDay(y - 1) \in Int /\ YearLength(y - 1) \in {365, 366}
      BY <3>1, CalendarTypes
    <3> QED
      BY <1>1, <2>1, <3>1, <3>2, <3>3 DEF EpochDay
  <2>2. CASE y' = y + 1 /\ days' = days - YearLength(y)
    <3>1. NewYearsDay(y + 1) = NewYearsDay(y) + YearLength(y)
      BY <1>1, YearAdds
    <3>2. NewYearsDay(y) \in Int /\ YearLength(y) \in {365, 366}
      BY <1>1, CalendarTypes
    <3> QED
      BY <1>1, <2>2, <3>1, <3>2 DEF EpochDay
  <2> QED
    BY <2>1, <2>2 DEF CarryYear
<1>4. CivilTypeOK'
  BY <1>2, <1>3 DEF CivilInv, CivilTypeOK
<1> QED
  BY <1>2, <1>3, <1>4 DEF CivilInv, Kept, Filled, DayFound, CarryYear
-----------------------------------------------------------------------------
LEMMA DivMod ==
  ASSUME NEW a \in Nat, NEW b \in Nat \ {0}
  PROVE  /\ a \div b \in Nat /\ a % b \in 0 .. b - 1
         /\ b * (a \div b) + (a % b) = a
OBVIOUS

LEMMA Cancel ==
  ASSUME NEW a \in Int, NEW b \in Int, NEW c \in Nat \ {0}, c * a < c * b
  PROVE  a < b
<1> SUFFICES ASSUME a >= b
             PROVE  c * a >= c * b
  OBVIOUS
<1>1. c * (a - b) >= 0
  OBVIOUS
<1> QED
  BY <1>1

\* The quotient of a number below b * c by b is below c.
LEMMA DivBound ==
  ASSUME NEW a \in Nat, NEW b \in Nat \ {0}, NEW c \in Nat, a < b * c
  PROVE  a \div b \in 0 .. c - 1
<1>1. a \div b \in Nat /\ a % b >= 0 /\ b * (a \div b) + (a % b) = a /\ a % b \in Nat
  BY DivMod
<1>2. b * (a \div b) < b * c
  <2>1. b * (a \div b) \in Int /\ b * c \in Int
    BY <1>1
  <2> QED
    BY <1>1, <2>1
<1>3. a \div b < c
  BY <1>1, <1>2, Cancel
<1> QED
  BY <1>1, <1>3

LEMMA Weekday ==
  ASSUME NEW yr \in Int, NEW d \in Int
  PROVE  (EpochWday + Rem(yr - EpochYear, 7) * (365 % 7) + LeapsThruEndOf(yr - 1)
            - LeapsThruEndOf(EpochYear - 1) + d) % 7
         = (EpochWday + NewYearsDay(yr) + d) % 7
<1> DEFINE k == yr - EpochYear
           q == Quot(k, 7)
           l == LeapsThruEndOf(yr - 1) - LeapsThruEndOf(EpochYear - 1)
<1>1. k \in Int /\ q \in Int /\ Rem(k, 7) = k - q * 7
  BY DEF EpochYear, Quot, Rem
<1>2. LeapsThruEndOf(yr - 1) \in Int /\ LeapsThruEndOf(EpochYear - 1) \in Int /\ l \in Int
  <2>1. yr - 1 \in Int /\ EpochYear - 1 \in Int
    BY DEF EpochYear
  <2>2. LeapsThruEndOf(yr - 1) \in Int
    BY <2>1, CalendarTypes
  <2>3. LeapsThruEndOf(EpochYear - 1) \in Int
    BY <2>1, CalendarTypes
  <2> QED
    BY <2>2, <2>3
<1>3. NewYearsDay(yr) = 365 * k + l
  BY <1>1, <1>2, NewYearByLeaps
<1>4. (EpochWday + (k - q * 7) * (365 % 7) + l + d) % 7 = (EpochWday + 365 * k + l + d) % 7
  <2> HIDE DEF k, q, l
  <2> QED
    BY <1>1, <1>2, SMTT(30) DEF EpochWday
<1>5. EpochWday + Rem(k, 7) * (365 % 7) + LeapsThruEndOf(yr - 1)
            - LeapsThruEndOf(EpochYear - 1) + d
        = EpochWday + (k - q * 7) * (365 % 7) + l + d
  <2>1. Rem(k, 7) * (365 % 7) \in Int
    BY <1>1
  <2> QED
    BY <1>1, <1>2, <2>1 DEF EpochWday
<1>6. EpochWday + NewYearsDay(yr) + d = EpochWday + 365 * k + l + d
  BY <1>1, <1>2, <1>3 DEF EpochWday
<1> QED
  BY <1>4, <1>5, <1>6

LEMMA FieldsInv == CivilInv /\ Fields => CivilInv'
<1> SUFFICES ASSUME CivilInv, Fields, ~Null
             PROVE  CivilInv'
  BY NullInv
<1>1. /\ y \in Int /\ days \in Int /\ rem \in Nat /\ rem < SecsPerDay
      /\ 0 <= days /\ days < YearLength(y)
      /\ timep \in Int /\ offset \in Int
  BY DEF CivilInv, CivilTypeOK, Fields
<1>2. /\ YearLength(y) \in Int /\ LeapsThruEndOf(y - 1) \in Int
      /\ LeapsThruEndOf(EpochYear - 1) \in Int /\ Rem(y - EpochYear, 7) \in Int
      /\ NewYearsDay(y) \in Int
  <2>1. y - 1 \in Int /\ EpochYear - 1 \in Int /\ y - EpochYear \in Int
    BY <1>1 DEF EpochYear
  <2>2. YearLength(y) \in {365, 366} /\ NewYearsDay(y) \in Int
    BY <1>1, CalendarTypes
  <2>3. LeapsThruEndOf(y - 1) \in Int
    BY <2>1, CalendarTypes
  <2>4. LeapsThruEndOf(EpochYear - 1) \in Int
    BY <2>1, CalendarTypes
  <2>5. Rem(y - EpochYear, 7) \in Int
    BY <2>1, QuotRem
  <2> QED
    BY <2>2, <2>3, <2>4, <2>5
<1> DEFINE wday == (EpochWday + Rem(y - EpochYear, 7) * (365 % 7)
                      + LeapsThruEndOf(y - 1) - LeapsThruEndOf(EpochYear - 1)
                      + days) % 7
<1>3. wday \in Int
  BY <1>1, <1>2 DEF EpochWday
<1>4. wday = (EpochWday + NewYearsDay(y) + days) % 7
  BY <1>1, Weekday
<1>5. /\ rem \div SecsPerHour \in Int
      /\ (rem % SecsPerHour) \div SecsPerMin \in Int
      /\ (rem % SecsPerHour) % SecsPerMin \in Int
  BY <1>1, SecsTypes
<1>6. /\ cpc' = "months" /\ UNCHANGED <<timep, offset, y, days, rem>>
      /\ tm' = [year |-> y - YearBase, yday |-> days, wday |-> wday,
                hour |-> rem \div SecsPerHour,
                min |-> (rem % SecsPerHour) \div SecsPerMin,
                sec |-> (rem % SecsPerHour) % SecsPerMin,
                mon |-> 0, mday |-> tm.mday]
  BY DEF Fields
<1> HIDE DEF wday
<1>7. tm.mday \in Int
  BY DEF CivilInv, CivilTypeOK
<1>8. CivilTypeOK'
  <2>1. y - YearBase \in Int
    BY <1>1 DEF YearBase
  <2> QED
    BY <1>1, <1>3, <1>5, <1>6, <1>7, <2>1 DEF CivilInv, CivilTypeOK, Labels
<1>9. SecsPerDay * (NewYearsDay(y) + days) + rem = timep + offset
  BY DEF CivilInv, Kept, EpochDay, Fields
<1>10. DaysBefore(y, 0) = 0
  BY DEF DaysBefore
<1>11. Filled'
  BY <1>1, <1>2, <1>4, <1>6, <1>9, <1>10 DEF Filled
<1> QED
  BY <1>6, <1>8, <1>11 DEF CivilInv, Kept, DayFound

LEMMA SkipMonthInv == CivilInv /\ SkipMonth => CivilInv'
<1> SUFFICES ASSUME CivilInv, SkipMonth
             PROVE  CivilInv'
  OBVIOUS
<1> DEFINE m == tm.mon
<1>1. /\ y \in Int /\ days \in Int /\ m \in 0 .. 11 /\ tm.yday \in Int
      /\ days + DaysBefore(y, m) = tm.yday /\ tm.yday < YearLength(y)
      /\ days >= MonLength(y, m)
  <2>1. YearLength(y) \in {365, 366}
    BY CalendarTypes DEF CivilInv, CivilTypeOK
  <2> QED
    BY <2>1 DEF CivilInv, CivilTypeOK, Filled, SkipMonth
<1>2. /\ cpc' = cpc /\ UNCHANGED <<timep, offset, y, rem>>
      /\ days' = days - MonLength(y, m)
      /\ tm' = [tm EXCEPT !.mon = m + 1]
  BY DEF SkipMonth
<1> HIDE DEF m
<1>3. MonLength(y, m) \in 28 .. 31 /\ DaysBefore(y, m) \in Nat
        /\ YearLength(y) \in {365, 366}
  <2>1. MonLength(y, m) \in 28 .. 31 /\ DaysBefore(y, m) \in Nat
    BY <1>1, MonthTypes
  <2>2. YearLength(y) \in {365, 366}
    BY <1>1, CalendarTypes
  <2> QED
    BY <2>1, <2>2
<1>4. m < 11
  <2>1. m = 11 => DaysBefore(y, m) + MonLength(y, m) = YearLength(y)
    <3>1. 11 \in 0 .. 11 /\ 11 + 1 = 12
      OBVIOUS
    <3>2. DaysBefore(y, 12) = DaysBefore(y, 11) + MonLength(y, 11)
      BY <1>1, <3>1, MonthAdds
    <3> QED
      BY <1>1, <3>1, <3>2, MonthAdds
  <2> QED
    BY <1>1, <1>3, <2>1
<1>5. DaysBefore(y, m + 1) = DaysBefore(y, m) + MonLength(y, m)
  BY <1>1, <1>4, MonthAdds
<1>6. CivilTypeOK'
  BY <1>1, <1>2, <1>3 DEF CivilInv, CivilTypeOK
<1>7. /\ tm'.mon = m + 1 /\ tm'.yday = tm.yday /\ tm'.hour = tm.hour /\ tm'.min = tm.min
      /\ tm'.sec = tm.sec /\ tm'.year = tm.year /\ tm'.wday = tm.wday
  BY <1>2 DEF CivilInv, CivilTypeOK
<1>8. days' >= 0 /\ days' + DaysBefore(y', tm'.mon) = tm'.yday /\ tm'.mon \in 0 .. 11
  BY <1>1, <1>2, <1>3, <1>4, <1>5, <1>7
<1>9. Filled'
  BY <1>2, <1>7, <1>8 DEF CivilInv, Filled, SkipMonth
<1> QED
  BY <1>2, <1>6, <1>9 DEF CivilInv, Kept, DayFound, SkipMonth

LEMMA SetDayInv == CivilInv /\ SetDay => CivilInv'
<1> SUFFICES ASSUME CivilInv, SetDay
             PROVE  CivilInv'
  OBVIOUS
<1>1. /\ cpc = "months" /\ cpc' = "done" /\ UNCHANGED <<timep, offset, y, days, rem>>
      /\ tm' = [tm EXCEPT !.mday = days + 1] /\ days < MonLength(y, tm.mon)
  BY DEF SetDay
<1>2. CivilTypeOK'
  BY <1>1 DEF CivilInv, CivilTypeOK, Labels
<1>3. /\ tm'.mon = tm.mon /\ tm'.yday = tm.yday /\ tm'.hour = tm.hour /\ tm'.min = tm.min
      /\ tm'.sec = tm.sec /\ tm'.year = tm.year /\ tm'.wday = tm.wday
      /\ tm'.mday = days + 1
  BY <1>1 DEF CivilInv, CivilTypeOK
<1>4. Filled'
  BY <1>1, <1>3 DEF CivilInv, Filled
<1> QED
  BY <1>1, <1>2, <1>3, <1>4 DEF CivilInv, Kept, DayFound

LEMMA InvStep == CivilInv /\ [CivilNext]_civilVars => CivilInv'
<1> SUFFICES ASSUME CivilInv, [CivilNext]_civilVars
             PROVE  CivilInv'
  OBVIOUS
<1>1. CASE \E t \in Times, off \in Offsets : Timesub(t, off)
  BY <1>1, TimesubInv
<1>2. CASE Convert
  BY <1>2, SkipYearsInv, AddOffsetInv, CarryDayInv, CarryYearInv, FieldsInv,
     SkipMonthInv, SetDayInv DEF Convert
<1>3. CASE UNCHANGED civilVars
  BY <1>3 DEF civilVars, CivilInv, CivilTypeOK, Kept, Filled, DayFound, EpochDay
<1> QED
  BY <1>1, <1>2, <1>3 DEF CivilNext

\* The fields of a second of the day.
LEMMA ClockRight ==
  ASSUME NEW r \in Nat, r < SecsPerDay
  PROVE  /\ r \div SecsPerHour \in 0 .. HoursPerDay - 1
         /\ (r % SecsPerHour) \div SecsPerMin \in 0 .. MinsPerHour - 1
         /\ (r % SecsPerHour) % SecsPerMin \in 0 .. SecsPerMin - 1
         /\ SecsPerHour * (r \div SecsPerHour)
              + SecsPerMin * ((r % SecsPerHour) \div SecsPerMin)
              + ((r % SecsPerHour) % SecsPerMin) = r
<1> DEFINE s == r % SecsPerHour
<1>1. /\ SecsPerHour \in Nat \ {0} /\ SecsPerMin \in Nat \ {0}
      /\ HoursPerDay \in Nat /\ MinsPerHour \in Nat
      /\ SecsPerDay = SecsPerHour * HoursPerDay
      /\ SecsPerHour = SecsPerMin * MinsPerHour
  BY SecsTypes, CalendarAssumption DEF SecsPerDay, SecsPerHour
<1>2. /\ r \div SecsPerHour \in Nat /\ s \in 0 .. SecsPerHour - 1
      /\ SecsPerHour * (r \div SecsPerHour) + s = r
  BY <1>1, DivMod
<1>3. r \div SecsPerHour \in 0 .. HoursPerDay - 1
  BY <1>1, DivBound
<1>4. s \in Nat /\ s < SecsPerMin * MinsPerHour
  BY <1>1, <1>2
<1> HIDE DEF s
<1>5. s \div SecsPerMin \in 0 .. MinsPerHour - 1
  BY <1>1, <1>4, DivBound
<1>6. /\ s \div SecsPerMin \in Nat /\ s % SecsPerMin \in 0 .. SecsPerMin - 1
      /\ SecsPerMin * (s \div SecsPerMin) + (s % SecsPerMin) = s
  BY <1>1, <1>4, DivMod
<1>7. SecsPerHour * (r \div SecsPerHour) + SecsPerMin * (s \div SecsPerMin)
        + (s % SecsPerMin) = r
  <2>1. SecsPerHour * (r \div SecsPerHour) \in Int /\ SecsPerMin * (s \div SecsPerMin) \in Int
    BY <1>1, <1>2, <1>6
  <2> QED
    BY <1>2, <1>6, <2>1
<1> QED
  BY <1>3, <1>5, <1>6, <1>7 DEF s

LEMMA InvDate == CivilInv => DateRight
<1> SUFFICES ASSUME CivilInv, cpc = "done"
             PROVE  DateRight
  BY DEF DateRight
<1>1. /\ rem \in Nat /\ rem < SecsPerDay /\ y \in Int /\ days \in Int
      /\ tm.yday \in Int /\ tm.mon \in 0 .. 11 /\ days >= 0
      /\ days + DaysBefore(y, tm.mon) = tm.yday
      /\ SecsPerDay * (NewYearsDay(y) + tm.yday) + rem = timep + offset
      /\ tm.mday = days + 1 /\ days < MonLength(y, tm.mon)
      /\ timep + offset \in Int
  BY DEF CivilInv, CivilTypeOK, Filled, DayFound
<1>2. /\ tm.hour = rem \div SecsPerHour
      /\ tm.min = (rem % SecsPerHour) \div SecsPerMin
      /\ tm.sec = (rem % SecsPerHour) % SecsPerMin
      /\ tm.year = y - YearBase
      /\ tm.wday = (EpochWday + NewYearsDay(y) + tm.yday) % 7
  BY DEF CivilInv, Filled
<1>3. /\ tm.hour \in 0 .. HoursPerDay - 1 /\ tm.min \in 0 .. MinsPerHour - 1
      /\ tm.sec \in 0 .. SecsPerMin - 1
      /\ SecsPerHour * tm.hour + SecsPerMin * tm.min + tm.sec = rem
  BY <1>1, <1>2, ClockRight
<1>4. NewYearsDay(y) \in Int /\ MonLength(y, tm.mon) \in 28 .. 31
        /\ DaysBefore(y, tm.mon) \in Nat
  <2>1. NewYearsDay(y) \in Int
    BY <1>1, CalendarTypes
  <2>2. MonLength(y, tm.mon) \in 28 .. 31 /\ DaysBefore(y, tm.mon) \in Nat
    BY <1>1, MonthTypes
  <2> QED
    BY <2>1, <2>2
<1>5. /\ tm.mday \in 1 .. DaysBefore(y, tm.mon + 1) - DaysBefore(y, tm.mon)
      /\ tm.yday = DaysBefore(y, tm.mon) + tm.mday - 1
  <2>1. DaysBefore(y, tm.mon + 1) = DaysBefore(y, tm.mon) + MonLength(y, tm.mon)
    BY <1>1, MonthAdds
  <2> QED
    BY <1>1, <1>4, <2>1
<1>6. SecsPerDay * (NewYearsDay(y) + tm.yday)
        + SecsPerHour * tm.hour + SecsPerMin * tm.min + tm.sec = timep + offset
  <2>1. /\ SecsPerDay * (NewYearsDay(y) + tm.yday) \in Int
        /\ SecsPerHour * tm.hour \in Int /\ SecsPerMin * tm.min \in Int /\ tm.sec \in Int
    <3>1. NewYearsDay(y) + tm.yday \in Int /\ tm.hour \in Int /\ tm.min \in Int
      BY <1>1, <1>3, <1>4
    <3> QED
      BY <3>1, <1>3, SecsTypes, Distribute
  <2> QED
    BY <1>1, <1>3, <2>1
<1> QED
  BY <1>1, <1>2, <1>3, <1>5, <1>6 DEF DateRight

\* __stdlog_timesub returns the right date for every time and every offset,
\* before the epoch and after it.
THEOREM CivilCorrect == CivilSpec => []DateRight
<1>1. CivilInit => CivilInv
  BY InitInv
<1>2. CivilInv /\ [CivilNext]_civilVars => CivilInv'
  BY InvStep
<1>3. CivilInv => DateRight
  BY InvDate
<1> QED
  BY <1>1, <1>2, <1>3, PTL DEF CivilSpec

-----------------------------------------------------------------------------
\* Any span of years has at most one leap day a year.
LEMMA LeapsBetween ==
  ASSUME NEW a \in Int, NEW k \in Nat
  PROVE  LeapsThruEndOf(a + k) - LeapsThruEndOf(a) \in 0 .. k
<1>1. /\ LeapsThruEndOf(a) = a \div 4 - a \div 100 + a \div 400
      /\ LeapsThruEndOf(a + k) = (a + k) \div 4 - (a + k) \div 100 + (a + k) \div 400
  BY LeapsFloor
<1> QED
  BY <1>1, SMTT(60)

LEMMA SkipConverges ==
  ASSUME CivilInv, SkipYears, ~Null
  PROVE  IF days >= 0 THEN 0 <= days' /\ days' < days
         ELSE days < days' /\ days' < YearLength(y')
<1>1. /\ y \in Int /\ days \in Int /\ y' = NewYear
      /\ days' = days - 365 * (NewYear - y)
                   - (LeapsThruEndOf(NewYear - 1) - LeapsThruEndOf(y - 1))
      /\ days < 0 \/ days >= YearLength(y)
  BY DEF CivilInv, CivilTypeOK, SkipYears
<1>2. CASE days >= 0
  <2>1. PICK k \in Nat : /\ k >= 1 /\ NewYear = y + k
                         /\ k > 1 => 366 * k <= days
                         /\ k = 1 => days >= 366 \/ Delta = 0
    <3>1. CASE Delta # 0
      <4>1. Delta = days \div 366 /\ Delta \in Nat /\ 366 * Delta <= days
        BY <1>1, <1>2 DEF Delta, Quot
      <4> QED
        BY <1>1, <3>1, <4>1 DEF NewYear
    <3>2. CASE Delta = 0
      BY <1>1, <1>2, <3>2 DEF NewYear
    <3> QED
      BY <3>1, <3>2
  <2>2. LeapsThruEndOf(NewYear - 1) - LeapsThruEndOf(y - 1) \in 0 .. k
    <3>1. y - 1 \in Int /\ (y - 1) + k = NewYear - 1
      BY <1>1, <2>1
    <3> QED
      BY <3>1, LeapsBetween
  <2>3. CASE k > 1 \/ days >= 366
    BY <1>1, <1>2, <2>1, <2>2, <2>3
  <2>4. CASE k = 1 /\ days < 366
    <3>1. days' = days - YearLength(y)
      <4>1. NewYearsDay(y + 1) = NewYearsDay(y) + YearLength(y)
        BY <1>1, YearAdds
      <4>2. y + 1 \in Int /\ LeapsThruEndOf(y - 1) \in Int
              /\ LeapsThruEndOf(y) \in Int /\ LeapsThruEndOf(1969) \in Int
        BY <1>1, CalendarTypes
      <4>3. NewYearsDay(y) = 365 * (y - 1970) + LeapsThruEndOf(y - 1) - LeapsThruEndOf(1969)
        BY <1>1, NewYearByLeaps DEF EpochYear
      <4>4. NewYearsDay(y + 1) = 365 * (y + 1 - 1970) + LeapsThruEndOf(y) - LeapsThruEndOf(1969)
        <5>1. (y + 1) - 1 = y
          BY <1>1
        <5> QED
          BY <4>2, <5>1, NewYearByLeaps DEF EpochYear
      <4>5. NewYear = y + 1 /\ NewYear - 1 = y
        BY <1>1, <2>1, <2>4
      <4>6. YearLength(y) \in {365, 366}
        BY <1>1, CalendarTypes
      <4> QED
        BY <1>1, <4>1, <4>2, <4>3, <4>4, <4>5, <4>6
    <3>2. YearLength(y) \in {365, 366}
      BY <1>1, CalendarTypes
    <3> QED
      BY <1>1, <1>2, <3>1, <3>2
  <2> QED
    BY <1>1, <2>1, <2>3, <2>4
<1>3. CASE days < 0
  <2>1. CASE Delta # 0
    <3>1. PICK k \in Nat : k >= 1 /\ NewYear = y - k /\ 366 * k <= -days
      <4>1. Delta = -((-days) \div 366) /\ (-days) \div 366 \in Nat
              /\ 366 * ((-days) \div 366) <= -days
        BY <1>1, <1>3 DEF Delta, Quot
      <4> QED
        BY <1>1, <2>1, <4>1 DEF NewYear
    <3>2. LeapsThruEndOf(y - 1) - LeapsThruEndOf(NewYear - 1) \in 0 .. k
      <4>1. NewYear - 1 \in Int /\ (NewYear - 1) + k = y - 1
        BY <1>1, <3>1
      <4> QED
        BY <4>1, LeapsBetween
    <3>3. LeapsThruEndOf(y - 1) \in Int /\ LeapsThruEndOf(NewYear - 1) \in Int
      <4>1. y - 1 \in Int /\ NewYear - 1 \in Int
        BY <1>1, <3>1
      <4> QED
        BY <4>1, CalendarTypes
    <3>4. days < days' /\ days' <= 0
      BY <1>1, <3>1, <3>2, <3>3
    <3>5. YearLength(NewYear) \in {365, 366}
      <4>1. NewYear \in Int
        BY <1>1, <3>1
      <4> QED
        BY <4>1, CalendarTypes
    <3>6. days' \in Int
      BY <1>1, <3>1, <3>3
    <3> QED
      BY <1>1, <1>3, <3>4, <3>5, <3>6
  <2>2. CASE Delta = 0
    <3>1. NewYear = y - 1 /\ y - 1 \in Int /\ y - 1 - 1 \in Int /\ (y - 1) + 1 = y
      BY <1>1, <1>3, <2>2 DEF NewYear
    <3>2. NewYearsDay((y - 1) + 1) = NewYearsDay(y - 1) + YearLength(y - 1)
      BY <3>1, YearAdds
    <3>3. LeapsThruEndOf(y - 1) \in Int
      BY <3>1, CalendarTypes
    <3>4. LeapsThruEndOf(y - 1 - 1) \in Int
      BY <3>1, CalendarTypes
    <3>5. LeapsThruEndOf(1969) \in Int
      BY CalendarTypes
    <3>6. NewYearsDay(y) = 365 * (y - 1970) + LeapsThruEndOf(y - 1) - LeapsThruEndOf(1969)
      BY <1>1, NewYearByLeaps DEF EpochYear
    <3>7. NewYearsDay(y - 1) = 365 * (y - 1 - 1970) + LeapsThruEndOf(y - 1 - 1)
                                 - LeapsThruEndOf(1969)
      BY <3>1, NewYearByLeaps DEF EpochYear
    <3>8. YearLength(y - 1) \in {365, 366}
      BY <3>1, CalendarTypes
    <3>9. days' = days + YearLength(y - 1)
      BY <1>1, <3>1, <3>2, <3>3, <3>4, <3>5, <3>6, <3>7, <3>8
    <3> QED
      BY <1>1, <1>3, <3>1, <3>8, <3>9
  <2> QED
    BY <2>1, <2>2
<1> QED
  BY <1>1, <1>2, <1>3

\* The search for the year always comes closer and never overshoots, for every
\* time: this is why __stdlog_timesub ends.
THEOREM CivilConverges == CivilSpec => NeverOvershoots
<1>1. CivilInv /\ [CivilNext]_civilVars =>
        [cpc = "years" /\ cpc' = "years" =>
           IF days >= 0 THEN 0 <= days' /\ days' < days
           ELSE days < days' /\ days' < YearLength(y')]_civilVars
  <2> SUFFICES ASSUME CivilInv, CivilNext, cpc = "years", cpc' = "years"
               PROVE  IF days >= 0 THEN 0 <= days' /\ days' < days
                      ELSE days < days' /\ days' < YearLength(y')
    OBVIOUS
  <2>1. SkipYears /\ ~Null
    BY DEF CivilNext, Convert, Timesub, AddOffset, CarryDay, CarryYear, Fields,
       SkipMonth, SetDay, Null
  <2> QED
    BY <2>1, SkipConverges
<1> QED
  BY <1>1, InitInv, InvStep, PTL DEF CivilSpec, NeverOvershoots
=============================================================================
