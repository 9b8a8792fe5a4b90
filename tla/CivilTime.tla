------------------------------ MODULE CivilTime ------------------------------
(***************************************************************************)
(* __stdlog_timesub: the date and the time of day of a time_t, computed by *)
(* hand because gmtime() is not signal-safe.  One action is one turn of    *)
(* one of its loops.                                                       *)
(*                                                                         *)
(* The lengths of minute, hour and day are parameters, as they are macros  *)
(* in the code; small ones let a model of few seconds reach distant years. *)
(* IntMax is INT_MAX, the limit of a year.  time_t and long are wide       *)
(* enough for every product formed from them.                              *)
(***************************************************************************)
EXTENDS Integers

CONSTANTS
  SecsPerMin, MinsPerHour, HoursPerDay,
  IntMax,       \* INT_MAX
  Times,        \* bound: values of *timep
  Offsets       \* bound: values of offset

ASSUME CalendarAssumption ==
  /\ SecsPerMin \in Nat \ {0} /\ MinsPerHour \in Nat \ {0}
  /\ HoursPerDay \in Nat \ {0}
  /\ IntMax \in Nat /\ IntMax > 1970
  /\ Times \subseteq Int /\ Offsets \subseteq Int

SecsPerHour == SecsPerMin * MinsPerHour
SecsPerDay == SecsPerHour * HoursPerDay
EpochYear == 1970
EpochWday == 4
YearBase == 1900

CInt == -IntMax - 1 .. IntMax

\* The division of C cuts towards zero.
Quot(a, b) == IF a >= 0 THEN a \div b ELSE -((-a) \div b)
Rem(a, b) == a - Quot(a, b) * b

\* Mutant: every fourth year is a leap year.
IsLeap_Julian(yr) == yr % 4 = 0
IsLeap(yr) == yr % 4 = 0 /\ (yr % 100 # 0 \/ yr % 400 = 0)
YearLength(yr) == IF IsLeap(yr) THEN 366 ELSE 365
MonLength(yr, m) == IF m = 1 THEN (IF IsLeap(yr) THEN 29 ELSE 28)
                   ELSE IF m \in {3, 5, 8, 10} THEN 30 ELSE 31

\* Leap years through the end of year y, counted from the end of year 0;
\* a negative year is counted by its mirror image.
LeapsOf(yr) == yr \div 4 - yr \div 100 + yr \div 400
LeapsThruEndOf(yr) == IF yr >= 0 THEN LeapsOf(yr) ELSE -(LeapsOf(-(yr + 1)) + 1)

VARIABLES
  cpc,           \* "idle", or the loop it is in, or "done", or "null"
  timep, offset, \* the arguments
  y, days, rem,  \* year, day of that year (tdays, then idays), second of the day
  tm             \* the struct tm

civilVars == <<cpc, timep, offset, y, days, rem, tm>>

NoTm == [year |-> 0, yday |-> 0, wday |-> 0, hour |-> 0, min |-> 0, sec |-> 0,
         mon |-> 0, mday |-> 0]

CivilInit ==
  /\ cpc = "idle" /\ timep = 0 /\ offset = 0
  /\ y = EpochYear /\ days = 0 /\ rem = 0 /\ tm = NoTm

\* The time is cut into days and seconds, both negative before the epoch.
Timesub(t, off) ==
  /\ cpc = "idle"
  /\ cpc' = "years" /\ timep' = t /\ offset' = off
  /\ y' = EpochYear /\ days' = Quot(t, SecsPerDay) /\ rem' = Rem(t, SecsPerDay)
  /\ tm' = NoTm

Null == cpc' = "null" /\ UNCHANGED <<timep, offset, y, days, rem, tm>>

\* Years are skipped as if all were leap years: the guess falls short of the
\* year and the next turn goes on from there.
\* Mutant: as if no year were a leap year.
Delta_365 == Quot(days, 365)
Delta == Quot(days, 366)
\* Mutant: less than a year is no reason to move.
NewYear_Stuck == y + Delta
NewYear == y + (IF Delta # 0 THEN Delta ELSE IF days < 0 THEN -1 ELSE 1)
SkipYears ==
  /\ cpc = "years"
  /\ days < 0 \/ days >= YearLength(y)
  /\ IF Delta \notin CInt \/ NewYear \notin CInt THEN Null
     ELSE /\ y' = NewYear
          /\ days' = days - 365 * (NewYear - y)
                       - (LeapsThruEndOf(NewYear - 1) - LeapsThruEndOf(y - 1))
          /\ UNCHANGED <<cpc, timep, offset, rem, tm>>
AddOffset ==
  /\ cpc = "years" /\ 0 <= days /\ days < YearLength(y)
  /\ cpc' = "carry" /\ rem' = rem + offset
  /\ UNCHANGED <<timep, offset, y, days, tm>>

\* The four loops that bring the second into the day and the day into the year.
CarryDay ==
  /\ cpc = "carry"
  /\ \/ rem < 0 /\ rem' = rem + SecsPerDay /\ days' = days - 1
     \/ rem >= SecsPerDay /\ rem' = rem - SecsPerDay /\ days' = days + 1
  /\ UNCHANGED <<cpc, timep, offset, y, tm>>
CarryYear ==
  /\ cpc = "carry" /\ 0 <= rem /\ rem < SecsPerDay
  /\ \/ /\ days < 0
        /\ IF y - 1 \notin CInt THEN Null
           ELSE y' = y - 1 /\ days' = days + YearLength(y - 1)
                  /\ UNCHANGED <<cpc, timep, offset, rem, tm>>
     \/ /\ days >= YearLength(y)
        /\ IF y + 1 \notin CInt THEN Null
           ELSE y' = y + 1 /\ days' = days - YearLength(y)
                  /\ UNCHANGED <<cpc, timep, offset, rem, tm>>

Fields ==
  /\ cpc = "carry"
  /\ 0 <= rem /\ rem < SecsPerDay /\ 0 <= days /\ days < YearLength(y)
  /\ IF y - YearBase \notin CInt THEN Null
     ELSE /\ tm' = [
               year |-> y - YearBase, yday |-> days,
               wday |-> (EpochWday + Rem(y - EpochYear, 7) * (365 % 7)
                           + LeapsThruEndOf(y - 1) - LeapsThruEndOf(EpochYear - 1)
                           + days) % 7,
               hour |-> rem \div SecsPerHour,
               min |-> (rem % SecsPerHour) \div SecsPerMin,
               sec |-> (rem % SecsPerHour) % SecsPerMin,
               mon |-> 0, mday |-> tm.mday]
          /\ cpc' = "months"
          /\ UNCHANGED <<timep, offset, y, days, rem>>

SkipMonth ==
  /\ cpc = "months" /\ days >= MonLength(y, tm.mon)
  /\ days' = days - MonLength(y, tm.mon)
  /\ tm' = [tm EXCEPT !.mon = @ + 1]
  /\ UNCHANGED <<cpc, timep, offset, y, rem>>
SetDay ==
  /\ cpc = "months" /\ days < MonLength(y, tm.mon)
  /\ tm' = [tm EXCEPT !.mday = days + 1]
  /\ cpc' = "done"
  /\ UNCHANGED <<timep, offset, y, days, rem>>

Convert == SkipYears \/ AddOffset \/ CarryDay \/ CarryYear \/ Fields
             \/ SkipMonth \/ SetDay

CivilNext == (\E t \in Times, off \in Offsets : Timesub(t, off)) \/ Convert
CivilSpec == CivilInit /\ [][CivilNext]_civilVars
-----------------------------------------------------------------------------
\* The proleptic Gregorian calendar: days from the epoch to the first day of a
\* year, and days of a year before the first of a month.
NewYearsDay(yr) ==
  365 * (yr - EpochYear) + (yr - 1) \div 4 - (yr - 1) \div 100 + (yr - 1) \div 400 - 477
LeapDay(yr) == NewYearsDay(yr + 1) - NewYearsDay(yr) - 365
DaysBefore(yr, m) ==
  <<0, 31, 59, 90, 120, 151, 181, 212, 243, 273, 304, 334, 365>>[m + 1]
    + (IF m > 1 THEN LeapDay(yr) ELSE 0)

\* The date __stdlog_timesub returns is the one day of the calendar, and the
\* one second of that day, that lie timep + offset seconds after the epoch.
DateRight ==
  cpc = "done" =>
    /\ tm.mon \in 0 .. 11
    /\ tm.mday \in 1 .. DaysBefore(y, tm.mon + 1) - DaysBefore(y, tm.mon)
    /\ tm.hour \in 0 .. HoursPerDay - 1 /\ tm.min \in 0 .. MinsPerHour - 1
    /\ tm.sec \in 0 .. SecsPerMin - 1
    /\ tm.year = y - YearBase
    /\ tm.yday = DaysBefore(y, tm.mon) + tm.mday - 1
    /\ SecsPerDay * (NewYearsDay(y) + tm.yday)
         + SecsPerHour * tm.hour + SecsPerMin * tm.min + tm.sec = timep + offset
    /\ tm.wday = (EpochWday + NewYearsDay(y) + tm.yday) % 7

\* The search for the year never overshoots: it comes closer with every turn
\* and stays on its side, so the loop ends.
NeverOvershoots ==
  [][cpc = "years" /\ cpc' = "years" =>
       IF days >= 0 THEN 0 <= days' /\ days' < days
       ELSE days < days' /\ days' < YearLength(y')]_civilVars
=============================================================================
