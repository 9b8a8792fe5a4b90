---------------------------- MODULE SyslogMessage ----------------------------
(***************************************************************************)
(* srSLMGObj: a syslog message, built from its fields or parsed into them. *)
(*                                                                         *)
(* An object is a record; the operators are the methods that change it and *)
(* return a new record, with a result where the method has one.  Memory is *)
(* never short.  The numbers of a message fit an int.                      *)
(***************************************************************************)
EXTENDS Text

CONSTANT OwnHost   \* what gethostname() returns

NullStr == <<"NULL">>

\* srSLMGConstruct.
NewMesg ==
  [fac |-> 1, sev |-> 5, raw |-> NullStr, ownRaw |-> FALSE, remote |-> NullStr,
   format |-> "invalid", stampType |-> "invalid", stamp |-> NullStr,
   host |-> NullStr, tag |-> NullStr, msg |-> NullStr,
   year |-> 0, month |-> 0, day |-> 0, hour |-> 0, minute |-> 0, second |-> 0,
   frac |-> 0, prec |-> 0, mode |-> NUL, offHour |-> 0, offMin |-> 0]

Ok(m) == [rc |-> "ok", m |-> m]
Refused(rc, m) == [rc |-> rc, m |-> m]

SetFacility(m, n) ==
  IF n \in 0 .. 23 THEN Ok([m EXCEPT !.fac = n]) ELSE Refused("facility", m)
SetSeverity(m, n) ==
  IF n \in 0 .. 7 THEN Ok([m EXCEPT !.sev = n]) ELSE Refused("severity", m)

SetTag(m, t) ==
  IF Len(t) <= 32 /\ ToSet(t) \intersect {":", " "} = {} THEN Ok([m EXCEPT !.tag = t])
  ELSE Refused("tag", m)
SetMsg(m, text) == [m EXCEPT !.msg = text]
SetRawMsg(m, text, copied) == [m EXCEPT !.raw = text, !.ownRaw = copied]
SetRemoteHostIP(m, host) == [m EXCEPT !.remote = host]

\* srSLMGSetTIMESTAMPtoCurrent; now is a broken-down local time with its
\* microseconds and the seconds it lies east of Greenwich.  What is called the
\* minute of the offset is the rest of the hour in seconds.
SetTimestamp(m, now) ==
  LET bias == IF now.gmtoff < 0 THEN -now.gmtoff ELSE now.gmtoff
  IN [m EXCEPT !.year = now.year, !.month = now.month, !.day = now.day,
               !.hour = now.hour, !.minute = now.minute, !.second = now.second,
               !.frac = now.usec, !.prec = 6,
               !.mode = IF now.gmtoff < 0 THEN "-" ELSE "+",
               !.offHour = bias \div 3600, !.offMin = bias % 3600]
SetHostname(m) == [m EXCEPT !.host = OwnHost]
-----------------------------------------------------------------------------
(***************************************************************************)
(* srSLMGFormatRawMsg.                                                     *)
(***************************************************************************)
Names == <<"ERR", "Jan", "Feb", "Mar", "Apr", "May", "Jun", "Jul", "Aug", "Sep",
           "Oct", "Nov", "Dec">>

Two(n) == Padded(n, 2, "0")
ClockText(m) == Two(m.hour) \o <<":">> \o Two(m.minute) \o <<":">> \o Two(m.second)

Stamp3164(m) ==
  Chars(Names[m.month + 1]) \o <<" ">> \o Padded(m.day, 2, " ") \o <<" ">>
    \o ClockText(m) \o <<" ">>
\* Mutant: the fraction is written without its leading zeros.
StampSign12_Frac(m) ==
  Padded(m.year, 4, "0") \o <<"-">> \o Two(m.month) \o <<"-">> \o Two(m.day)
    \o <<"T">> \o ClockText(m)
    \o (IF m.prec > 0 THEN <<".">> \o Decimal(m.frac) ELSE <<>>)
    \o <<m.mode>> \o Two(m.offHour) \o <<":">> \o Two(m.offMin) \o <<" ">>
StampSign12(m) ==
  Padded(m.year, 4, "0") \o <<"-">> \o Two(m.month) \o <<"-">> \o Two(m.day)
    \o <<"T">> \o ClockText(m)
    \o (IF m.prec > 0 THEN <<".">> \o Padded(m.frac, m.prec, "0") ELSE <<>>)
    \o <<m.mode>> \o Two(m.offHour) \o <<":">> \o Two(m.offMin) \o <<" ">>

\* SNPRINTF writes 33 characters at most, and a NUL among them ends the string.
StampText(m, fmt) ==
  LET whole == IF fmt = "3164" THEN Stamp3164(m) ELSE StampSign12(m)
      ends == {33, SkipTo(whole, 1, {}) - 1}
  IN SubSeq(whole, 1, CHOOSE e \in ends : \A f \in ends : e <= f)

\* The colon after the tag, where it has none of its own.
Colon(t, fmt) ==
  IF t[Len(t)] # ":" /\ (fmt = "sign12" \/ t[Len(t)] \in Alnum) THEN <<":">> ELSE <<>>

FormatRawMsg(m, fmt) ==
  IF fmt \notin {"3164", "sign12"} THEN Refused("format", m)
  ELSE IF m.raw # NullStr /\ ~m.ownRaw THEN Refused("buffer", m)
  ELSE LET stamp == StampText(m, fmt)
           raw == <<"<">> \o Decimal(8 * m.fac + m.sev) \o <<">">> \o stamp
                    \o m.host \o <<" ">> \o m.tag \o Colon(m.tag, fmt) \o m.msg
       IN Ok([m EXCEPT !.stamp = stamp, !.raw = raw, !.ownRaw = TRUE])
-----------------------------------------------------------------------------
(***************************************************************************)
(* srSLMGParseMesg.  A parser takes over where the one before has stopped, *)
(* with what has been set so far, and says the same of itself; once one    *)
(* has failed, no other is tried.                                          *)
(***************************************************************************)
Parsed(i, m) == [ok |-> TRUE, i |-> i, m |-> m]
Failed(m) == [ok |-> FALSE, i |-> 0, m |-> m]

ParsePRI(s, m) ==
  LET j == SkipOver(s, 2, Digits)
      n == NumberAt(s, 2)
  IN IF At(s, 1) = "<" /\ At(s, j) = ">"
     THEN Parsed(j + 1, [m EXCEPT !.fac = n \div 8, !.sev = n % 8])
     ELSE Failed(m)

\* The parts of a stamp are numbers within limits and characters.
Num(field, low, high) == [field |-> field, low |-> low, high |-> high]
Lit(c) == [field |-> "", lit |-> c]

Scan(s, from, items) ==
  FoldLeft(LAMBDA p, item :
             IF ~p.ok THEN p
             ELSE IF item.field = ""
             THEN [p EXCEPT !.ok = At(s, p.i) = item.lit, !.i = @ + 1]
             ELSE [ok |-> NumberAt(s, p.i) \in item.low .. item.high,
                   i |-> SkipOver(s, p.i, Digits),
                   m |-> [p.m EXCEPT ![item.field] = NumberAt(s, p.i)]],
           from, items)

ClockItems == <<Num("hour", 0, 23), Lit(":"), Num("minute", 0, 59), Lit(":"),
                Num("second", 0, 60)>>
DateItems == <<Num("year", 2003, 9999), Lit("-"), Num("month", 1, 12), Lit("-"),
               Num("day", 1, 31), Lit("T")>>
ZoneItems == <<Num("offHour", 0, 23), Lit(":"), Num("offMin", 0, 59)>>

Fraction(t, p) ==
  LET j == SkipOver(t, p.i + 1, Digits) IN
  IF ~p.ok THEN p
  ELSE IF At(t, p.i) = "."
  THEN Parsed(j, [p.m EXCEPT !.frac = NumberAt(t, p.i + 1), !.prec = j - p.i - 1])
  ELSE Parsed(p.i, [p.m EXCEPT !.frac = 0, !.prec = 0])

Zone(t, p) ==
  CASE ~p.ok -> p
    [] p.ok /\ At(t, p.i) = "Z" -> Parsed(p.i, [p.m EXCEPT !.offHour = 0, !.offMin = 0])
    [] p.ok /\ At(t, p.i) \in {"+", "-"} ->
         Scan(t, Parsed(p.i + 1, [p.m EXCEPT !.mode = At(t, p.i)]), ZoneItems)
    [] OTHER -> Failed(p.m)

Typed(p, type) == IF p.ok THEN [p EXCEPT !.m.stampType = type] ELSE p

Parse3339(t, m) ==
  Typed(Zone(t, Fraction(t, Scan(t, Parsed(1, m), DateItems \o ClockItems))), "3339")

\* The first letters of a stamp and the month they stand for: a letter that is
\* compared in vain has been eaten all the same.
MonthAt(t) ==
  LET Is(i, c) == At(t, i) = c
      Month(n, next) == [month |-> n, i |-> next]
  IN CASE Is(1, "J") /\ Is(2, "a") /\ Is(3, "n") -> Month(1, 4)
       [] Is(1, "J") /\ ~Is(2, "a") /\ Is(3, "u") /\ Is(4, "n") -> Month(6, 5)
       [] Is(1, "J") /\ ~Is(2, "a") /\ Is(3, "u") /\ ~Is(4, "n") /\ Is(5, "l") -> Month(7, 6)
       [] Is(1, "F") /\ Is(2, "e") /\ Is(3, "b") -> Month(2, 4)
       [] Is(1, "M") /\ Is(2, "a") /\ Is(3, "r") -> Month(3, 4)
       [] Is(1, "M") /\ Is(2, "a") /\ ~Is(3, "r") /\ Is(4, "y") -> Month(5, 5)
       [] Is(1, "A") /\ Is(2, "p") /\ Is(3, "r") -> Month(4, 4)
       [] Is(1, "A") /\ ~Is(2, "p") /\ Is(3, "u") /\ Is(4, "g") -> Month(8, 5)
       [] Is(1, "S") /\ Is(2, "e") /\ Is(3, "p") -> Month(9, 4)
       [] Is(1, "O") /\ Is(2, "c") /\ Is(3, "t") -> Month(10, 4)
       [] Is(1, "N") /\ Is(2, "o") /\ Is(3, "v") -> Month(11, 4)
       [] Is(1, "D") /\ Is(2, "e") /\ Is(3, "c") -> Month(12, 4)
       [] OTHER -> Month(0, 0)

Parse3164(t, m) ==
  LET month == MonthAt(t)
      n == [m EXCEPT !.month = month.month]
      day == IF At(t, month.i + 1) = " " THEN month.i + 2 ELSE month.i + 1
  IN IF month.month = 0 THEN Failed(m)
     ELSE IF At(t, month.i) # " " THEN Failed(n)
     ELSE Typed(Scan(t, Parsed(day, n), <<Num("day", 1, 31), Lit(" ")>> \o ClockItems),
                "3164")

\* A stamp is 32 characters long at most; a space ends it from the eleventh on.
StampEnd(s, i) ==
  CHOOSE j \in i .. i + 32 :
    /\ j = i + 32 \/ At(s, j) = NUL \/ (j >= i + 10 /\ At(s, j) = " ")
    /\ \A k \in i .. j - 1 : At(s, k) # NUL /\ (k >= i + 10 => At(s, k) # " ")
ParseStamp(t, m) ==
  IF Len(t) > 11 /\ t[11] = "T" THEN Parse3339(t, m) ELSE Parse3164(t, m)
ParseTIMESTAMP(s, p) ==
  LET j == StampEnd(s, p.i)
      t == SubSeq(s, p.i, j - 1)
  IN IF ~p.ok THEN p
     ELSE IF At(s, j) # " " THEN Failed([p.m EXCEPT !.stamp = t])
     ELSE [ParseStamp(t, [p.m EXCEPT !.stamp = t]) EXCEPT !.i = j + 1]

\* Without a remote host, the message has no hostname of its own.
ParseHOSTNAME(s, p) ==
  LET j == SkipTo(s, p.i, {" "}) IN
  IF ~p.ok THEN p
  ELSE IF p.m.remote = NullStr THEN Parsed(p.i, [p.m EXCEPT !.host = OwnHost])
  ELSE IF At(s, j) = " " THEN Parsed(j + 1, [p.m EXCEPT !.host = SubSeq(s, p.i, j - 1)])
  ELSE Failed(p.m)

\* A tag ends with a colon, or else with its last alphanumeric character.
ParseTAG(s, p) ==
  LET j == SkipTo(s, p.i, {":"})
      k == SkipOver(s, p.i, Alnum)
  IN IF ~p.ok THEN p
     ELSE IF At(s, j) = ":" /\ j - p.i < 32
     THEN Parsed(j + 1, [p.m EXCEPT !.tag = SubSeq(s, p.i, j)])
     ELSE IF (At(s, j) = ":" /\ j - p.i = 32) \/ k - p.i > 32 THEN Failed(p.m)
     ELSE Parsed(k, [p.m EXCEPT !.tag = SubSeq(s, p.i, k - 1)])

\* A message that some parser fails on is a raw one.
Classified(s, p) ==
  IF p.ok THEN [p.m EXCEPT !.msg = From(s, p.i),
                           !.format = IF p.m.stampType = "3164" THEN "3164" ELSE "sign12"]
  ELSE [p.m EXCEPT !.format = "3164raw"]
ParseMesg(m) ==
  LET stamped == ParseTIMESTAMP(m.raw, ParsePRI(m.raw, m))
  IN Classified(m.raw, ParseTAG(m.raw, ParseHOSTNAME(m.raw, stamped)))

\* srSLMGGetMSG: the whole of a raw message.
GetMsg(m) == IF m.format \in {"3164", "sign12"} THEN m.msg ELSE m.raw
==============================================================================
