------------------------------ MODULE Formatter ------------------------------
(***************************************************************************)
(* The formatters of liblogging-stdlog, and the lines the file and the     *)
(* socket driver build with them.                                          *)
(*                                                                         *)
(* All writing is appending, so a buffer is what has been written to it,   *)
(* and an index is its length.  len is the length the code compares the    *)
(* index with; some writes are not compared, and may pass the end.  An     *)
(* argument of a format is a number, a string (NullArg for NULL) or, for   *)
(* %f, a number of thousandths.                                            *)
(***************************************************************************)
EXTENDS Text

NullArg == <<"NULL">>
NullText == Chars("(null)")

Least(a, b) == IF a < b THEN a ELSE b

\* __STDLOG_STRBUILD_ADD_CHAR, and the loops that copy while there is room.
Fill(buf, len, s) == buf \o SubSeq(s, 1, Least(Len(s), len - Len(buf)))

\* Mutant: numbers are written without a look at the room left.
PrintUint_Unbounded(buf, len, n, base) == buf \o Numeral(n, base)
\* __stdlog_fmt_print_uint, and _hex with lower-case digits.
PrintUint(buf, len, n, base) ==
  IF n = 0 THEN Append(buf, "0") ELSE Fill(buf, len, Numeral(n, base))
PrintInt(buf, len, n) ==
  IF n < 0 THEN PrintUint(Append(buf, "-"), len, -n, 10)
  ELSE PrintUint(buf, len, n, 10)
PrintStr(buf, len, s) == Fill(buf, len, IF s = NullArg THEN NullText ELSE s)

\* Thousandths: the integral part is cut, the hundredths are rounded.  Where
\* they are 0 their digit is written without a look at the room left.
Hundredths(d) == (((IF d < 0 THEN -d ELSE d) + 5) \div 10) % 100
PrintDouble(buf, len, d) ==
  LET size == IF d < 0 THEN -d ELSE d
      frac == Hundredths(d)
      int == PrintInt(buf, len, IF d < 0 THEN -(size \div 1000) ELSE size \div 1000)
      point == Append(int, ".")
      zero == IF frac < 10 THEN Fill(point, len, <<"0">>) ELSE point
  IN IF Len(int) < len THEN PrintInt(zero, len, frac) ELSE int

\* Where the conversion of the directive at i stands: past a width and a
\* precision, which must begin with a digit and are not used, and a modifier.
ConversionAt(fmt, i) ==
  LET w == SkipOver(fmt, i, Digits)
      p == IF w > i /\ At(fmt, w) = "." THEN SkipOver(fmt, w + 1, Digits) ELSE w
  IN CASE At(fmt, p) \in {"l", "h"} ->
            IF At(fmt, p + 1) = At(fmt, p) THEN p + 2 ELSE p + 1
       [] At(fmt, p) \in {"j", "z"} -> p + 1
       [] OTHER -> p

Escaped(c) == CASE c = "n" -> "\n" [] c = "r" -> "\r" [] c = "t" -> "\t"
                [] OTHER -> c

UpperCase(s) ==
  [i \in DOMAIN s |-> IF \E d \in 1 .. 6 : s[i] = Chars("abcdef")[d]
                      THEN Chars("ABCDEF")[CHOOSE d \in 1 .. 6 : s[i] = Chars("abcdef")[d]]
                      ELSE s[i]]

Convert1(c, buf, len, arg) ==
  CASE c = "s" -> PrintStr(buf, len, arg.s)
    [] c \in {"i", "d"} -> PrintInt(buf, len, arg.n)
    [] c = "u" -> PrintUint(buf, len, arg.n, 10)
    [] c = "x" -> PrintUint(buf, len, arg.n, 16)
    [] c = "X" -> Fill(buf, len, UpperCase(Numeral(arg.n, 16)))
    [] c = "p" -> IF arg.n = 0 THEN PrintStr(buf, len, NullArg)
                  ELSE PrintUint(PrintStr(buf, len, Chars("0x")), len, arg.n, 16)
    [] c = "f" -> PrintDouble(buf, len, arg.n)
    [] c = "c" -> Append(buf, arg.s[1])
    [] c = "%" -> Append(buf, "%")
    [] OTHER -> Append(buf, "?")
TakesArg == {"s", "i", "d", "u", "x", "X", "p", "f", "c"}

RECURSIVE Format(_, _, _, _, _)
Format(buf, len, fmt, i, args) ==
  IF At(fmt, i) = NUL \/ Len(buf) >= len THEN buf
  ELSE CASE At(fmt, i) = "\\" ->
              IF At(fmt, i + 1) = NUL THEN buf
              ELSE Format(Append(buf, Escaped(At(fmt, i + 1))), len, fmt, i + 2, args)
         [] At(fmt, i) = "%" ->
              LET k == ConversionAt(fmt, i + 1)
                  c == At(fmt, k)
              IN IF c = NUL THEN buf
                 ELSE IF c \in TakesArg
                 THEN Format(Convert1(c, buf, len, Head(args)), len, fmt, k + 1, Tail(args))
                 ELSE Format(Convert1(c, buf, len, NullArg), len, fmt, k + 1, args)
         [] OTHER -> Format(Append(buf, fmt[i]), len, fmt, i + 1, args)

\* What a formatter is given room for, what it writes, its NUL included, and
\* the length it returns.  __stdlog_sigsafe_printf keeps room for the NUL, but
\* writes it also where there is no room at all.
SigsafePrintf(lenbuf, fmt, args) ==
  LET text == Format(<<>>, lenbuf - 1, fmt, 1, args)
  IN [wrote |-> Append(text, NUL), ret |-> Len(text)]
\* __stdlog_wrapper_vsnprintf: vsnprintf() writes what the format stands for,
\* cut for its NUL; of a text that was cut the NUL is counted as well.  Room
\* below zero is a huge size_t, and as an int still less than any length.
WrapperVsnprintf(lenbuf, text) ==
  LET cut == IF lenbuf < 0 THEN text ELSE SubSeq(text, 1, Least(Len(text), lenbuf - 1))
  IN [wrote |-> IF lenbuf = 0 THEN <<>> ELSE Append(cut, NUL),
      ret |-> Least(Len(text), lenbuf)]
\* ch->f_vsnprintf, as the options of the channel say.
Printf(lenbuf, m) == IF m.sigsafe THEN SigsafePrintf(lenbuf, m.fmt, m.args)
                     ELSE WrapperVsnprintf(lenbuf, m.meaning)
-----------------------------------------------------------------------------
MonthName == <<"Jan", "Feb", "Mar", "Apr", "May", "Jun", "Jul", "Aug", "Sep",
               "Oct", "Nov", "Dec">>

TwoDigits(n) == <<Digit[((n \div 10) % 10) + 1], Digit[(n % 10) + 1]>>

FormatTimestamp3164(tm) ==
  Chars(MonthName[tm.mon + 1]) \o <<" ">>
    \o <<IF tm.mday < 10 THEN " " ELSE TwoDigits(tm.mday)[1], TwoDigits(tm.mday)[2]>>
    \o <<" ">> \o TwoDigits(tm.hour) \o <<":">> \o TwoDigits(tm.min)
    \o <<":">> \o TwoDigits(tm.sec)

\* What the drivers write before the text; pid is 0 without STDLOG_PID.
AddIdent(buf, len, ident, pid) ==
  LET named == PrintStr(Fill(buf, len, <<" ">>), len, ident)
      numbered == IF pid = 0 THEN named
                  ELSE Fill(PrintInt(Fill(named, len, <<"[">>), len, pid), len, <<"]">>)
  IN Fill(Fill(numbered, len, <<":">>), len, <<" ">>)

\* A line that was built: its text, and how far into the buffer it was written.
Line(text, reach) == [text |-> text, reach |-> reach]

\* build_file_line: the newline goes behind what the formatter has counted.
BuildFileLine(len, tm, ident, pid, m) ==
  LET head == AddIdent(FormatTimestamp3164(tm), len, ident, pid)
      printed == Printf(len - Len(head), m)
      buf == head \o printed.wrote
      end == Len(head) + printed.ret
  IN Line(Append(SubSeq(buf, 1, end), "\n"),
          IF Len(buf) > end THEN Len(buf) ELSE end + 1)

\* build_syslog_frame.
SyslogFrame(len, pri, tm, ident, pid, m) ==
  LET start == Fill(PrintInt(Fill(<<>>, len, <<"<">>), len, pri), len, <<">">>)
      head == AddIdent(start \o FormatTimestamp3164(tm), len, ident, pid)
      printed == Printf(len - Len(head), m)
      buf == head \o printed.wrote
  IN Line(SubSeq(buf, 1, Len(head) + printed.ret), Len(buf))
\* Mutant: the severity is not masked off the facility.
BuildSyslogFrame_Shift(len, fac, sev, tm, ident, pid, m) ==
  SyslogFrame(len, 4 * fac + sev, tm, ident, pid, m)
BuildSyslogFrame(len, fac, sev, tm, ident, pid, m) ==
  SyslogFrame(len, 8 * fac + (sev % 8), tm, ident, pid, m)
==============================================================================
