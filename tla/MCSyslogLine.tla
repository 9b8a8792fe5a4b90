---------------------------- MODULE MCSyslogLine ----------------------------
(***************************************************************************)
(* The messages, times and documents SyslogLine is checked with.           *)
(***************************************************************************)
EXTENDS SyslogLine

MCOwnHost == Chars("me")
MCPeerHost == Chars("10.0.0.2")
MCMyIP == Chars("10.0.0.1")

\* Times around the turns of days, months, years and centuries, and their
\* stamps; an hour has two minutes and a day has thirteen hours.
Moment(d, s, stamp) == [time |-> SecsPerDay * d + s, stamp |-> Chars(stamp)]
Moments ==
  {Moment(0, 0, "Jan  1 00:00:00"), Moment(0, -1, "Dec 31 12:01:59"),
   Moment(58, 60, "Feb 28 00:01:00"), Moment(59, 1559, "Mar  1 12:01:59"),
   Moment(789, 9, "Feb 29 00:00:09"), Moment(11016, 1200, "Feb 29 10:00:00"),
   Moment(364, 1450, "Dec 31 12:00:10"), Moment(303, 130, "Oct 31 01:00:10"),
   Moment(129, 0, "May 10 00:00:00")}
Days ==
  {-800000, -730000, -719529, -719528, -719163, -719162, -25568, -25567, -25509, -366, -365,
   0, 59, 364, 365, 790, 11015, 47540, 47541, 300000, 730000}
MCTimes == {SecsPerDay * d + s : d \in Days, s \in {-1, 0, 777}}
MCOffsets == {0, -SecsPerDay, 783}

\* A struct tm as it may come from the stack.
MCLeftovers == {NoTm, [NoTm EXCEPT !.mon = 11, !.mday = 77, !.hour = 99]}

\* A format is a list of pieces: its text, the argument it takes, if any, and
\* the text it stands for.
Plain(text) == [src |-> text, args |-> <<>>, out |-> text]
Num1(src, n, out) ==
  [src |-> Chars(src), args |-> <<[n |-> n, s |-> <<>>]>>, out |-> Chars(out)]
Str1(src, s, out) ==
  [src |-> Chars(src), args |-> <<[n |-> 0, s |-> s]>>, out |-> out]
Esc(src, out) == [src |-> Chars(src), args |-> <<>>, out |-> Chars(out)]
Name == Chars("operator")
Left == <<Plain(Chars("user ")), Str1("%s", Name, Name), Plain(Chars(" left"))>>
\* Formats that the library of C reads as the signal-safe formatter does.
CommonFormats ==
  {<<>>, Left, <<Num1("%d", -1204, "-1204"), Esc("%%", "%"), Num1("%X", 48890, "BEFA")>>,
   <<Str1("%s", Name \o Name \o Name, Name \o Name \o Name), Num1("%d", 0, "0")>>}
Formats ==
  {<<>>, Left, <<Num1("%f", 3000, "3.00")>>,
   <<Num1("%d", -1204, "-1204"), Esc("%%", "%"), Num1("%5u", 70, "70"),
     Num1("%hhx", 255, "ff"), Num1("%X", 48890, "BEFA")>>,
   <<Num1("%d", 0, "0"), Plain(Chars(",")), Num1("%i", 2147483647, "2147483647"),
     Num1("%lu", 987654321, "987654321")>>,
   <<Str1("%s", NullArg, Chars("(null)")), Plain(Chars(" at ")), Num1("%p", 4096, "0x1000"),
     Num1("%p", 0, "(null)")>>,
   <<Num1("%5.2f", 12345, "12.35"), Plain(Chars(" s, ")), Num1("%f", -1020, "-1.02"),
     Plain(Chars(" of ")), Num1("%lf", 7, "0.01"), Plain(Chars(" s and more"))>>,
   <<Plain(Chars("a")), Esc("\\n", "\n"), Str1("%c", Chars("b"), Chars("b")), Esc("\\\\", "\\"),
     Str1("%20s", Name \o Name \o Name, Name \o Name \o Name), Num1("%d", 5, "5")>>}
Joined(pieces, part) == FlattenSeq([i \in DOMAIN pieces |-> pieces[i][part]])

\* Of the numbers with a point, those that do not end in 00.
Cents(piece) ==
  piece.args # <<>> /\ Last(piece.src) = "f" => Hundredths(piece.args[1].n) # 0
StdlogJob(kind, at, fac, sev, ident, pid, pieces, buf, sigsafe) ==
  [kind |-> kind, time |-> at.time, offset |-> 0, stamp |-> at.stamp,
   fac |-> fac, sev |-> sev, ident |-> ident, pid |-> pid, buf |-> buf,
   fmt |-> Joined(pieces, "src"), args |-> Joined(pieces, "args"),
   meaning |-> Joined(pieces, "out"), sigsafe |-> sigsafe,
   cents |-> \A i \in DOMAIN pieces : Cents(pieces[i])]
Now == Moment(789, 9, "Feb 29 00:00:09")
Drivers == {"file", "uxsock"}
LsJob(kind, pid, pieces, buf, sigsafe) ==
  StdlogJob(kind, Now, 23, 6, Chars("ls"), pid, pieces, buf, sigsafe)
\* A text of n letters with a colon at its end, or without one.
Run(n, end) == [i \in 1 .. n |-> "x"] \o Chars(end)
TooLate == [Now EXCEPT !.time = 2147000000]
\* The head "Feb 29 00:00:09 ls: " has 20 octets, and "<190>" goes before it.
StdlogJobs ==
  {LsJob(kind, pid, pieces, 44, TRUE) : kind \in Drivers, pid \in {0, 1, 31007}, pieces \in Formats}
  \union {LsJob(kind, 0, pieces, 44, FALSE) : kind \in Drivers, pieces \in CommonFormats}
  \union {LsJob(kind, 0, Left, buf, sigsafe) :
            kind \in Drivers, buf \in 20 .. 46, sigsafe \in BOOLEAN}
  \union {LsJob("uxsock", 0, <<Plain(Run(n, end))>>, buf, sigsafe) :
            n \in {31, 32, 33}, end \in {": y", " y: z", ""}, buf \in {57, 58, 80},
            sigsafe \in BOOLEAN}
  \union {StdlogJob(kind, at, 3, 0, Chars("login"), 7, <<Plain(Chars("x y"))>>, 44, TRUE) :
            kind \in Drivers, at \in Moments \union {TooLate}}
  \union {StdlogJob("uxsock", Now, fac, sev, Chars("a"), 0, <<Plain(Chars("b"))>>, 44, TRUE) :
            fac \in {0, 1, 23}, sev \in {0, 1, 7}}
DateJobs == {[kind |-> "date", time |-> t, offset |-> off] :
               t \in MCTimes \union {2147000000}, off \in MCOffsets}

\* Calls on a message object: the first has a tag, a later one may be refused.
Clock(year, month, day, hour, minute, second, usec, gmtoff) ==
  [year |-> year, month |-> month, day |-> day, hour |-> hour, minute |-> minute,
   second |-> second, usec |-> usec, gmtoff |-> gmtoff]
Clocks ==
  {Clock(2003, 1, 1, 0, 0, 0, 0, 0), Clock(2024, 12, 31, 23, 59, 60, 5, 3600),
   Clock(2004, 2, 29, 9, 5, 1, 999999, -18000), Clock(2011, 4, 9, 10, 10, 10, 12, 19800),
   Clock(2016, 9, 30, 1, 2, 3, 120000, 3630)}
Call(fac, sev, tag, msg, now, fmt) ==
  [fac |-> fac, sev |-> sev, tag |-> tag, msg |-> msg, now |-> now, fmt |-> fmt]
Summer == {Clock(2003, month, 10, 1, 2, 3, 4, 0) : month \in 5 .. 8}
Tags == {Chars("su"), Chars("a.b[7]"), Chars("x"), SubSeq(Chars("abcdefghijklmnopqrstuvwxyz0123456789"), 1, 31),
         SubSeq(Chars("abcdefghijklmnopqrstuvwxyz0123456789"), 1, 32)}
Texts ==
  {<<>>, Chars(" a: <b c='d'> \"lt;\" ]]>"), Chars(" &lt; & so on"), Chars(":"),
   Chars("</entry>")}
Fmts == {"3164", "sign12"}
SlmgJob(calls, by, anew) == [kind |-> "slmg", calls |-> calls, by |-> by, anew |-> anew]
One == Call(1, 5, Chars("su"), Chars(" no"), Clock(2003, 10, 11, 22, 14, 15, 3, 7200), "3164")
OneSign == [One EXCEPT !.fmt = "sign12"]
Bys == {"udp", "RAW", "COOKED"}
SlmgJobs ==
  {SlmgJob(<<Call(4, 2, tag, msg, One.now, fmt)>>, <<by>>, FALSE) :
     tag \in Tags, msg \in Texts, fmt \in Fmts, by \in Bys}
  \union {SlmgJob(<<Call(fac, 7, Chars("x"), Chars("y"), now, fmt)>>, <<by>>, FALSE) :
            fac \in {0, 23}, now \in Clocks \union Summer, fmt \in Fmts, by \in {"udp", "COOKED"}}
  \union {SlmgJob(<<One, Call(fac, sev, tag, msg, now, fmt), OneSign>>, <<by, by, by>>, FALSE) :
            fac \in {16, 24}, sev \in {0, 8}, tag \in {Chars("a:b"), Chars("b")},
            msg \in {<<>>, Chars("longer than before")}, now \in Clocks, fmt \in Fmts,
            by \in {"RAW"}}
  \union {SlmgJob(<<call>>, <<first, second>>, anew) :
            call \in {One, OneSign, [One EXCEPT !.msg = Chars("<&>")]},
            first \in Bys, second \in Bys, anew \in {FALSE}}
  \union {SlmgJob(<<[One EXCEPT !.now.month = 5]>>, <<"udp", "COOKED">>, anew) :
            anew \in BOOLEAN}
  \union {SlmgJob(<<Call(9, 1, Chars("y"), Chars("z"), now, fmt)>>, <<"udp", by>>, TRUE) :
            now \in Clocks, fmt \in Fmts, by \in Bys}

TextJobs ==
  {[kind |-> "text", text |-> Chars(text), by |-> <<"COOKED">>, calls |-> <<>>] :
     text \in {"<34>Oct 11 22:14:15 su: 'su root' failed; more", "<35>Oct 11 22:14:15 a: b&c",
               "<36>Oct 11 22:14:15 its'>: d", "<37>Oct 11 22:14:15 e'<: f",
               "<0>2003-10-11T22:14:15.003Z a: <b>", "<13>Feb  5 17:32:18 x",
               "<13>Jan 15 17:32:18 ", "<191>2003-08-24T05:14:15-07:00 a b c"}}

\* Documents, as trees and as their text.
RECURSIVE TreeText(_, _), TreesText(_, _)
Escape(s) ==
  FlattenSeq([i \in DOMAIN s |-> CASE s[i] = "<" -> Chars("&lt;") [] s[i] = "&" -> Chars("&amp;")
                                   [] s[i] = "\"" -> Chars("&quot;") [] OTHER -> <<s[i]>>])
ParamText(p, quote) ==
  <<" ">> \o p.name
    \o (IF p.value = None THEN <<>> ELSE <<"=", quote>> \o Escape(p.value) \o <<quote>>)
TreeText(e, gap) ==
  LET params(quote) == FlattenSeq([i \in DOMAIN e.params |-> ParamText(e.params[i], quote)])
      open == <<"<">> \o e.key \o params("\"") \o gap
      close == Chars("</") \o e.key \o <<">">> \o gap
  IN IF e.cdata # None THEN Chars("<![CDATA[") \o e.cdata \o Chars("]]>") \o gap
     ELSE IF e.kids # <<>> THEN open \o <<">">> \o gap \o TreesText(e.kids, gap) \o close
     ELSE IF e.value # None THEN open \o <<">">> \o Escape(e.value) \o close
     ELSE open \o Chars("/>") \o gap
TreesText(list, gap) == FlattenSeq([i \in DOMAIN list |-> TreeText(list[i], gap)])

Param(name, value) == [name |-> Chars(name), value |-> Chars(value)]
Bare(name) == [name |-> Chars(name), value |-> None]
Leaf(key, params, value) == Entry(Chars(key), params, Chars(value), <<>>, None)
Hollow(key, params) == Entry(Chars(key), params, None, <<>>, None)
Branch(key, params, kids) == Entry(Chars(key), params, None, kids, None)
Data(text) == Entry(None, <<>>, None, <<>>, Chars(text))
Trees ==
  {<<>>, <<Leaf("entry", <<Param("facility", "1"), Param("tag", "it's")>>, "<29>a & \"b\"")>>,
   <<Branch("path", <<Param("pathID", "1"), Param("fromFQDN", "a.b")>>,
            <<Hollow("path", <<Param("linkprops", "o <&>")>>), Leaf("entry", <<>>, "x")>>)>>,
   <<Hollow("iam", <<Bare("fqdn"), Param("type", "")>>)>>,
   <<Leaf("entry", <<>>, "a"), Leaf("entry", <<>>, "b")>>,
   <<Branch("greeting", <<>>, <<Hollow("profile", <<Param("uri", "http://x/y")>>),
                                Hollow("profile", <<Param("uri", "z")>>)>>)>>,
   <<Branch("start", <<Param("number", "1")>>,
            <<Branch("profile", <<Param("uri", "z")>>, <<Data("<bootmsg/>")>>)>>)>>,
   <<Leaf("entry", <<Bare("x")>>, "1 2  3 ")>>,
   <<Branch("a", <<>>, <<Branch("b", <<>>, <<Branch("c", <<>>, <<Leaf("d", <<>>, "e")>>)>>),
                         Data("f<"), Leaf("g", <<>>, "h&lt;")>>)>>}
DocJob(tree, text) == [kind |-> "doc", tree |-> tree, fault |-> "none", text |-> text]
Faulty(fault, text) == [kind |-> "doc", tree |-> <<>>, fault |-> fault, text |-> Chars(text)]
\* A document with an error, one with a tag in which no parameter can begin
\* where one should, and one that ends inside a tag.
BadDoc(text) == Faulty("syntax", text)
StuckDoc(text) == Faulty("param", text)
TornDoc(text) == Faulty("end", text)
DocJobs ==
  {DocJob(tree, TreesText(tree, gap)) : tree \in Trees, gap \in {<<>>, <<" ">>, <<"\r", "\n">>}}
  \union {BadDoc(text) :
            text \in {"entry", "<entry>a</path>", "<entry>a", "<entry>&no;</entry>",
                      "<entry>a<b/></entry>", "<path><entry>a</entry>", "<iam/ >",
                      "<![cdata[a]]>", "<a><b></a></b>"}}
  \union {StuckDoc(text) : text \in {"<entry ;>a</entry>", "<path><entry a='b'<c/></path>"}}
  \union {TornDoc(text) : text \in {"<entry", "<iam fqdn='a'", "<path><entry a"}}
  \union {DocJob(<<Hollow("entry", <<>>)>>, Chars(text)) :
            text \in {"<entry/>", "<entry></entry>"}}

MCJobs == StdlogJobs \union DateJobs \union SlmgJobs \union TextJobs \union DocJobs
-----------------------------------------------------------------------------
(***************************************************************************)
(* What the comments and the manual claim and the code does not keep.      *)
(***************************************************************************)
SummerJobs ==
  {SlmgJob(<<Call(9, 1, Chars("y"), Chars("z"), now, "3164")>>, <<"udp">>, FALSE) :
     now \in Clocks \union Summer}
\* Lines that fit and lines that do not, with the formatter of the C library.
CutJobs == {LsJob("file", 0, Left, buf, FALSE) : buf \in 30 .. 46}
\* Heads that leave room and a head that leaves none.
HeadJobs == {LsJob("file", pid, Left, 26, TRUE) : pid \in {0, 1, 31007}}
\* A number that ends behind the end of the buffer, or before.
DoubleJobs == {LsJob("uxsock", 0, <<Num1("%f", 3000, "3.00")>>, buf, TRUE) : buf \in 27 .. 31}
SenderJobs == {LsJob("uxsock", pid, Left, 80, TRUE) : pid \in {0, 1}}
AmpersandJobs == {job1 \in TextJobs : job1.text[2] = "3" /\ job1.text[3] \in {"4", "5"}}
NoParamJobs == {BadDoc("<iam/ >"), StuckDoc("<entry ;>a</entry>")}
TornJobs == {BadDoc("<iam/ >"), TornDoc("<entry")}
HollowJobs == {DocJob(<<Leaf("entry", <<>>, "a")>>, Chars("<entry>a</entry>")),
               DocJob(<<Hollow("entry", <<>>)>>, Chars("<entry/>"))}
RootJobs == {DocJob(<<Hollow(key, <<>>)>>, Chars("<") \o Chars(key) \o Chars("/>")) :
               key \in {"iam", "path", "greeting"}}
==============================================================================
