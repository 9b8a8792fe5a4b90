--------------------------------- MODULE Text ---------------------------------
(***************************************************************************)
(* C strings.  A string is the sequence of its characters, each a string   *)
(* of one character, without the NUL that ends it; reading the character   *)
(* after the last yields NUL.                                              *)
(***************************************************************************)
EXTENDS Integers, Sequences, SequencesExt

Chars(str) == [i \in 1 .. Len(str) |-> SubSeq(str, i, i)]

NUL == "NUL"
At(s, i) == IF i <= Len(s) THEN s[i] ELSE NUL
From(s, i) == SubSeq(s, i, Len(s))

Digit == Chars("0123456789abcdef")
IsDigit(c) == \E d \in 1 .. 10 : Digit[d] = c
Spaces == {" ", "\t", "\n", "\r"}
Alnum == ToSet(Chars("0123456789abcdefghijklmnopqrstuvwxyzABCDEFGHIJKLMNOPQRSTUVWXYZ"))

\* The first place from i on whose character is not in a set, or is in one.
RECURSIVE SkipOver(_, _, _), SkipTo(_, _, _)
SkipOver(s, i, chars) == IF At(s, i) \in chars THEN SkipOver(s, i + 1, chars) ELSE i
SkipTo(s, i, chars) ==
  IF At(s, i) \in chars \union {NUL} THEN i ELSE SkipTo(s, i + 1, chars)

Digits == {Digit[d] : d \in 1 .. 10}
\* The number at i, as a parser of digits reads it: 0 when there is none.
NumberAt(s, i) ==
  FoldLeft(LAMBDA n, c : 10 * n + (CHOOSE d \in 0 .. 9 : Digit[d + 1] = c),
           0, SubSeq(s, i, SkipOver(s, i, Digits) - 1))

\* The digits of a number, and the same filled up from the left as by %2d.
RECURSIVE Numeral(_, _)
Numeral(n, base) == (IF n < base THEN <<>> ELSE Numeral(n \div base, base))
                      \o <<Digit[(n % base) + 1]>>
Decimal(n) == Numeral(n, 10)
Padded(n, width, fill) ==
  LET d == Decimal(n) IN [i \in 1 .. width - Len(d) |-> fill] \o d
===============================================================================
