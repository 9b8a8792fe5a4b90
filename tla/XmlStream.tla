------------------------------ MODULE XmlStream ------------------------------
(***************************************************************************)
(* The XML of namevaluetree.c: documents of BEEP's channel 0 and of the    *)
(* COOKED profile, parsed into lists of entries.  An entry is a record;    *)
(* pXMLProps is its params and pChild its kids.                            *)
(*                                                                         *)
(* Every parser is given the place it starts at, says whether it succeeded *)
(* (ok), where it stopped (i) and what it read (v).  One that fails reports *)
(* an error, unless it goes astray: then v says how.                       *)
(***************************************************************************)
EXTENDS Text

None == <<"NULL">>
Yes(i, v) == [ok |-> TRUE, i |-> i, v |-> v]
No(i) == [ok |-> FALSE, i |-> i, v |-> None]
\* It stays where it is for ever, or reads on behind the end of the document.
Astray(i, how) == [ok |-> FALSE, i |-> i, v |-> how]
Loops == <<"loops">>
Overrun == <<"overrun">>

NameEnd == Spaces \union {"<", ">", "=", ";", "/"}

\* Mutant: what the escape of an ampersand stands for is left out.
Entity_NoQuot(name) ==
  CASE name = Chars("gt") -> ">" [] name = Chars("lt") -> "<"
    [] name = Chars("amp") -> "&" [] name = Chars("apos") -> ";"
    [] OTHER -> NUL
\* The character of an escape, as the code has it; NUL when there is none.
Entity(name) ==
  CASE name = Chars("gt") -> ">" [] name = Chars("lt") -> "<"
    [] name = Chars("amp") -> "&" [] name = Chars("apos") -> ";"
    [] name = Chars("quot") -> "\"" [] OTHER -> NUL

\* sbNVTXMLReadXMLVALUE with sbNTVXMLReadESCSEQ.
RECURSIVE ReadValue(_, _, _, _)
ReadValue(s, i, term, v) ==
  LET j == SkipTo(s, i + 1, {";"})
      next == IF At(s, j) = NUL THEN j ELSE j + 1
      c == Entity(SubSeq(s, i + 1, j - 1))
  IN IF At(s, i) \in {term, NUL} THEN Yes(i, v)
     ELSE IF At(s, i) # "&" THEN ReadValue(s, i + 1, term, Append(v, s[i]))
     ELSE IF c = NUL THEN No(next)
     ELSE ReadValue(s, next, term, Append(v, c))

\* sbNVTXMLProcessPARAM: a name, with a quoted value or without one.
ProcessParam(s, i) ==
  LET j == SkipTo(s, i, NameEnd)
      quote == At(s, j + 1)
      value == ReadValue(s, j + 2, quote, <<>>)
      name == SubSeq(s, i, j - 1)
  IN IF At(s, j) # "=" THEN Yes(j, <<[name |-> name, value |-> None]>>)
     ELSE IF quote \notin {"'", "\""} THEN No(j + 1)
     ELSE IF ~value.ok \/ At(s, value.i) # quote THEN No(value.i)
     ELSE Yes(value.i + 1, <<[name |-> name, value |-> value.v]>>)

\* The loop over the parameters of a tag.  It does not look at the result of
\* one: where a parameter cannot begin it does not move.
RECURSIVE ProcessParams(_, _, _), NextParam(_, _, _, _)
ProcessParams(s, i, params) ==
  IF At(s, i) \in {NUL, "/", ">"} THEN Yes(i, params)
  ELSE NextParam(s, i, params, ProcessParam(s, i))
NextParam(s, i, params, p) ==
  IF SkipOver(s, p.i, Spaces) = i THEN Astray(i, Loops)
  ELSE ProcessParams(s, SkipOver(s, p.i, Spaces), IF p.ok THEN params \o p.v ELSE params)

Entry(key, params, value, kids, cdata) ==
  [key |-> key, params |-> params, value |-> value, kids |-> kids, cdata |-> cdata]

\* sbNVTXMLProcessCDATA.
ProcessCDATA(s, i) ==
  LET j == SkipTo(s, i + 7, Spaces \union {"]"})
  IN IF SubSeq(s, i, i + 6) = Chars("[CDATA[") /\ SubSeq(s, j, j + 2) = Chars("]]>")
     THEN Yes(j + 3, Entry(None, <<>>, None, <<>>, SubSeq(s, i + 7, j - 1)))
     ELSE No(i)

\* The closing tag of a node.
CloseTag(s, i, key) ==
  LET j == SkipOver(s, i + 2, Spaces)
      k == SkipTo(s, j, NameEnd)
  IN IF /\ At(s, i) = "<" /\ At(s, i + 1) = "/"
        /\ At(s, k) = ">" /\ SubSeq(s, j, k - 1) = key
     THEN Yes(k + 1, <<>>) ELSE No(k)

\* sbNVTXMLProcessXMLNODE, -XMLELEMENT and -XMLSTREAM.  The white space before
\* a value is passed over in search of a container, and stays so.
CloseNode(s, node, field, body) ==
  LET close == CloseTag(s, body.i, node.key) IN
  IF ~body.ok THEN body
  ELSE IF close.ok THEN Yes(close.i, [node EXCEPT ![field] = body.v]) ELSE No(close.i)

RECURSIVE ProcessNode(_, _), ProcessBody(_, _, _), ProcessStream(_, _, _),
          NextElement(_, _, _)
ProcessNode(s, i) ==
  LET j == SkipTo(s, i, NameEnd)
  IN ProcessBody(s, SubSeq(s, i, j - 1), ProcessParams(s, SkipOver(s, j, Spaces), <<>>))
ProcessBody(s, key, tag) ==
  LET node == Entry(key, tag.v, None, <<>>, None)
      i == SkipOver(s, tag.i + 1, Spaces)
  IN IF ~tag.ok THEN tag
     ELSE IF At(s, tag.i) = NUL THEN Astray(tag.i, Overrun)
     ELSE IF At(s, tag.i) = "/" THEN
       IF At(s, tag.i + 1) = ">" THEN Yes(tag.i + 2, node) ELSE No(tag.i + 1)
     ELSE IF At(s, i) = "<" THEN CloseNode(s, node, "kids", ProcessStream(s, i, <<>>))
     ELSE CloseNode(s, node, "value", ReadValue(s, i, "<", <<>>))

ProcessElement(s, i) ==
  IF At(s, i) # "<" THEN No(i)
  ELSE IF At(s, i + 1) = "!" THEN ProcessCDATA(s, i + 2)
  ELSE ProcessNode(s, i + 1)

ProcessStream(s, i, list) ==
  LET j == SkipOver(s, i, Spaces)
  IN IF At(s, j) = NUL \/ (At(s, i) = "<" /\ At(s, i + 1) = "/")
     THEN Yes(IF At(s, j) = NUL THEN j ELSE i, list)
     ELSE NextElement(s, list, ProcessElement(s, j))
NextElement(s, list, e) ==
  IF e.ok THEN ProcessStream(s, SkipOver(s, e.i, Spaces), Append(list, e.v)) ELSE e

\* sbNVTRParseXML.
ParseXML(s) == ProcessStream(s, 1, <<>>)

\* sbNVTRHasElement with bMustBeOnly.
HasOnly(list, key) == Len(list) = 1 /\ list[1].key = key

\* Mutant: an opening bracket is left as it is.
EscapePCDATA_Amp(s) ==
  FlattenSeq([i \in DOMAIN s |-> IF s[i] = "&" THEN Chars("&quot;") ELSE <<s[i]>>])
\* sbNVTXMLEscapePCDATAintoStrB: what it writes for an ampersand is the escape
\* of a quotation mark.
EscapePCDATA(s) ==
  FlattenSeq([i \in DOMAIN s |-> CASE s[i] = "<" -> Chars("&lt;")
                                   [] s[i] = "&" -> Chars("&quot;")
                                   [] OTHER -> <<s[i]>>])
==============================================================================
