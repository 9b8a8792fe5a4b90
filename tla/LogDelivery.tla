---------------------------- MODULE LogDelivery ----------------------------
(***************************************************************************)
(* What the rfc3195 half of liblogging promises to the application that    *)
(* calls srAPISendLogmsg on one side and to the one that registered an     *)
(* OnSyslogMessageRcvd handler on the other.  Messages are numbered in the *)
(* order in which they were logged.  The receiving side takes them in that *)
(* order, each once: it gives a message to the handler or refuses it.  The *)
(* sender may learn later what became of a message, and what it learns is  *)
(* true.  Nothing here mentions frames, channels, windows or sockets.      *)
(***************************************************************************)
EXTENDS Naturals, Sequences

CONSTANT MaxLogs        \* how many messages the application logs (a bound)

VARIABLES logged,       \* number of messages given to srAPISendLogmsg
          handled,      \* number of messages the receiving side has taken
          delivered,    \* the messages given to OnSyslogMessageRcvd, in order
          rejected,     \* the messages the receiving side refused
          acked,        \* the messages srAPISendLogmsg confirmed to its caller
          refused       \* the messages it reported as refused by the peer

avars == <<logged, handled, delivered, rejected, acked, refused>>

Init ==
    /\ logged = 0
    /\ handled = 0
    /\ delivered = <<>>
    /\ rejected = {}
    /\ acked = {}
    /\ refused = {}

Log ==
    /\ logged < MaxLogs
    /\ logged' = logged + 1
    /\ UNCHANGED <<handled, delivered, rejected, acked, refused>>

Deliver ==
    /\ handled < logged
    /\ handled' = handled + 1
    /\ delivered' = Append(delivered, handled + 1)
    /\ UNCHANGED <<logged, rejected, acked, refused>>

Reject ==
    /\ handled < logged
    /\ handled' = handled + 1
    /\ rejected' = rejected \union {handled + 1}
    /\ UNCHANGED <<logged, delivered, acked, refused>>

Acknowledge ==
    /\ \E i \in 1 .. Len(delivered) :
          /\ delivered[i] \notin acked
          /\ acked' = acked \union {delivered[i]}
    /\ UNCHANGED <<logged, handled, delivered, rejected, refused>>

Refuse ==
    /\ \E m \in rejected \ refused : refused' = refused \union {m}
    /\ UNCHANGED <<logged, handled, delivered, rejected, acked>>

Next == Log \/ Deliver \/ Reject \/ Acknowledge \/ Refuse

Spec == Init /\ [][Next]_avars
=============================================================================
