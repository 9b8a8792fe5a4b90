----------------------------- MODULE EntryList -----------------------------
(***************************************************************************)
(* What a list of the library promises to the code that keeps its objects  *)
(* in one: the listener its sessions, a session its channels, the frames   *)
(* it still has to send and those it has received, and an end of a         *)
(* connection the profiles it can offer.                                   *)
(*                                                                         *)
(* The objects stay in the order they came in.  A walk meets every object  *)
(* that was there when it began, once, also when objects it has met leave. *)
(* An object that leaves is freed, once, unless it is handed to the        *)
(* caller.  The end of the list is the end of every object in it.  The     *)
(* first object is preferred when any of several will do.                  *)
(***************************************************************************)
EXTENDS Integers, Sequences, SequencesExt

CONSTANT Users   \* the objects that can be kept in a list

VARIABLES
  list,      \* the objects, in the order they were added
  todo,      \* those the walk under way has still to meet
  leaving,   \* the object that is being taken out, if any
  alive,     \* the objects that exist
  wanted,    \* the objects one of which is looked for
  found,     \* the one that was found last, if any
  ended      \* the list is being destroyed

listVars == <<list, todo, leaving, alive, wanted, found, ended>>

Init ==
  /\ list = <<>> /\ todo = <<>> /\ leaving = {} /\ alive = {}
  /\ wanted = {} /\ found = {} /\ ended = FALSE

Quiet == todo = <<>> /\ leaving = {} /\ wanted = {} /\ ~ended

Add(u) ==
  /\ Quiet /\ u \notin alive
  /\ list' = Append(list, u) /\ alive' = alive \union {u}
  /\ UNCHANGED <<todo, leaving, ended, wanted, found>>

\* There is no room for the entry: the object is not in the list.
Refuse(u) ==
  /\ Quiet /\ u \notin alive
  /\ alive' = alive \union {u}
  /\ UNCHANGED <<list, todo, leaving, ended, wanted, found>>

StartWalk == Quiet /\ todo' = list /\ UNCHANGED <<list, leaving, alive, ended, wanted, found>>

\* The walk meets the next object, which stays or is about to leave.
Meet ==
  /\ todo # <<>> /\ leaving = {}
  /\ todo' = Tail(todo)
  /\ leaving' \in {{}, {Head(todo)}}
  /\ UNCHANGED <<list, alive, ended, wanted, found>>

Dismiss(u) ==
  /\ Quiet /\ u \in alive
  /\ leaving' = {u}
  /\ UNCHANGED <<list, todo, alive, ended, wanted, found>>

Leave ==
  /\ leaving # {}
  /\ \/ \E i \in DOMAIN list : list[i] \in leaving /\ list' = RemoveAt(list, i)
     \/ leaving \intersect ToSet(list) = {} /\ UNCHANGED list
  /\ alive' = alive \ leaving /\ leaving' = {}
  /\ UNCHANGED <<todo, ended, wanted, found>>

\* The first object is freed, or handed to the caller, who frees it later.
Shift ==
  /\ Quiet /\ list # <<>>
  /\ list' = Tail(list)
  /\ alive' \in {alive, alive \ {Head(list)}}
  /\ UNCHANGED <<todo, leaving, ended, wanted, found>>

FreeTaken(u) ==
  /\ u \in alive \ ToSet(list)
  /\ alive' = alive \ {u}
  /\ UNCHANGED <<list, todo, leaving, ended, wanted, found>>

Finish == Quiet /\ ended' = TRUE /\ UNCHANGED <<list, todo, leaving, alive, wanted, found>>

FreeNext ==
  /\ ended /\ list # <<>>
  /\ list' = Tail(list) /\ alive' = alive \ {Head(list)}
  /\ UNCHANGED <<todo, leaving, ended, wanted, found>>

Seek(W) ==
  /\ Quiet
  /\ wanted' = W /\ found' = {}
  /\ UNCHANGED <<list, todo, leaving, alive, ended>>

Settle ==
  /\ wanted # {}
  /\ LET fit == {i \in DOMAIN list : list[i] \in wanted}
     IN found' = {list[i] : i \in {j \in fit : \A k \in fit : j <= k}}
  /\ wanted' = {}
  /\ UNCHANGED <<list, todo, leaving, alive, ended>>

Next ==
  \/ \E u \in Users : Add(u) \/ Refuse(u) \/ Dismiss(u) \/ FreeTaken(u)
  \/ (\E W \in (SUBSET Users) \ {{}} : Seek(W)) \/ Settle
  \/ StartWalk \/ Meet \/ Leave \/ Shift \/ Finish \/ FreeNext

Spec == Init /\ [][Next]_listVars

\* Every walk, search and removal and the destruction come to their end.
FairSpec ==
  /\ Spec
  /\ WF_listVars(Meet) /\ WF_listVars(Leave) /\ WF_listVars(Settle) /\ WF_listVars(FreeNext)
=============================================================================
