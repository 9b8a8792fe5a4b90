--------------------------- MODULE NameValueList ---------------------------
(***************************************************************************)
(* The linked lists of namevaluetree.c as the objects of the library use   *)
(* them: entries on the heap, chained by pNext, found again by walking the *)
(* chain, and a root that knows the first and the last entry.  A behaviour *)
(* is the life of one list; which list it is decides what is done with it: *)
(*                                                                         *)
(*   sessions   pRootSessions of the listener, walked by the server loop,  *)
(*              which takes out sessions while it walks                    *)
(*   channels   pChannels of a session, entries found by channel number    *)
(*   sendque    pSendQue of a session of the listener                      *)
(*   rxque      pRXQue of a session of the client                          *)
(*   profiles   pProfsSupported of a handle or a listener, in the order of  *)
(*              preference, matched against the profiles of the peer        *)
(*                                                                         *)
(* Each round of a loop that follows the chain is a step.  A pointer is    *)
(* the number of a cell; a cell is allocated again after it was freed.     *)
(***************************************************************************)
EXTENDS Naturals, FiniteSets, Sequences, SequencesExt

CONSTANTS
  Cells,    \* addresses of entries
  Users,    \* objects an entry can point to; a channel is its number
  Kinds     \* the lists to look at

NULL == 0

ASSUME ListAssumption ==
  /\ Cells \subseteq Nat \ {NULL} /\ IsFiniteSet(Cells)
  /\ Users \subseteq Nat \ {NULL}
  /\ Kinds \subseteq {"sessions", "channels", "sendque", "rxque", "profiles"}

VARIABLES
  kind,            \* which list this is
  heap, live,      \* the cells, and those that are allocated
  pFirst, pLast,   \* the root
  pc,              \* what the code does with the list
  pEntry,          \* cursor of a walk, or the next entry to be destroyed
  pThis, pPrev,    \* cursors of a search
  pUsr,            \* what is searched for
  remote, pProf,   \* profiles of the peer, and the last match with them
  alive,           \* objects that exist
  aborted          \* channels in state ERR_FREE_NEEDED

rootVars == <<heap, live, pFirst, pLast>>
searchVars == <<pThis, pPrev, pUsr>>
matchVars == <<remote, pProf>>
vars == <<kind, rootVars, pc, pEntry, searchVars, matchVars, alive, aborted>>

Entry == [pNext : Cells \union {NULL}, pUsr : Users \union {NULL}]

Blank == [pNext |-> NULL, pUsr |-> NULL]

Init ==
  /\ kind \in Kinds
  /\ heap = [c \in Cells |-> Blank] /\ live = {}
  /\ pFirst = NULL /\ pLast = NULL
  /\ pc = "idle" /\ pEntry = NULL
  /\ pThis = NULL /\ pPrev = NULL /\ pUsr = NULL
  /\ remote = {} /\ pProf = NULL
  /\ alive = {} /\ aborted = {}
-----------------------------------------------------------------------------
(***************************************************************************)
(* Adding and taking at the ends.                                          *)
(***************************************************************************)
\* The entry is cleared, filled in by its user and hung behind the last one.
Chained(c, u) ==
  [d \in Cells |->
     IF d = c THEN [pNext |-> NULL, pUsr |-> u]
     ELSE IF d = pLast THEN [heap[d] EXCEPT !.pNext = c]
     ELSE heap[d]]

AddEntry(u) ==
  /\ pc = "idle" /\ u \notin alive
  /\ \E c \in Cells \ live :
       /\ heap' = Chained(c, u)
       /\ live' = live \union {c}
       /\ pFirst' = IF pLast = NULL THEN c ELSE pFirst
       /\ pLast' = c
  /\ alive' = alive \union {u}
  /\ UNCHANGED <<kind, pc, pEntry, searchVars, aborted, matchVars>>

\* Without memory for its entry, the channel of a client lives on unlisted:
\* sbSessOpenChan does not look at what sbChanSetChanno returns.
AddFails(u) ==
  /\ pc = "idle" /\ kind = "channels" /\ u \notin alive
  /\ alive' = alive \union {u}
  /\ UNCHANGED <<kind, rootVars, pc, pEntry, searchVars, aborted, matchVars>>

\* An entry is freed.  What its memory holds then is not looked at again, as
\* NoStaleEntry says.
Free(h, c) == heap' = [h EXCEPT ![c] = Blank] /\ live' = live \ {c}

UnlinkElement ==
  /\ pFirst # NULL
  /\ pFirst' = heap[pFirst].pNext
  /\ pLast' = IF heap[pFirst].pNext = NULL THEN NULL ELSE pLast

\* The listener has sent the first frame and destroys it.
NVTRRemoveFirst ==
  /\ pc = "idle" /\ kind = "sendque"
  /\ UnlinkElement
  /\ Free(heap, pFirst) /\ alive' = alive \ {heap[pFirst].pUsr}
  /\ UNCHANGED <<kind, pc, pEntry, searchVars, aborted, matchVars>>

\* sbSessRecvFram keeps the frame of the entry it destroys ...
RecvFram ==
  /\ pc = "idle" /\ kind = "rxque"
  /\ UnlinkElement
  /\ Free(heap, pFirst)
  /\ UNCHANGED <<kind, pc, pEntry, searchVars, alive, aborted, matchVars>>

\* ... and its caller destroys the frame when the message is made of it.
FramDestroy(u) ==
  /\ pc = "idle" /\ kind = "rxque"
  /\ u \in alive /\ \A c \in live : heap[c].pUsr # u
  /\ alive' = alive \ {u}
  /\ UNCHANGED <<kind, rootVars, pc, pEntry, searchVars, aborted, matchVars>>
-----------------------------------------------------------------------------
(***************************************************************************)
(* Searching for an entry and taking it out of the chain.                  *)
(***************************************************************************)
StartSearch(u) == pUsr' = u /\ pThis' = pFirst /\ pPrev' = NULL /\ pc' = "search"

\* sbChanDestroy: the entry is found by the number of the channel.
ChanDestroy(u) ==
  /\ pc = "idle" /\ kind = "channels" /\ u \in alive
  /\ StartSearch(u)
  /\ UNCHANGED <<kind, rootVars, pEntry, alive, aborted, matchVars>>

SearchNext ==
  /\ pc = "search" /\ pThis # NULL /\ heap[pThis].pUsr # pUsr
  /\ pPrev' = pThis /\ pThis' = heap[pThis].pNext
  /\ UNCHANGED <<kind, rootVars, pc, pEntry, pUsr, alive, aborted, matchVars>>

\* Mutant: the root keeps its pointer to the entry that leaves from the end.
UnlinkFromList_KeepsLast ==
  IF pPrev = NULL
  THEN pFirst' = heap[pThis].pNext /\ Free(heap, pThis) /\ UNCHANGED pLast
  ELSE /\ Free([heap EXCEPT ![pPrev].pNext = heap[pThis].pNext], pThis)
       /\ UNCHANGED <<pFirst, pLast>>

\* The entry is unlinked and destroyed.
UnlinkFromList ==
  IF pPrev = NULL
  THEN /\ pFirst' = heap[pThis].pNext
       /\ pLast' = IF pLast = pThis THEN NULL ELSE pLast
       /\ Free(heap, pThis)
  ELSE /\ Free([heap EXCEPT ![pPrev].pNext = heap[pThis].pNext], pThis)
       /\ pLast' = IF pLast = pThis THEN pPrev ELSE pLast
       /\ UNCHANGED pFirst

\* The search ends.  An entry that was found goes; its
\* destructor aborts a session, while that of a channel leaves it to
\* sbChanDestroy, which frees the channel with and without an entry.
SearchEnd ==
  /\ pc = "search"
  /\ \/ /\ pThis # NULL /\ heap[pThis].pUsr = pUsr
        /\ UnlinkFromList
     \/ pThis = NULL /\ UNCHANGED rootVars
  /\ alive' = alive \ {pUsr}
  /\ pc' = IF kind = "sessions" THEN "walk" ELSE "idle"
  /\ pThis' = NULL /\ pPrev' = NULL /\ pUsr' = NULL
  /\ UNCHANGED <<kind, pEntry, aborted, matchVars>>
-----------------------------------------------------------------------------
(***************************************************************************)
(* The walks: of the server loop over its sessions, of sbSessAbort over    *)
(* the channels it then destroys, and of sbNVTRDestroy.                    *)
(***************************************************************************)
StartWalk ==
  /\ pc = "idle" /\ kind = "sessions"
  /\ pEntry' = pFirst /\ pc' = "walk"
  /\ UNCHANGED <<kind, rootVars, searchVars, alive, aborted, matchVars>>

\* A session is sent to, put into the fd sets or served.
Visit ==
  /\ pc = "walk" /\ pEntry # NULL
  /\ pEntry' = heap[pEntry].pNext
  /\ UNCHANGED <<kind, rootVars, pc, searchVars, alive, aborted, matchVars>>

\* Mutant: the loop reads the next entry after the removal.
VisitAndRemove_Late ==
  /\ pc = "walk" /\ pEntry # NULL
  /\ StartSearch(heap[pEntry].pUsr)
  /\ UNCHANGED <<kind, rootVars, pEntry, alive, aborted, matchVars>>

\* The session is closed or has failed: the loop moves on before it removes it.
VisitAndRemove ==
  /\ pc = "walk" /\ pEntry # NULL
  /\ pEntry' = heap[pEntry].pNext
  /\ StartSearch(heap[pEntry].pUsr)
  /\ UNCHANGED <<kind, rootVars, alive, aborted, matchVars>>

WalkEnds ==
  /\ pc = "walk" /\ pEntry = NULL
  /\ pc' = "idle"
  /\ UNCHANGED <<kind, rootVars, pEntry, searchVars, alive, aborted, matchVars>>

\* Mutant: the walk starts behind the first entry, as a search from it would.
StartAbort_Behind ==
  /\ pc = "idle" /\ kind = "channels"
  /\ pEntry' = (IF pFirst = NULL THEN NULL ELSE heap[pFirst].pNext) /\ pc' = "abort"
  /\ UNCHANGED <<kind, rootVars, searchVars, alive, aborted, matchVars>>

\* sbSessAbort marks every channel, so that its destructor frees it.
StartAbort ==
  /\ pc = "idle" /\ kind = "channels"
  /\ pEntry' = pFirst /\ pc' = "abort"
  /\ UNCHANGED <<kind, rootVars, searchVars, alive, aborted, matchVars>>

\* Mutant: the entry is taken for the channel it points to.
MarkChannel_Entry ==
  /\ pc = "abort" /\ pEntry # NULL
  /\ aborted' = aborted \union {pEntry}
  /\ pEntry' = heap[pEntry].pNext
  /\ UNCHANGED <<kind, rootVars, pc, searchVars, alive, matchVars>>

MarkChannel ==
  /\ pc = "abort" /\ pEntry # NULL
  /\ aborted' = aborted \union {heap[pEntry].pUsr}
  /\ pEntry' = heap[pEntry].pNext
  /\ UNCHANGED <<kind, rootVars, pc, searchVars, alive, matchVars>>

StartDestroy ==
  /\ \/ pc = "idle" /\ kind # "channels"
     \/ pc = "abort" /\ pEntry = NULL
  /\ pEntry' = pFirst /\ pc' = "destroy"
  /\ UNCHANGED <<kind, rootVars, searchVars, alive, aborted, matchVars>>

\* The entry and its object are freed; the root still points to the entry.
DestroyEntry ==
  /\ pc = "destroy" /\ pEntry # NULL
  /\ pEntry' = heap[pEntry].pNext
  /\ Free(heap, pEntry)
  /\ alive' = IF kind = "channels" /\ heap[pEntry].pUsr \notin aborted
              THEN alive ELSE alive \ {heap[pEntry].pUsr}
  /\ UNCHANGED <<kind, pFirst, pLast, pc, searchVars, aborted, matchVars>>

(***************************************************************************)
(* sbProfFindProfileURIMatch: the first profile of the list that the peer  *)
(* has too.  A peer without profiles is turned down without a search.      *)
(***************************************************************************)
FindMatch(R) ==
  /\ pc = "idle" /\ kind = "profiles"
  /\ remote' = R /\ pProf' = NULL
  /\ pEntry' = pFirst /\ pc' = "match"
  /\ UNCHANGED <<kind, rootVars, searchVars, alive, aborted>>

MatchNext ==
  /\ pc = "match" /\ pEntry # NULL /\ heap[pEntry].pUsr \notin remote
  /\ pEntry' = heap[pEntry].pNext
  /\ UNCHANGED <<kind, rootVars, pc, searchVars, matchVars, alive, aborted>>

MatchEnd ==
  /\ pc = "match"
  /\ \/ pEntry = NULL /\ pProf' = NULL
     \/ pEntry # NULL /\ heap[pEntry].pUsr \in remote /\ pProf' = heap[pEntry].pUsr
  /\ remote' = {} /\ pEntry' = NULL /\ pc' = "idle"
  /\ UNCHANGED <<kind, rootVars, searchVars, alive, aborted>>
-----------------------------------------------------------------------------
Next ==
  \/ \E u \in Users : AddEntry(u) \/ AddFails(u) \/ FramDestroy(u) \/ ChanDestroy(u)
  \/ NVTRRemoveFirst \/ RecvFram \/ SearchNext \/ SearchEnd
  \/ StartWalk \/ Visit \/ VisitAndRemove \/ WalkEnds
  \/ StartAbort \/ MarkChannel \/ StartDestroy \/ DestroyEntry
  \/ (\E R \in (SUBSET Users) \ {{}} : FindMatch(R)) \/ MatchNext \/ MatchEnd

\* The loops are loops of one thread, which goes on with them.
Fairness ==
  /\ WF_vars(Visit \/ VisitAndRemove) /\ WF_vars(SearchNext \/ SearchEnd)
  /\ WF_vars(DestroyEntry) /\ WF_vars(MarkChannel) /\ WF_vars(MatchNext \/ MatchEnd)

Spec == Init /\ [][Next]_vars
FairSpec == Spec /\ Fairness
-----------------------------------------------------------------------------
(***************************************************************************)
(* The properties.                                                         *)
(***************************************************************************)
\* The cells of the chain that starts at a pointer, cut when it runs in a circle.
ChainIn(h, p) ==
  LET next == [c \in Cells \union {NULL} |-> IF c = NULL THEN NULL ELSE h[c].pNext]
      cell[n \in 1 .. Cardinality(Cells)] == IF n = 1 THEN p ELSE next[cell[n - 1]]
  IN [n \in {m \in DOMAIN cell : cell[m] # NULL} |-> cell[n]]

Chain(p) == ChainIn(heap, p)

UsersFrom(p) == [i \in DOMAIN Chain(p) |-> heap[Chain(p)[i]].pUsr]

Ending == pc = "destroy"

\* TypeOK: every pointer is NULL or the address of an entry.
TypeOK ==
  /\ kind \in Kinds /\ heap \in [Cells -> Entry] /\ live \subseteq Cells
  /\ {pFirst, pLast, pEntry, pThis, pPrev} \subseteq Cells \union {NULL}
  /\ pc \in {"idle", "search", "walk", "abort", "destroy", "match"}
  /\ {pUsr, pProf} \subseteq Users \union {NULL} /\ remote \subseteq Users
  /\ alive \subseteq Users /\ aborted \subseteq Users

\* NoStaleEntry: no loop holds a pointer to an entry that was freed, whichever
\* entries leave while it runs (beeplisten.c:814 and :907, namevaluetree.c:67).
NoStaleEntry ==
  /\ {pEntry, pThis, pPrev} \subseteq live \union {NULL}
  /\ ~Ending => {pFirst, pLast} \subseteq live \union {NULL}

\* WellLinked: the chain runs through every entry that is allocated, none is
\* lost, and ends at pLast, which sbNVTAddEntry asserts before it hangs the next
\* entry there (namevaluetree.c:706).
WellLinked ==
  ~Ending =>
    /\ ToSet(Chain(pFirst)) = live
    /\ Len(Chain(pFirst)) = Cardinality(live)
    /\ pLast = IF live = {} THEN NULL ELSE Last(Chain(pFirst))

\* What the linked list shows of the list it stands for.
Listed == UsersFrom(IF Ending THEN pEntry ELSE pFirst)
ToMeet == IF pc \in {"destroy", "match"} THEN <<>> ELSE UsersFrom(pEntry)
Leaving == IF pc = "search" THEN {pUsr} ELSE {}
Match == IF pProf = NULL THEN {} ELSE {pProf}

Abstract == INSTANCE EntryList WITH
  list <- Listed, todo <- ToMeet, leaving <- Leaving,
  wanted <- remote, found <- Match, ended <- Ending

\* KeepsList: the linked list is the list of EntryList.  Each walk meets every
\* object once while others leave, every object that leaves is freed once, a
\* match is the first in the order of preference, and every walk, search,
\* removal and destruction comes to its end.
KeepsList == Abstract!FairSpec
=============================================================================
