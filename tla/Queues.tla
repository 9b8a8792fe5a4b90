------------------------------- MODULE Queues -------------------------------
(***************************************************************************)
(* What the lists of namevaluetree.c do to the order of their entries,     *)
(* where the components keep such a list as a sequence.                    *)
(***************************************************************************)
EXTENDS Integers, Sequences

\* The list q when the entries in S have been taken out (sbNVTRRemovEntryWithpUsr),
\* a walk over all its entries: the others keep their order.
Without(q, S) ==
  LET kept[n \in 0 .. Len(q)] ==
        IF n = 0 THEN <<>>
        ELSE IF q[n] \in S THEN kept[n - 1] ELSE Append(kept[n - 1], q[n])
  IN kept[Len(q)]
=============================================================================
