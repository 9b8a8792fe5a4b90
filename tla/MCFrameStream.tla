--------------------------- MODULE MCFrameStream ---------------------------
(* Texts for the model checker: one that looks like a frame's trailer, one  *)
(* of two lines with a stray CR, and two that do not fit a frame of 64      *)
(* octets, one by its trailer and one by its payload.                       *)
EXTENDS FrameStream

Stray == <<"a", CR, LF, CR, "b", LF>>
LikeTrailer == <<"E", "N", "D", CR, LF>>
LongTexts == {[i \in 1 .. 43 |-> "x"], [i \in 1 .. 50 |-> "x"]}
MCTexts == {LikeTrailer, Stray} \union LongTexts
MCUnparsable == {Stray}
=============================================================================
