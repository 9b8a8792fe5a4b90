-------------------------- MODULE MCStdlogChannel --------------------------
(* Who logs where, for the model checker: everybody to the channels that    *)
(* are warm and each thread to the others, which is a discipline if there   *)
(* is one thread; and everybody everywhere, which is none.                  *)
EXTENDS StdlogChannel

MCPrivate == (Actors \X Warm) \union (Threads \X Chans)
MCShared == Actors \X Chans
=============================================================================
