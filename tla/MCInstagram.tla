---------------------------- MODULE MCInstagram ----------------------------
(***************************************************************************)
(* An instance of Instagram for TLC.                                       *)
(***************************************************************************)
EXTENDS Instagram, TLC

\* What the owner means to publish, and something else at another time.
SomeContents == {[caption |-> 1, publishAt |-> 0], [caption |-> 2, publishAt |-> 1]}

WorkerSymmetry == Permutations(Worker)
=============================================================================
