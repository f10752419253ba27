---------------------------- MODULE MCModeration ----------------------------
(***************************************************************************)
(* Moderation with every message written by one of the targets.            *)
(***************************************************************************)
EXTENDS Moderation, TLC

CONSTANT Writer  \* the target who wrote all messages

MCauthor == [m \in Messages |-> Writer]

MCSymmetry == Permutations(Callers)
=============================================================================
