---------------------------- MODULE MCCaptchaBot ----------------------------
(***************************************************************************)
(* CaptchaBot with two digit buttons and solutions of two digits; the      *)
(* solutions of successive challenges differ and overlap.                  *)
(***************************************************************************)
EXTENDS CaptchaBot, TLC

MCsolution_for == [id \in ChallengeIds |-> IF id % 2 = 1 THEN <<0, 1>> ELSE <<1, 0>>]

\* No two challenges of a behaviour share the first 8 digits of their UUID.
MCshort_id == [id \in ChallengeIds |-> <<"short", id>>]

MCSymmetry == Permutations(Users)
=============================================================================
