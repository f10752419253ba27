-------------------------- MODULE MCCaptchaService --------------------------
(***************************************************************************)
(* CaptchaService with two members; the first two challenges drawn happen  *)
(* to have the same solution.                                              *)
(***************************************************************************)
EXTENDS CaptchaService, TLC

CONSTANTS right, wrong

MCSolutions == {right, wrong}

MCsolution_for == [id \in ChallengeIds |-> IF id <= 2 THEN right ELSE wrong]

MCSymmetry == Permutations(Users)
=============================================================================
