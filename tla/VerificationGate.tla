-------------------------- MODULE VerificationGate --------------------------
(***************************************************************************)
(* What the captcha promises about the members of one watched chat,        *)
(* without tables, photos, keyboards or caches.                            *)
(*                                                                         *)
(* A member is verified or not, and being verified is for ever.  A member  *)
(* who holds a live challenge has some chances left, at most Attempts.     *)
(* Only two roads lead to being verified: spending a chance of a live      *)
(* challenge successfully, or being vouched for by a moderator.            *)
(***************************************************************************)
EXTENDS Naturals

CONSTANTS
  Users,      \* the members of the chat
  Attempts    \* chances a fresh challenge grants

VARIABLES
  verified,   \* the members who passed the gate
  chances,    \* chances left on each member's live challenge, 0 if none
  passed      \* how many challenges have been passed

vars == <<verified, chances, passed>>

TypeOK ==
  /\ verified \subseteq Users
  /\ chances \in [Users -> 0 .. Attempts]
  /\ passed \in Nat

Init ==
  /\ verified = {}
  /\ chances = [u \in Users |-> 0]
  /\ passed = 0

\* The member is given a fresh challenge; an older one is forgotten.
Challenge(u) ==
  /\ chances' = [chances EXCEPT ![u] = Attempts]
  /\ UNCHANGED <<verified, passed>>

\* A wrong answer costs one chance of a live challenge.
Miss(u) ==
  /\ chances[u] > 0
  /\ chances' = [chances EXCEPT ![u] = @ - 1]
  /\ UNCHANGED <<verified, passed>>

\* The challenges of some members run out.
Lapse(S) ==
  /\ chances' = [u \in Users |-> IF u \in S THEN 0 ELSE chances[u]]
  /\ UNCHANGED <<verified, passed>>

\* A right answer to a live challenge verifies the member.
Pass(u) ==
  /\ chances[u] > 0
  /\ verified' = verified \cup {u}
  /\ chances' = [chances EXCEPT ![u] = 0]
  /\ passed' = passed + 1

\* A moderator vouches for a member who is not verified yet.
Vouch(u) ==
  /\ u \notin verified
  /\ verified' = verified \cup {u}
  /\ chances' = [chances EXCEPT ![u] = 0]
  /\ UNCHANGED passed

Next ==
  \/ \E u \in Users : Challenge(u) \/ Miss(u) \/ Pass(u) \/ Vouch(u)
  \/ \E S \in SUBSET Users : Lapse(S)

Spec == Init /\ [][Next]_vars
=============================================================================
