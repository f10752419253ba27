---------------------------- MODULE MCLifecycle -----------------------------
(***************************************************************************)
(* Two jobs: captcha_expiry with any number of expired challenges, and     *)
(* daily_report with one chat to report on, which has the control of       *)
(* spam_cleanup with its one statement too.                                *)
(***************************************************************************)
EXTENDS Lifecycle

MCUnits == [captcha_expiry |-> 0, daily_report |-> 1]
=============================================================================
