------------------------------ MODULE MCReports ------------------------------
(***************************************************************************)
(* Reports with answers of OpenAI below and above the reservation.         *)
(***************************************************************************)
EXTENDS Reports
=============================================================================
