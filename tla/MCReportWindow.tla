--------------------------- MODULE MCReportWindow ---------------------------
(***************************************************************************)
(* Days of four hours: every zone up to two hours off, with every          *)
(* transition of an hour that falls in the second day or at its ends.      *)
(***************************************************************************)
EXTENDS ReportWindow

MCZones == {z \in [before : -2 .. 2, after : -2 .. 2, at : 2 .. 10] :
              z.before - z.after \in {-1, 0, 1}}
MCUtc == {UTC}
=============================================================================
