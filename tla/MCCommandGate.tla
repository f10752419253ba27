--------------------------- MODULE MCCommandGate ----------------------------
(***************************************************************************)
(* A cache of the process that lasts two ticks, a list in Redis that lasts *)
(* two, calls that take one, and /stats with a cooldown.                   *)
(***************************************************************************)
EXTENDS CommandGate
=============================================================================
