-------------------------------- MODULE MCExec --------------------------------
(***************************************************************************)
(* Small instances of CommandExec: two handlers in flight.                 *)
(***************************************************************************)
EXTENDS CommandExec

CONSTANTS c1, c2
TwoCalls == {c1, c2}
===============================================================================
