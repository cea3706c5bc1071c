--------------------------------- MODULE MCSql ---------------------------------
(***************************************************************************)
(* A small instance of SqlStore: one warehouse, and three statements or    *)
(* saved queries between two handlers.                                     *)
(***************************************************************************)
EXTENDS SqlStore

CONSTANTS c1, c2
TwoCalls == {c1, c2}
===============================================================================
