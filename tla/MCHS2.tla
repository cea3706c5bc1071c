--------------------------------- MODULE MCHS2 ---------------------------------
(***************************************************************************)
(* Small instances of HS2Sessions: a TTL of one tick, ceilings of 1 and 2. *)
(***************************************************************************)
EXTENDS HS2Sessions, TLC

CONSTANTS c1, c2
TwoCalls == {c1, c2}
SwapCalls == Permutations(TwoCalls)
===============================================================================
