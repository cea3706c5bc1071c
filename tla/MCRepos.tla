-------------------------------- MODULE MCRepos --------------------------------
(***************************************************************************)
(* A small instance of Repos: one path, two handlers and one credential.   *)
(***************************************************************************)
EXTENDS Repos, TLC

CONSTANTS c1, c2
TwoCalls == {c1, c2}
CallSymmetry == Permutations(TwoCalls)

\* Behaviours in which the process does not die.
NoCrash == proc = "up"
================================================================================
