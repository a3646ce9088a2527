-------------------------- MODULE MCCommandExecution --------------------------
(* Instances of CommandExecution for TLC.                                  *)
EXTENDS CommandExecution, TLC

CONSTANTS c1, c2, c3, w1, w2

\* The commands of the runs, by what they ask for.
OnePlacing == c1 :> "place"
TwoPlacing == c1 :> "place" @@ c2 :> "place"
TwoPlacingAndPaper == TwoPlacing @@ c3 :> "paper"
===============================================================================
