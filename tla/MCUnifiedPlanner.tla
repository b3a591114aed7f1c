-------------------------- MODULE MCUnifiedPlanner --------------------------
(* UnifiedPlanner on small instances.                                      *)
EXTENDS UnifiedPlanner, TLC

MCTrajectories == [from : Poses, to : Targets]

(* Calls of one surface and targets are interchangeable; planners are not, *)
(* one of them is the first.  For runs without liveness properties.        *)
Interchangeable ==
  Permutations(Executes) \cup Permutations(Previews) \cup Permutations(Targets)

(* Bound of the run with cancels and full Feedback: what a command that    *)
(* overtook a callback leads to is not followed.                           *)
Unraced == ~raced
=============================================================================
