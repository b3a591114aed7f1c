--------------------------- MODULE MCMoveItMirror ---------------------------
(* "here" is a mesh at the origin of the planning frame, which stays there *)
(* when its pose is composed with itself; "there" is one turned by half,   *)
(* which comes back turned to the origin; no request can carry a cone.     *)
EXTENDS MoveItMirror

CONSTANTS here, there, cone, box, bag, arm, hand

MCShapes == {here, there, cone}
MCUnsupported == {cone}
MCConverted == [s \in MCShapes |-> {here}]
MCObjects == {box, bag}
MCGroups == {arm, hand}

-----------------------------------------------------------------------------
(* The bound: calls fail, and two groups plan, in scenes of one object; in *)
(* scenes of two, which may both be carried, one group plans and no call   *)
(* fails.                                                                  *)
Absent(o) ==
  /\ o \notin carried /\ world[Plain(o)] = <<>> /\ server[Plain(o)] = Nothing
  /\ \A g \in Groups : Plain(o) \notin attached[g] \cup mirrored[g]
  /\ solve # Idle => solve.seen.world[Plain(o)] = <<>> /\ o \notin solve.seen.carried

Unused(g) ==
  /\ attached[g] = {} /\ \A m \in Names : known[g][m] = Nothing
  /\ solve # Idle => solve.group # g

Bounded == Absent(bag) \/ (faults = 0 /\ Unused(hand))
=============================================================================
