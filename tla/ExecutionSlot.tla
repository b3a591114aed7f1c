---------------------------- MODULE ExecutionSlot ----------------------------
(***************************************************************************)
(* What the node promises of the execute_trajectory action, whatever its   *)
(* planners do (docstring of goal_callback): at most one goal is executed  *)
(* at a time, an admitted goal holds the slot from the moment it is        *)
(* accepted until its callback has returned, and is executed only once.    *)
(***************************************************************************)
CONSTANT Goals

VARIABLES
  holder,  \* the goals that hold the slot
  served   \* the goals that were ever admitted

slotVars == <<holder, served>>

SlotInit == holder = {} /\ served = {}

Acquire(g) ==
  /\ holder = {} /\ g \notin served
  /\ holder' = {g}
  /\ served' = served \cup {g}

Release(g) ==
  /\ holder = {g}
  /\ holder' = {}
  /\ UNCHANGED served

SlotNext == \E g \in Goals : Acquire(g) \/ Release(g)

SlotSpec == SlotInit /\ [][SlotNext]_slotVars

(* Every admitted goal ends.                                               *)
FairSlotSpec == SlotSpec /\ \A g \in Goals : WF_slotVars(Release(g))
=============================================================================
