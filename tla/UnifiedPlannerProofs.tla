------------------------ MODULE UnifiedPlannerProofs ------------------------
(***************************************************************************)
(* Proofs about UnifiedPlanner, for any sets of calls, planners and        *)
(* targets.  First the slot: the node executes at most one goal at a time, *)
(* and its slot implements ExecutionSlot.  Then its types, that the        *)
(* tracked result stays the active send's under the node's threads, and    *)
(* that a kept epoch names the planner's own plan.  Last that a success    *)
(* the node reports is the controller's, that nobody commands the robot    *)
(* outside the slot, and that what it executes is what was asked for, as   *)
(* far as the properties say.                                              *)
(***************************************************************************)
EXTENDS UnifiedPlanner, ActionClientProofs

(* The flag _goal_active is worth what the callbacks keep it to: it is set *)
(* exactly while some admitted goal has not left its callback.             *)
SlotInv ==
  /\ pc \in [Calls -> PcValues]
  /\ goalActive \in BOOLEAN
  /\ goalActive <=> \E c \in Executes : InSlot(c)
  /\ AtMostOneExecution

Fresh(c) == pc[c] \in {"idle", "rejected"}

(* A step that neither admits a goal nor frees the slot.                   *)
Quiet ==
  /\ pc' \in [Calls -> PcValues]
  /\ goalActive' = goalActive
  /\ \A c \in Executes : InSlot(c)' = InSlot(c) /\ Fresh(c)' = Fresh(c)

-----------------------------------------------------------------------------
LEMMA GotoKeepsSlot ==
  ASSUME pc \in [Calls -> PcValues], NEW c \in Calls, NEW at \in PcValues,
         Goto(c, at), goalActive' = goalActive,
         c \in Executes =>
           /\ InSlot(c) /\ at \notin {"idle", "rejected", "done"}
  PROVE  Quiet
<1>1. pc' = [pc EXCEPT ![c] = at]
  BY DEF Goto
<1>2. pc' \in [Calls -> PcValues]
  BY <1>1
<1>3. ASSUME NEW d \in Executes
      PROVE  InSlot(d)' = InSlot(d) /\ Fresh(d)' = Fresh(d)
  <2>1. d \in Calls
    BY DEF Calls
  <2>2. CASE d = c
    BY <1>1, <2>1, <2>2 DEF InSlot, Fresh
  <2>3. CASE d # c
    BY <1>1, <2>1, <2>3 DEF InSlot, Fresh
  <2> QED
    BY <2>2, <2>3
<1> QED
  BY <1>2, <1>3 DEF Quiet

LEMMA UntouchedIsQuiet ==
  ASSUME pc \in [Calls -> PcValues], UNCHANGED <<pc, goalActive>>
  PROVE  Quiet
BY DEF Quiet, InSlot, Fresh

(* Every step but the admission of a goal and the end of its callback      *)
(* leaves the slot alone.                                                  *)
LEMMA ExecuteStepIsQuiet ==
  ASSUME pc \in [Calls -> PcValues], NEW c \in Executes,
         ExecuteStep(c), ~FreeSlot(c)
  PROVE  Quiet
<1>1. c \in Calls
  BY DEF Calls
<1> DEFINE moved(at) == Goto(c, at) /\ goalActive' = goalActive /\ InSlot(c)
<1>2. CASE ExecuteStart(c)
  <2>1. moved("setup")
    BY <1>2 DEF ExecuteStart, Resolve, InSlot
  <2> QED
    BY <1>1, <2>1, GotoKeepsSlot DEF PcValues
<1>3. CASE ReusePending(c)
  <2>1. moved("ready")
    BY <1>3 DEF ReusePending, InSlot
  <2> QED
    BY <1>1, <2>1, GotoKeepsSlot DEF PcValues
<1>4. CASE DeclinePending(c)
  <2>1. moved("plan")
    BY <1>4 DEF DeclinePending, InSlot
  <2> QED
    BY <1>1, <2>1, GotoKeepsSlot DEF PcValues
<1>5. CASE ExecuteBegin(c)
  <2>1. moved("failing") \/ moved("sending")
    BY <1>5 DEF ExecuteBegin, InSlot
  <2> QED
    BY <1>1, <2>1, GotoKeepsSlot DEF PcValues
<1>6. CASE ExecuteSend(c)
  <2>1. moved("running") \/ moved("stopping") \/ moved("failing")
    BY <1>6 DEF ExecuteSend, InSlot
  <2> QED
    BY <1>1, <2>1, GotoKeepsSlot DEF PcValues
<1>7. CASE SeesComplete(c)
  <2>1. moved("exiting")
    BY <1>7 DEF SeesComplete, InSlot
  <2> QED
    BY <1>1, <2>1, GotoKeepsSlot DEF PcValues
<1>8. CASE ExitCancelled(c)
  <2>1. moved("failing")
    BY <1>8 DEF ExitCancelled, InSlot
  <2> QED
    BY <1>1, <2>1, GotoKeepsSlot DEF PcValues
<1>9. CASE ExitCompleted(c)
  <2>1. moved("stopping") \/ moved("succeeding")
    BY <1>9 DEF ExitCompleted, InSlot
  <2> QED
    BY <1>1, <2>1, GotoKeepsSlot DEF PcValues
<1>10. CASE StopAfterFailure(c)
  <2>1. moved("failing")
    BY <1>10 DEF StopAfterFailure, InSlot
  <2> QED
    BY <1>1, <2>1, GotoKeepsSlot DEF PcValues
<1>11. CASE Report(c)
  <2>1. moved("ending")
    BY <1>11 DEF Report, InSlot
  <2> QED
    BY <1>1, <2>1, GotoKeepsSlot DEF PcValues
<1> QED
  BY <1>2, <1>3, <1>4, <1>5, <1>6, <1>7, <1>8, <1>9, <1>10, <1>11
     DEF ExecuteStep

LEMMA PlanStepIsQuiet ==
  ASSUME PlannerAssumption, pc \in [Calls -> PcValues], NEW c \in Calls,
         PlanStep(c) \/ Refuse(c)
  PROVE  Quiet
<1> DEFINE moved(at) ==
      /\ Goto(c, at) /\ goalActive' = goalActive
      /\ pc[c] \notin {"idle", "rejected", "done"}
<1>1. CASE PlanBegin(c)
  <2>1. moved("solving")
    BY <1>1 DEF PlanBegin
  <2> QED
    BY <2>1, GotoKeepsSlot DEF PcValues, InSlot
<1>2. CASE PlanFails(c)
  <2>1. CASE c \in Executes
    <3>1. moved("ending")
      BY <1>2, <2>1 DEF PlanFails, GiveUp
    <3> QED
      BY <3>1, GotoKeepsSlot DEF PcValues, InSlot
  <2>2. CASE c \notin Executes
    <3>1. moved("done")
      BY <1>2, <2>2 DEF PlanFails, GiveUp
    <3> QED
      BY <3>1, <2>2, GotoKeepsSlot DEF PcValues
  <2> QED
    BY <2>1, <2>2
<1>3. CASE PlanSolved(c)
  <2>1. moved("solved")
    BY <1>3 DEF PlanSolved
  <2> QED
    BY <2>1, GotoKeepsSlot DEF PcValues, InSlot
<1>4. CASE PlanLoads(c)
  <2>1. moved("loaded")
    BY <1>4 DEF PlanLoads
  <2> QED
    BY <2>1, GotoKeepsSlot DEF PcValues, InSlot
<1>5. CASE PlanDone(c)
  <2> DEFINE at == CASE c \in Executes -> "ready"
                     [] c \in Previews -> "store"
                     [] c \in Batches  -> "done"
  <2>1. moved(at)
    BY <1>5 DEF PlanDone
  <2>2. IF c \in Executes THEN at = "ready" ELSE at \in {"store", "done"}
    BY PlannerAssumption DEF Calls, PlannerAssumption
  <2> HIDE DEF at
  <2>3. IF c \in Executes THEN moved("ready")
                          ELSE moved("store") \/ moved("done")
    BY <2>1, <2>2
  <2> QED
    BY <2>3, GotoKeepsSlot DEF PcValues, InSlot
<1>6. CASE Refuse(c)
  <2>1. CASE c \in Executes
    <3>1. moved("ending")
      BY <1>6, <2>1 DEF Refuse, GiveUp
    <3> QED
      BY <3>1, GotoKeepsSlot DEF PcValues, InSlot
  <2>2. CASE c \notin Executes
    <3>1. moved("done")
      BY <1>6, <2>2 DEF Refuse, GiveUp
    <3> QED
      BY <3>1, <2>2, GotoKeepsSlot DEF PcValues
  <2> QED
    BY <2>1, <2>2
<1> QED
  BY <1>1, <1>2, <1>3, <1>4, <1>5, <1>6 DEF PlanStep

LEMMA ServiceStepIsQuiet ==
  ASSUME PlannerAssumption, pc \in [Calls -> PcValues],
         \/ \E c \in Previews : PreviewStart(c) \/ StorePending(c)
         \/ \E c \in Batches : BatchStart(c)
  PROVE  Quiet
<1>1. PICK c \in Previews \cup Batches :
        (Goto(c, "plan") \/ Goto(c, "done")) /\ goalActive' = goalActive
  BY DEF PreviewStart, BatchStart, Resolve, StorePending
<1>2. c \in Calls /\ c \notin Executes
  BY PlannerAssumption DEF PlannerAssumption, Calls
<1> QED
  BY <1>1, <1>2, GotoKeepsSlot DEF PcValues

-----------------------------------------------------------------------------
(* Every step is an admission, an end of a callback, or quiet.             *)
LEMMA StepCases ==
  ASSUME PlannerAssumption, pc \in [Calls -> PcValues], [Next]_vars
  PROVE  \/ \E c \in Executes : GoalCallback(c) \/ FreeSlot(c)
         \/ Quiet
<1>1. CASE \E c \in Executes : GoalCallback(c) \/ ExecuteStep(c)
  BY <1>1, ExecuteStepIsQuiet
<1>2. CASE \E c \in Executes : CancelStep(c)
  BY <1>2, UntouchedIsQuiet
     DEF CancelStep, CancelStops, CancelFlags, CancelMarks
<1>3. CASE \/ \E c \in Previews : PreviewStart(c) \/ StorePending(c)
           \/ \E c \in Batches : BatchStart(c)
  BY <1>3, ServiceStepIsQuiet
<1>4. CASE \E c \in Calls : PlanStep(c) \/ Refuse(c)
  BY <1>4, PlanStepIsQuiet
<1>5. CASE \/ ClearTrajectory \/ \E p \in Planners : SetPlannerCheck(p)
           \/ SetPlannerObject \/ SetPlannerType \/ SwitchStrategy
  BY <1>5, UntouchedIsQuiet
     DEF ClearTrajectory, SetPlannerCheck, SetPlannerObject, SetPlannerType,
         SwitchStrategy, callVars
<1>6. CASE \E g \in GoalIds : ContextStep(g) \/ FeedbackStep(g)
  BY <1>6, UntouchedIsQuiet DEF ContextStep, FeedbackStep, callVars
<1>7. CASE UNCHANGED vars
  BY <1>7, UntouchedIsQuiet DEF vars, callVars
<1> QED
  BY <1>1, <1>2, <1>3, <1>4, <1>5, <1>6, <1>7 DEF Next

LEMMA GoalCallbackEffect ==
  ASSUME SlotInv, NEW c \in Executes, GoalCallback(c)
  PROVE  /\ pc[c] = "idle" /\ pc' \in [Calls -> PcValues]
         /\ \A d \in Executes : d # c => pc'[d] = pc[d]
         /\ \/ goalActive /\ goalActive' /\ pc'[c] = "rejected"
            \/ ~goalActive /\ goalActive' /\ pc'[c] = "admitted"
BY DEF SlotInv, GoalCallback, Goto, Calls, PcValues

LEMMA FreeSlotEffect ==
  ASSUME SlotInv, NEW c \in Executes, FreeSlot(c)
  PROVE  /\ pc[c] = "ending" /\ pc' \in [Calls -> PcValues]
         /\ \A d \in Executes : d # c => pc'[d] = pc[d]
         /\ ~goalActive' /\ goalActive' \in BOOLEAN /\ pc'[c] = "done"
BY DEF SlotInv, FreeSlot, Goto, Calls, PcValues

LEMMA SlotInvInit == ASSUME Init PROVE SlotInv
BY DEF Init, SlotInv, AtMostOneExecution, InSlot, Calls, PcValues

LEMMA SlotInvStep ==
  ASSUME PlannerAssumption, SlotInv, [Next]_vars PROVE SlotInv'
<1>1. CASE Quiet
  BY <1>1 DEF SlotInv, Quiet, AtMostOneExecution
<1>2. ASSUME NEW c \in Executes, GoalCallback(c) PROVE SlotInv'
  BY <1>2, GoalCallbackEffect DEF SlotInv, AtMostOneExecution, InSlot
<1>3. ASSUME NEW c \in Executes, FreeSlot(c) PROVE SlotInv'
  BY <1>3, FreeSlotEffect DEF SlotInv, AtMostOneExecution, InSlot
<1> QED
  BY <1>1, <1>2, <1>3, StepCases DEF SlotInv

(* However many clients there are and however the threads interleave, at   *)
(* most one execution goal is between its admission and the end of its     *)
(* callback.                                                               *)
THEOREM OneExecution == Spec => []AtMostOneExecution
<1>1. Init => SlotInv
  BY SlotInvInit
<1>2. SlotInv /\ [Next]_vars => SlotInv'
  BY PlannerAssumption, SlotInvStep
<1>3. SlotInv => AtMostOneExecution
  BY DEF SlotInv
<1> QED
  BY <1>1, <1>2, <1>3, PTL DEF Spec

(* The node's slot implements the abstract one: an admission is Acquire,   *)
(* the end of a callback is Release, every other step stutters.            *)
THEOREM SlotImplemented == Spec => ImplementsSlot
<1> DEFINE holder == {c \in Executes : InSlot(c)}
           served == {c \in Executes : pc[c] \notin {"idle", "rejected"}}
<1>1. Init => Slot!SlotInit
  BY DEF Init, Slot!SlotInit, InSlot, Calls
<1>2. SlotInv /\ [Next]_vars => [Slot!SlotNext]_(Slot!slotVars)
  <2> SUFFICES ASSUME SlotInv, [Next]_vars
               PROVE  [Slot!SlotNext]_(Slot!slotVars)
    OBVIOUS
  <2>1. CASE Quiet
    <3>1. holder' = holder /\ served' = served
      BY <2>1 DEF Quiet, Fresh
    <3> QED
      BY <3>1 DEF Slot!slotVars
  <2>2. ASSUME NEW c \in Executes, GoalCallback(c)
        PROVE  [Slot!SlotNext]_(Slot!slotVars)
    <3>1. CASE goalActive
      <4>1. holder' = holder /\ served' = served
        BY <2>2, <3>1, GoalCallbackEffect DEF InSlot
      <4> QED
        BY <4>1 DEF Slot!slotVars
    <3>2. CASE ~goalActive
      <4>1. holder = {} /\ c \notin served
        BY <2>2, <3>2, GoalCallbackEffect DEF SlotInv
      <4>2. holder' = {c} /\ served' = served \cup {c}
        BY <2>2, <3>2, <4>1, GoalCallbackEffect DEF InSlot
      <4> QED
        BY <4>1, <4>2 DEF Slot!SlotNext, Slot!Acquire
    <3> QED
      BY <3>1, <3>2
  <2>3. ASSUME NEW c \in Executes, FreeSlot(c)
        PROVE  [Slot!SlotNext]_(Slot!slotVars)
    <3>1. holder = {c}
      BY <2>3, FreeSlotEffect DEF SlotInv, AtMostOneExecution, InSlot
    <3>2. holder' = {} /\ served' = served
      BY <2>3, <3>1, FreeSlotEffect DEF InSlot
    <3> QED
      BY <3>1, <3>2 DEF Slot!SlotNext, Slot!Release
  <2> QED
    BY <2>1, <2>2, <2>3, StepCases, PlannerAssumption DEF SlotInv
<1>3. Spec => []SlotInv
  <2>1. SlotInv /\ [Next]_vars => SlotInv'
    BY PlannerAssumption, SlotInvStep
  <2> QED
    BY SlotInvInit, <2>1, PTL DEF Spec
<1> QED
  BY <1>1, <1>2, <1>3, PTL DEF Spec, ImplementsSlot, Slot!SlotSpec
-----------------------------------------------------------------------------

(* Whatever the node does, the strategy object behind the context behaves  *)
(* as ActionClient says.                                                   *)
LEMMA PlannerStepDrives ==
  ASSUME [Next]_vars PROVE [ClientStep]_clientVars
<1> USE DEF contextVars, ClientStep
<1>1. CASE \E c \in Executes : GoalCallback(c) \/ ExecuteStep(c)
  BY <1>1 DEF GoalCallback, ExecuteStep, ExecuteStart, Resolve, ReusePending,
              DeclinePending, ExecuteBegin, ExecuteSend, SendTrajectory,
              SendTrajectoryRaises, SendBuffer, SendLost, SeesComplete,
              ExitCancelled, ExitCompleted, StopAfterFailure, StopRobot,
              Report, FreeSlot
<1>2. CASE \E c \in Executes : CancelStep(c)
  BY <1>2 DEF CancelStep, CancelStops, CancelFlags, CancelMarks, StopRobot
<1>3. CASE \/ \E c \in Previews : PreviewStart(c) \/ StorePending(c)
           \/ \E c \in Batches : BatchStart(c)
  BY <1>3 DEF PreviewStart, BatchStart, Resolve, StorePending
<1>4. CASE \E c \in Calls : PlanStep(c) \/ Refuse(c)
  BY <1>4 DEF PlanStep, PlanBegin, PlanFails, PlanSolved, PlanLoads,
              SetCommand, PlanDone, Refuse
<1>5. CASE \/ ClearTrajectory \/ \E p \in Planners : SetPlannerCheck(p)
           \/ SetPlannerObject \/ SetPlannerType \/ SwitchStrategy
  BY <1>5 DEF ClearTrajectory, SetPlannerCheck, SetPlannerObject,
              SetPlannerType, SwitchStrategy, SetRobotStrategy
<1>6. CASE \E g \in GoalIds : ContextStep(g) \/ FeedbackStep(g)
  BY <1>6 DEF ContextStep, ControllerMoves, MessageArrives, FeedbackStep,
              Callbacks, Controller
<1>7. CASE UNCHANGED vars
  BY <1>7 DEF vars
<1> QED
  BY <1>1, <1>2, <1>3, <1>4, <1>5, <1>6, <1>7 DEF Next

(* Unless a command of the node overtook an open callback, the result it   *)
(* samples and the handle it cancels are the active send's.                *)
THEOREM PlannerTracksCurrent == Spec => [](ClientTypeOK /\ TrackingIsCurrent)
<1> DEFINE I == ClientTypeOK /\ TrackingInv
<1>1. Init => I
  BY ClientTypesInit, TrackingInit DEF Init, ContextInit
<1>2. I /\ [Next]_vars => I'
  BY PlannerStepDrives, ClientTypesStep, TrackingStep
<1>3. I => ClientTypeOK /\ TrackingIsCurrent
  BY DEF TrackingInv
<1> QED
  BY <1>1, <1>2, <1>3, PTL DEF Spec

-----------------------------------------------------------------------------
(* A call past its start knows what was asked of it.                       *)
Unasked == {"idle", "rejected", "admitted"}

WantOK == \A c \in Calls : pc[c] \notin Unasked => job[c].want \in Targets

Typed == TypeOK /\ WantOK

LEMMA TypedInit == ASSUME PlannerAssumption, ContextAssumption, Init PROVE Typed
<1> USE DEF Init, PlannerAssumption, ContextAssumption, ContextInit
<1>1. ClientTypeOK
  BY ClientTypesInit
<1>2. ContextTypeOK
  BY <1>1 DEF ContextTypeOK, Commands
<1>3. NoJob \in JobRecord
  BY DEF NoJob, JobRecord, Poses, NoEpoch, NoGoal
<1>4. job \in [Calls -> JobRecord]
  <2> HIDE DEF JobRecord, NoJob
  <2> QED
    BY <1>3
<1>5. pc \in [Calls -> PcValues]
  BY DEF PcValues
<1>6. WantOK
  BY DEF WantOK, Unasked
<1>7. TypeOK
  BY <1>2, <1>4, <1>5 DEF TypeOK, Commands, NoEpoch, Poses
<1> QED
  BY <1>6, <1>7 DEF Typed

(* What the types say of one call's locals.                                *)
LEMMA JobFields ==
  ASSUME TypeOK, NEW c \in Calls
  PROVE  /\ job[c] \in JobRecord
         /\ job[c].on \in Planners /\ job[c].want \in Targets \cup {Nothing}
         /\ job[c].start \in Poses /\ job[c].epoch \in Nat \cup {NoEpoch}
         /\ job[c].goal \in GoalIds \cup {NoGoal}
BY DEF TypeOK, JobRecord

LEMMA WantedIsTrajectory ==
  ASSUME PlannerAssumption, Typed, NEW c \in Calls, pc[c] \notin Unasked
  PROVE  Wanted(c) \in Trajectories
BY JobFields DEF Typed, WantOK, Wanted, PlannerAssumption

-----------------------------------------------------------------------------
(* How a step changes the locals of the calls.                             *)
LEMMA ResolveKeepsJobs ==
  ASSUME PlannerAssumption, Typed, NEW c \in Calls, NEW at, Resolve(c, at),
         at \in PcValues
  PROVE  job' \in [Calls -> JobRecord] /\ WantOK'
<1> USE DEF Typed
<1>1. PICK t \in Targets :
        job' = [job EXCEPT ![c] = [NoJob EXCEPT !.on = current, !.want = t,
                                               !.start = pose]]
  BY DEF Resolve
<1> DEFINE new == [NoJob EXCEPT !.on = current, !.want = t, !.start = pose]
<1>2. new \in JobRecord /\ new.want \in Targets
  BY DEF NoJob, JobRecord, TypeOK, NoEpoch, NoGoal
<1>3. job' = [job EXCEPT ![c] = new] /\ pc' = [pc EXCEPT ![c] = at]
  BY <1>1 DEF Resolve, Goto
<1> HIDE DEF new
<1> QED
  BY <1>2, <1>3 DEF TypeOK, WantOK

LEMMA OtherJobs ==
  ASSUME Typed, NEW c \in Calls, NEW at, Goto(c, at), pc[c] \notin Unasked,
         job' \in [Calls -> JobRecord],
         \A d \in Calls : job'[d].want = job[d].want
  PROVE  WantOK'
BY DEF Typed, TypeOK, WantOK, Goto

LEMMA JobsTyped ==
  ASSUME PlannerAssumption, Typed, [Next]_vars
  PROVE  job' \in [Calls -> JobRecord] /\ WantOK'
<1>1. Executes \subseteq Calls /\ Previews \subseteq Calls /\ Batches \subseteq Calls
  BY DEF Calls
<1>2. ASSUME job' = job, pc' = pc
      PROVE  job' \in [Calls -> JobRecord] /\ WantOK'
  BY <1>2 DEF Typed, TypeOK, WantOK
<1>3. ASSUME NEW c \in Calls, NEW at, Goto(c, at), pc[c] \notin Unasked,
             job' = job
      PROVE  job' \in [Calls -> JobRecord] /\ WantOK'
  BY <1>3, OtherJobs DEF Typed, TypeOK
<1>4. ASSUME NEW c \in Executes, GoalCallback(c)
      PROVE  job' \in [Calls -> JobRecord] /\ WantOK'
  <2>1. job' = job /\ (Goto(c, "rejected") \/ Goto(c, "admitted"))
    BY <1>4 DEF GoalCallback
  <2> QED
    BY <1>1, <2>1 DEF Typed, TypeOK, WantOK, Goto, Unasked
<1>5. ASSUME NEW c \in Executes, ExecuteStep(c)
      PROVE  job' \in [Calls -> JobRecord] /\ WantOK'
  <2>1. CASE ExecuteStart(c)
    BY <1>1, <2>1, ResolveKeepsJobs DEF ExecuteStart, PcValues
  <2>2. CASE ExecuteBegin(c)
    <3>1. (Goto(c, "failing") \/ Goto(c, "sending")) /\ pc[c] \notin Unasked
      BY <2>2 DEF ExecuteBegin, Unasked
    <3>2. CASE job' = job
      BY <1>1, <1>3, <3>1, <3>2
    <3>3. CASE job' = [job EXCEPT ![c].epoch = cmdEpoch[job[c].on]]
      <4>1. job' \in [Calls -> JobRecord]
        BY <1>1, <3>3, JobFields DEF Typed, TypeOK, JobRecord
      <4>2. \A d \in Calls : job'[d].want = job[d].want
        BY <1>1, <3>3, JobFields DEF Typed, TypeOK, JobRecord
      <4> QED
        BY <1>1, <3>1, <4>1, <4>2, OtherJobs
    <3> QED
      BY <2>2, <3>2, <3>3 DEF ExecuteBegin
  <2>3. CASE ExecuteSend(c)
    <3>1. /\ pc[c] \notin Unasked
          /\ Goto(c, "running") \/ Goto(c, "stopping") \/ Goto(c, "failing")
      BY <2>3 DEF ExecuteSend, Unasked
    <3>2. CASE job' = job
      BY <1>1, <1>3, <3>1, <3>2
    <3>3. CASE /\ job' = [job EXCEPT ![c].goal = sends + 1,
                                     ![c].own = (own = c)]
               /\ sends < MaxSends
      <4>1. sends + 1 \in GoalIds
        BY <3>3, ClientAssumption
           DEF Typed, TypeOK, ContextTypeOK, ClientTypeOK, GoalIds,
               ClientAssumption
      <4>2. job' \in [Calls -> JobRecord]
        BY <1>1, <3>3, <4>1, JobFields DEF Typed, TypeOK, JobRecord
      <4>3. \A d \in Calls : job'[d].want = job[d].want
        BY <1>1, <3>3, JobFields DEF Typed, TypeOK, JobRecord
      <4> QED
        BY <1>1, <3>1, <4>2, <4>3, OtherJobs
    <3> QED
      BY <2>3, <3>2, <3>3 DEF ExecuteSend, SendTrajectory, SendBuffer, SendGoal
  <2>4. CASE \/ ReusePending(c) \/ DeclinePending(c) \/ SeesComplete(c)
             \/ ExitCancelled(c) \/ ExitCompleted(c) \/ StopAfterFailure(c)
             \/ Report(c) \/ FreeSlot(c)
    <3>1. /\ job' = job /\ pc[c] \notin Unasked
          /\ \E at : Goto(c, at)
      BY <2>4 DEF ReusePending, DeclinePending, SeesComplete, ExitCancelled,
                  ExitCompleted, StopAfterFailure, Report, FreeSlot, Unasked
    <3> QED
      BY <1>1, <1>3, <3>1
  <2> QED
    BY <1>5, <2>1, <2>2, <2>3, <2>4 DEF ExecuteStep
<1>6. CASE \E c \in Executes : CancelStep(c)
  BY <1>2, <1>6 DEF CancelStep, CancelStops, CancelFlags, CancelMarks
<1>7. ASSUME NEW c \in Calls, PreviewStart(c) \/ BatchStart(c)
      PROVE  job' \in [Calls -> JobRecord] /\ WantOK'
  BY <1>7, ResolveKeepsJobs DEF PreviewStart, BatchStart, PcValues
<1>8. ASSUME NEW c \in Calls, StorePending(c)
      PROVE  job' \in [Calls -> JobRecord] /\ WantOK'
  <2>1. job' = job /\ pc[c] \notin Unasked /\ Goto(c, "done")
    BY <1>8 DEF StorePending, Unasked
  <2> QED
    BY <1>3, <2>1
<1>9. ASSUME NEW c \in Calls, PlanStep(c) \/ Refuse(c)
      PROVE  job' \in [Calls -> JobRecord] /\ WantOK'
  <2>1. pc[c] \notin Unasked /\ \E at : Goto(c, at)
    BY <1>9 DEF PlanStep, PlanBegin, PlanFails, PlanSolved, PlanLoads,
                PlanDone, Refuse, GiveUp, Unasked
  <2>2. CASE job' = job
    BY <1>3, <2>1, <2>2
  <2>3. CASE job' = [job EXCEPT ![c].epoch = epoch'] /\ epoch' = epoch + 1
    <3>1. epoch' \in Nat
      BY <2>3 DEF Typed, TypeOK, ContextTypeOK
    <3>2. job' \in [Calls -> JobRecord]
      BY <2>3, <3>1, JobFields DEF Typed, TypeOK, JobRecord
    <3>3. \A d \in Calls : job'[d].want = job[d].want
      BY <2>3, JobFields DEF Typed, TypeOK, JobRecord
    <3> QED
      BY <2>1, <3>2, <3>3, OtherJobs
  <2> QED
    BY <1>9, <2>2, <2>3 DEF PlanStep, PlanBegin, PlanFails, PlanSolved,
                            PlanLoads, SetCommand, PlanDone, Refuse
<1>10. CASE \/ ClearTrajectory \/ \E p \in Planners : SetPlannerCheck(p)
            \/ SetPlannerObject \/ SetPlannerType \/ SwitchStrategy
  BY <1>2, <1>10 DEF ClearTrajectory, SetPlannerCheck, SetPlannerObject,
                     SetPlannerType, SwitchStrategy, callVars
<1>11. CASE \E g \in GoalIds : ContextStep(g) \/ FeedbackStep(g)
  BY <1>2, <1>11 DEF ContextStep, FeedbackStep, callVars
<1>12. CASE UNCHANGED vars
  BY <1>2, <1>12 DEF vars, callVars
<1> QED
  BY <1>1, <1>4, <1>5, <1>6, <1>7, <1>8, <1>9, <1>10, <1>11, <1>12 DEF Next

-----------------------------------------------------------------------------
(* The buffers and what left for the robot.                                *)
BufferTyped ==
  /\ strategy \in Strategies /\ buffer \in Commands /\ epoch \in Nat
  /\ sent \in [GoalIds -> [traj : Commands, intended : Commands]]

LEMMA BuffersTyped ==
  ASSUME PlannerAssumption, Typed, [Next]_vars PROVE BufferTyped'
<1>0. /\ BufferTyped
      /\ Executes \subseteq Calls
  BY DEF Typed, TypeOK, ContextTypeOK, BufferTyped, Calls
<1> USE DEF BufferTyped
<1>1. ASSUME UNCHANGED <<strategy, buffer, epoch, sent>> PROVE BufferTyped'
  BY <1>0, <1>1
<1>2. ASSUME UNCHANGED contextVars PROVE BufferTyped'
  BY <1>1, <1>2 DEF contextVars
<1>3. ASSUME StopRobot PROVE BufferTyped'
  BY <1>0, <1>3 DEF StopRobot, Commands
<1>4. ASSUME NEW c \in Executes, GoalCallback(c) \/ ExecuteStep(c)
      PROVE  BufferTyped'
  <2>1. CASE ExecuteSend(c)
    <3>1. Wanted(c) \in Commands
      BY <1>0, <2>1, WantedIsTrajectory
         DEF ExecuteSend, Unasked, Commands
    <3>2. CASE SendTrajectory(job[c].epoch, Wanted(c))
      <4>1. /\ strategy' = strategy /\ buffer' = Nothing /\ epoch' = epoch
            /\ sent' = [sent EXCEPT ![sends + 1] =
                          [traj |-> buffer, intended |-> Wanted(c)]]
        BY <3>2 DEF SendTrajectory, SendBuffer
      <4> HIDE DEF Wanted
      <4> QED
        BY <1>0, <3>1, <4>1 DEF Commands
    <3>3. CASE SendTrajectoryRaises(job[c].epoch)
      BY <1>0, <3>3 DEF SendTrajectoryRaises, SendLost, Commands
    <3> QED
      BY <1>2, <2>1, <3>2, <3>3 DEF ExecuteSend
  <2>2. CASE StopAfterFailure(c)
    BY <1>3, <2>2 DEF StopAfterFailure
  <2>3. CASE UNCHANGED contextVars
    BY <1>2, <2>3
  <2> QED
    BY <1>4, <2>1, <2>2, <2>3
       DEF GoalCallback, ExecuteStep, ExecuteStart, Resolve, ReusePending,
           DeclinePending, ExecuteBegin, SeesComplete, ExitCancelled,
           ExitCompleted, Report, FreeSlot
<1>5. CASE \E c \in Executes : CancelStep(c)
  BY <1>2, <1>3, <1>5 DEF CancelStep, CancelStops, CancelFlags, CancelMarks
<1>6. CASE \/ \E c \in Previews : PreviewStart(c) \/ StorePending(c)
           \/ \E c \in Batches : BatchStart(c)
  BY <1>2, <1>6 DEF PreviewStart, BatchStart, Resolve, StorePending
<1>7. ASSUME NEW c \in Calls, PlanStep(c) \/ Refuse(c)
      PROVE  BufferTyped'
  <2>1. CASE PlanLoads(c)
    <3>1. planned[job[c].on] \in Commands
      BY JobFields DEF Typed, TypeOK
    <3> QED
      BY <1>0, <2>1, <3>1 DEF PlanLoads, SetCommand
  <2> QED
    BY <1>2, <1>7, <2>1 DEF PlanStep, PlanBegin, PlanFails, PlanSolved,
                            PlanDone, Refuse
<1>8. CASE SwitchStrategy
  BY <1>0, <1>8 DEF SwitchStrategy, SetRobotStrategy, Commands
<1>9. CASE \/ ClearTrajectory \/ \E p \in Planners : SetPlannerCheck(p)
           \/ SetPlannerObject \/ SetPlannerType
  BY <1>2, <1>9 DEF ClearTrajectory, SetPlannerCheck, SetPlannerObject,
                    SetPlannerType
<1>10. CASE \E g \in GoalIds : ContextStep(g) \/ FeedbackStep(g)
  BY <1>1, <1>10 DEF ContextStep, FeedbackStep
<1>11. CASE UNCHANGED vars
  BY <1>2, <1>11 DEF vars
<1> QED
  BY <1>4, <1>5, <1>6, <1>7, <1>8, <1>9, <1>10, <1>11 DEF Next

(* The planners, the pending plan and the lock.                            *)
PlannerTyped ==
  /\ current \in Planners /\ currentType \in Planners
  /\ switching \in Planners \cup {NoPlanner}
  /\ pending \in [type : Planners, plan : Trajectories] \cup {Nothing}
  /\ planned \in [Planners -> Commands]
  /\ cmdEpoch \in [Planners -> Nat \cup {NoEpoch}]
  /\ cancelled \in [Planners -> BOOLEAN]
  /\ gpu \in Calls \cup {Nothing}
  /\ own \in Executes \cup {Nothing}

LEMMA PlannersTyped ==
  ASSUME PlannerAssumption, Typed, [Next]_vars PROVE PlannerTyped'
<1>0. /\ PlannerTyped
      /\ Executes \subseteq Calls /\ Previews \subseteq Calls
      /\ Batches \subseteq Calls
  BY DEF Typed, TypeOK, PlannerTyped, Calls
<1> USE DEF PlannerTyped
<1>1. ASSUME UNCHANGED <<plannerVars, solverVars, pending, cancelled>>
      PROVE  PlannerTyped'
  BY <1>0, <1>1 DEF plannerVars, solverVars
<1>2. ASSUME NEW c \in Executes, GoalCallback(c) \/ ExecuteStep(c)
      PROVE  PlannerTyped'
  <2>1. CASE ExecuteBegin(c)
    BY <1>0, <2>1 DEF ExecuteBegin, plannerVars, solverVars
  <2>2. CASE ExecuteSend(c)
    BY <1>0, <2>2 DEF ExecuteSend, plannerVars
  <2> QED
    BY <1>1, <1>2, <2>1, <2>2
       DEF GoalCallback, ExecuteStep, ExecuteStart, Resolve, ReusePending,
           DeclinePending, SeesComplete, ExitCancelled, ExitCompleted,
           StopAfterFailure, Report, FreeSlot
<1>3. CASE \E c \in Executes : CancelStep(c)
  <2>1. CASE \E c \in Executes : CancelFlags(c)
    BY <1>0, <2>1 DEF CancelFlags, plannerVars, solverVars
  <2> QED
    BY <1>1, <1>3, <2>1 DEF CancelStep, CancelStops, CancelMarks
<1>4. ASSUME NEW c \in Calls,
             PreviewStart(c) \/ StorePending(c) \/ BatchStart(c)
      PROVE  PlannerTyped'
  <2>1. CASE StorePending(c)
    <3>1. job[c].want \in Targets
      BY <2>1 DEF StorePending, Typed, WantOK, Unasked
    <3>2. [from |-> pose, to |-> job[c].want] \in Trajectories
      BY <3>1 DEF Typed, TypeOK, PlannerAssumption
    <3>3. pending' = [type |-> currentType,
                      plan |-> [from |-> pose, to |-> job[c].want]]
      BY <2>1 DEF StorePending
    <3>4. UNCHANGED <<plannerVars, solverVars, cancelled>>
      BY <2>1 DEF StorePending
    <3> DEFINE plan == [from |-> pose, to |-> job[c].want]
    <3> HIDE DEF plan
    <3>5. pending' \in [type : Planners, plan : Trajectories]
      BY <1>0, <3>2, <3>3 DEF plan
    <3> QED
      BY <1>0, <3>4, <3>5 DEF plannerVars, solverVars
  <2> QED
    BY <1>1, <1>4, <2>1 DEF PreviewStart, BatchStart, Resolve
<1>5. ASSUME NEW c \in Calls, PlanStep(c) \/ Refuse(c)
      PROVE  PlannerTyped'
  <2>0. job[c].on \in Planners /\ job[c].epoch \in Nat \cup {NoEpoch}
    BY JobFields DEF Typed
  <2>1. CASE PlanBegin(c) \/ PlanFails(c) \/ PlanDone(c)
    BY <1>0, <2>0, <2>1 DEF PlanBegin, PlanFails, PlanDone, Unlock,
                            plannerVars
  <2>2. CASE PlanSolved(c)
    <3>1. Wanted(c) \in Commands
      BY <2>2, WantedIsTrajectory DEF PlanSolved, Unasked, Commands
    <3>2. planned' = [planned EXCEPT ![job[c].on] = Wanted(c)]
      BY <2>2 DEF PlanSolved
    <3>3. planned' \in [Planners -> Commands]
      BY <1>0, <3>1, <3>2
    <3> QED
      BY <1>0, <2>0, <2>2, <3>3 DEF PlanSolved, plannerVars
  <2>3. CASE PlanLoads(c)
    BY <1>0, <2>3 DEF PlanLoads, plannerVars
  <2>4. CASE Refuse(c)
    BY <1>1, <2>4 DEF Refuse
  <2> QED
    BY <1>5, <2>1, <2>2, <2>3, <2>4 DEF PlanStep
<1>6. CASE \/ ClearTrajectory \/ \E p \in Planners : SetPlannerCheck(p)
           \/ SetPlannerObject \/ SetPlannerType \/ SwitchStrategy
  BY <1>0, <1>6 DEF ClearTrajectory, SetPlannerCheck, SetPlannerObject,
                    SetPlannerType, SwitchStrategy, plannerVars, solverVars
<1>7. CASE \E g \in GoalIds : ContextStep(g) \/ FeedbackStep(g)
  BY <1>1, <1>7 DEF ContextStep, FeedbackStep
<1>8. CASE UNCHANGED vars
  BY <1>1, <1>8 DEF vars
<1> QED
  BY <1>0, <1>2, <1>3, <1>4, <1>5, <1>6, <1>7, <1>8 DEF Next

(* The answers, the cancel requests and the pose.                          *)
AnswerTyped ==
  /\ cancel \in [Executes ->
                {"none", "stopped", "flagged", "requested", "late"}]
  /\ verdict \in [Executes -> {"none", "succeeded", "aborted", "canceled"}]
  /\ pose \in Poses

LEMMA AnswersTyped ==
  ASSUME PlannerAssumption, Typed, [Next]_vars PROVE AnswerTyped'
<1>0. AnswerTyped
  BY DEF Typed, TypeOK, AnswerTyped
<1> USE DEF AnswerTyped
<1>1. ASSUME UNCHANGED <<cancel, verdict, pose>> PROVE AnswerTyped'
  BY <1>0, <1>1
<1>2. ASSUME NEW c \in Executes, GoalCallback(c) \/ ExecuteStep(c)
      PROVE  AnswerTyped'
  <2>1. CASE Report(c)
    BY <1>0, <2>1 DEF Report
  <2> QED
    BY <1>1, <1>2, <2>1
       DEF GoalCallback, ExecuteStep, ExecuteStart, Resolve, ReusePending,
           DeclinePending, ExecuteBegin, ExecuteSend, SeesComplete,
           ExitCancelled, ExitCompleted, StopAfterFailure, FreeSlot
<1>3. ASSUME NEW c \in Executes, CancelStep(c) PROVE AnswerTyped'
  BY <1>0, <1>3 DEF CancelStep, CancelStops, CancelFlags, CancelMarks
<1>4. CASE \/ \E c \in Previews : PreviewStart(c) \/ StorePending(c)
           \/ \E c \in Batches : BatchStart(c)
  BY <1>1, <1>4 DEF PreviewStart, BatchStart, Resolve, StorePending
<1>5. ASSUME NEW c \in Calls, PlanStep(c) \/ Refuse(c)
      PROVE  AnswerTyped'
  <2>1. CASE PlanFails(c) \/ Refuse(c)
    BY <1>0, <2>1 DEF PlanFails, Refuse, GiveUp
  <2> QED
    BY <1>1, <1>5, <2>1 DEF PlanStep, PlanBegin, PlanSolved, PlanLoads,
                            PlanDone
<1>6. CASE \/ ClearTrajectory \/ \E p \in Planners : SetPlannerCheck(p)
           \/ SetPlannerObject \/ SetPlannerType \/ SwitchStrategy
  BY <1>1, <1>6 DEF ClearTrajectory, SetPlannerCheck, SetPlannerObject,
                    SetPlannerType, SwitchStrategy, callVars
<1>7. ASSUME NEW g \in GoalIds, ContextStep(g) \/ FeedbackStep(g)
      PROVE  AnswerTyped'
  <2>1. sent[g].traj # Nothing => sent[g].traj.to \in Targets
    <3>1. sent[g].traj \in Commands
      BY DEF Typed, TypeOK, ContextTypeOK
    <3> QED
      BY <3>1 DEF Commands, PlannerAssumption
  <2>2. pose' \in Poses
    BY <1>0, <1>7, <2>1 DEF ContextStep, ControllerMoves, MessageArrives,
                            FeedbackStep, Poses
  <2> QED
    BY <1>0, <1>7, <2>2 DEF ContextStep, FeedbackStep, callVars
<1>8. CASE UNCHANGED vars
  BY <1>1, <1>8 DEF vars, callVars
<1> QED
  BY <1>2, <1>3, <1>4, <1>5, <1>6, <1>7, <1>8 DEF Next

LEMMA TypedStep ==
  ASSUME PlannerAssumption, Typed, SlotInv', [Next]_vars PROVE Typed'
<1>1. ClientTypeOK'
  BY PlannerStepDrives, ClientTypesStep DEF Typed, TypeOK, ContextTypeOK
<1>2. ContextTypeOK'
  BY <1>1, BuffersTyped DEF ContextTypeOK, BufferTyped
<1> QED
  BY <1>2, JobsTyped, PlannersTyped, AnswersTyped
     DEF Typed, TypeOK, PlannerTyped, AnswerTyped, SlotInv

(* The node's state stays well typed.                                      *)
THEOREM PlannerTypes == Spec => []TypeOK
<1> DEFINE I == SlotInv /\ Typed
<1>1. Init => I
  BY SlotInvInit, TypedInit, PlannerAssumption, ContextAssumption
<1>2. I /\ [Next]_vars => I'
  BY SlotInvStep, TypedStep, PlannerAssumption
<1>3. I => TypeOK
  BY DEF Typed
<1> QED
  BY <1>1, <1>2, <1>3, PTL DEF Spec

-----------------------------------------------------------------------------
(* With CUDA graphs, a plan holds gpu_lock from its start to its end: one  *)
(* call at a time is in it.  The epochs the planners and that call keep    *)
(* are never ahead of the buffers, and one that equals theirs was given    *)
(* for what the planner holds.                                             *)
InPlan(c) == pc[c] \in {"solving", "solved", "loaded"}

PlanLock == \A c \in Calls : InPlan(c) => gpu = c

Names(e, p) == e <= epoch /\ (e = epoch => buffer \in {planned[p], Nothing})

EpochsOK ==
  inst = 1 =>
    /\ \A p \in Planners : Names(cmdEpoch[p], p)
    /\ \A c \in Calls : pc[c] = "loaded" => Names(job[c].epoch, job[c].on)

EpochInv == PlanLock /\ EpochsOK

(* A step outside the plans: no call enters one, the buffers are at most   *)
(* emptied, or belong to another strategy object.                          *)
OutsidePlans ==
  /\ UNCHANGED <<cmdEpoch, planned, gpu>>
  /\ \A c \in Calls : InPlan(c)' => /\ pc'[c] = pc[c]
                                    /\ job'[c].epoch = job[c].epoch
                                    /\ job'[c].on = job[c].on
  /\ \/ inst' = inst /\ epoch' = epoch /\ buffer' \in {buffer, Nothing}
     \/ inst' = inst + 1

LEMMA OutsideKeepsEpochs ==
  ASSUME Typed, EpochInv, OutsidePlans PROVE EpochInv'
<1>1. inst \in Nat \ {0}
  BY DEF Typed, TypeOK, ContextTypeOK, ClientTypeOK
<1>2. PlanLock'
  BY DEF EpochInv, PlanLock, OutsidePlans, InPlan
<1>3. EpochsOK'
  <2> SUFFICES ASSUME inst' = 1 PROVE EpochsOK'
    BY DEF EpochsOK
  <2>1. inst = 1 /\ epoch' = epoch /\ buffer' \in {buffer, Nothing}
    BY <1>1 DEF OutsidePlans
  <2>2. \A p \in Planners : Names(cmdEpoch[p], p)'
    BY <2>1 DEF EpochInv, EpochsOK, OutsidePlans, Names
  <2>3. \A c \in Calls : pc'[c] = "loaded" => Names(job[c].epoch, job[c].on)'
    BY <2>1 DEF EpochInv, EpochsOK, OutsidePlans, Names, InPlan
  <2> QED
    BY <2>2, <2>3 DEF EpochsOK
<1> QED
  BY <1>2, <1>3 DEF EpochInv

(* A call moves on outside the plan.                                       *)
LEMMA GotoOutside ==
  ASSUME Typed, NEW c \in Calls, NEW at, Goto(c, at),
         at \notin {"solving", "solved", "loaded"},
         UNCHANGED <<cmdEpoch, planned, gpu>>,
         \A d \in Calls \ {c} : job'[d] = job[d],
         \/ inst' = inst /\ epoch' = epoch /\ buffer' \in {buffer, Nothing}
         \/ inst' = inst + 1
  PROVE  OutsidePlans
BY DEF Typed, TypeOK, Goto, OutsidePlans, InPlan

LEMMA PlanKeepsEpochs ==
  ASSUME PlannerAssumption, UseCudaGraph = TRUE, Typed, EpochInv,
         NEW c \in Calls, PlanStep(c)
  PROVE  EpochInv'
<1> DEFINE p == job[c].on
<1>0. /\ p \in Planners /\ job[c].epoch \in Nat \cup {NoEpoch}
      /\ epoch \in Nat /\ planned \in [Planners -> Commands]
      /\ cmdEpoch \in [Planners -> Nat \cup {NoEpoch}]
      /\ pc \in [Calls -> PcValues] /\ job \in [Calls -> JobRecord]
      /\ Nothing \notin Calls
  BY JobFields DEF Typed, TypeOK, ContextTypeOK, PlannerAssumption
<1>1. \A d \in Calls : InPlan(d) => gpu = d
  BY DEF EpochInv, PlanLock
<1>2. CASE PlanBegin(c) \/ PlanFails(c)
  <2>1. /\ UNCHANGED <<inst, epoch, buffer, planned, job>>
        /\ cmdEpoch' \in {cmdEpoch, [cmdEpoch EXCEPT ![p] = NoEpoch]}
        /\ \E at : Goto(c, at) /\ at # "loaded"
    BY <1>2 DEF PlanBegin, PlanFails, GiveUp, contextVars, clientVars
  <2>2. PlanLock'
    <3>1. CASE PlanBegin(c)
      BY <1>0, <1>1, <3>1 DEF PlanBegin, Goto, PlanLock, InPlan
    <3>2. CASE PlanFails(c)
      BY <1>0, <1>1, <3>2 DEF PlanFails, GiveUp, Unlock, Goto, PlanLock, InPlan
    <3> QED
      BY <1>2, <3>1, <3>2
  <2>3. EpochsOK'
    BY <1>0, <2>1 DEF EpochInv, EpochsOK, Names, Goto, NoEpoch
  <2> QED
    BY <2>2, <2>3 DEF EpochInv
<1>3. CASE PlanSolved(c)
  <2>1. /\ UNCHANGED <<inst, epoch, buffer, gpu, job>>
        /\ cmdEpoch' = [cmdEpoch EXCEPT ![p] = NoEpoch]
        /\ \A q \in Planners \ {p} : planned'[q] = planned[q]
        /\ pc[c] = "solving" /\ pc' = [pc EXCEPT ![c] = "solved"]
    BY <1>0, <1>3 DEF PlanSolved, Goto, contextVars, clientVars
  <2>2. PlanLock'
    BY <1>0, <1>1, <2>1 DEF PlanLock, InPlan
  <2>3. \A d \in Calls : pc'[d] # "loaded"
    BY <1>0, <1>1, <2>1 DEF InPlan
  <2>4. EpochsOK'
    BY <1>0, <2>1, <2>3 DEF EpochInv, EpochsOK, Names, NoEpoch
  <2> QED
    BY <2>2, <2>4 DEF EpochInv
<1>4. CASE PlanLoads(c)
  <2>1. /\ UNCHANGED <<inst, gpu, planned, cmdEpoch>>
        /\ buffer' = planned[p] /\ epoch' = epoch + 1
        /\ job' = [job EXCEPT ![c].epoch = epoch']
        /\ pc[c] = "solved" /\ pc' = [pc EXCEPT ![c] = "loaded"]
    BY <1>4 DEF PlanLoads, SetCommand, Goto, clientVars, solverVars
  <2>2. job'[c].epoch = epoch' /\ job'[c].on = p
    BY <1>0, <2>1 DEF JobRecord
  <2>3. PlanLock'
    BY <1>0, <1>1, <2>1 DEF PlanLock, InPlan
  <2>4. \A d \in Calls : pc'[d] = "loaded" => d = c
    BY <1>0, <1>1, <2>1 DEF InPlan
  <2>5. EpochsOK'
    <3> HIDE DEF p
    <3> QED
      BY <1>0, <2>1, <2>2, <2>4 DEF EpochInv, EpochsOK, Names, NoEpoch
  <2> QED
    BY <2>3, <2>5 DEF EpochInv
<1>5. CASE PlanDone(c)
  <2>1. /\ UNCHANGED <<inst, epoch, buffer, planned, job>>
        /\ cmdEpoch' = [cmdEpoch EXCEPT ![p] = job[c].epoch]
        /\ pc[c] = "loaded"
        /\ \E at \in {"ready", "store", "done"} : Goto(c, at)
    BY <1>5, PlannerAssumption
       DEF PlanDone, contextVars, clientVars, Calls, PlannerAssumption
  <2>2. PlanLock'
    BY <1>0, <1>1, <1>5, <2>1 DEF PlanDone, Unlock, Goto, PlanLock, InPlan
  <2>3. EpochsOK'
    BY <1>0, <2>1 DEF EpochInv, EpochsOK, Names, Goto
  <2> QED
    BY <2>2, <2>3 DEF EpochInv
<1> QED
  BY <1>2, <1>3, <1>4, <1>5 DEF PlanStep

LEMMA EpochStep ==
  ASSUME PlannerAssumption, UseCudaGraph = TRUE, Typed, EpochInv, [Next]_vars
  PROVE  EpochInv'
<1>1. Executes \subseteq Calls /\ Previews \subseteq Calls /\ Batches \subseteq Calls
  BY DEF Calls
<1> DEFINE still == inst' = inst /\ epoch' = epoch /\ buffer' \in {buffer, Nothing}
<1>2. ASSUME UNCHANGED <<pc, job, solverVars>>, still \/ inst' = inst + 1
      PROVE  EpochInv'
  BY <1>2, OutsideKeepsEpochs DEF OutsidePlans, solverVars
<1>3. ASSUME UNCHANGED contextVars \/ StopRobot PROVE still
  BY <1>3 DEF contextVars, clientVars, StopRobot, CancelAction
<1>4. ASSUME NEW c \in Calls, Resolve(c, "setup") \/ Resolve(c, "plan")
      PROVE  EpochInv'
  <2>1. /\ \E at \in {"setup", "plan"} : Goto(c, at)
        /\ \A d \in Calls \ {c} : job'[d] = job[d]
        /\ UNCHANGED <<cmdEpoch, planned, gpu>> /\ still
    BY <1>4 DEF Resolve, Typed, TypeOK, contextVars, clientVars, solverVars
  <2> QED
    BY <2>1, GotoOutside, OutsideKeepsEpochs
<1>5. ASSUME NEW c \in Executes, GoalCallback(c) \/ ExecuteStep(c)
      PROVE  EpochInv'
  <2>1. CASE ExecuteStart(c)
    BY <1>1, <1>4, <2>1 DEF ExecuteStart
  <2>2. CASE GoalCallback(c) \/ (ExecuteStep(c) /\ ~ExecuteStart(c))
    <3>1. /\ \E at \in {"rejected", "admitted", "ready", "plan", "sending",
                        "failing", "running", "stopping", "exiting",
                        "succeeding", "ending", "done"} : Goto(c, at)
          /\ \A d \in Calls \ {c} : job'[d] = job[d]
          /\ UNCHANGED <<cmdEpoch, planned, gpu>> /\ still
      <4>1. CASE ExecuteSend(c)
        BY <1>3, <2>2, <4>1
           DEF ExecuteSend, SendTrajectory, SendTrajectoryRaises, SendBuffer,
               SendLost, SendGoal, SendUnavailable, Typed, TypeOK
      <4>2. CASE ExecuteBegin(c)
        BY <1>3, <4>2 DEF ExecuteBegin, Typed, TypeOK, solverVars
      <4>3. CASE \/ GoalCallback(c) \/ ReusePending(c) \/ DeclinePending(c)
                 \/ SeesComplete(c) \/ ExitCancelled(c) \/ ExitCompleted(c)
                 \/ StopAfterFailure(c) \/ Report(c) \/ FreeSlot(c)
        BY <1>3, <4>3
           DEF GoalCallback, ReusePending, DeclinePending, SeesComplete,
               ExitCancelled, ExitCompleted, StopAfterFailure, Report,
               FreeSlot, solverVars
      <4> QED
        BY <2>2, <4>1, <4>2, <4>3 DEF ExecuteStep
    <3> QED
      BY <1>1, <3>1, GotoOutside, OutsideKeepsEpochs
  <2> QED
    BY <1>5, <2>1, <2>2
<1>6. CASE \E c \in Executes : CancelStep(c)
  BY <1>2, <1>3, <1>6 DEF CancelStep, CancelStops, CancelFlags, CancelMarks
<1>7. ASSUME NEW c \in Calls, PreviewStart(c) \/ BatchStart(c) PROVE EpochInv'
  BY <1>4, <1>7 DEF PreviewStart, BatchStart
<1>8. ASSUME NEW c \in Calls, StorePending(c) \/ Refuse(c) PROVE EpochInv'
  <2>1. /\ \E at \in {"done", "ending"} : Goto(c, at)
        /\ UNCHANGED <<job, cmdEpoch, planned, gpu>> /\ still
    BY <1>3, <1>8 DEF StorePending, Refuse, GiveUp, solverVars
  <2> QED
    BY <2>1, GotoOutside, OutsideKeepsEpochs
<1>9. CASE SwitchStrategy
  BY <1>2, <1>9 DEF SwitchStrategy, SetRobotStrategy, ReplaceClient, callVars
<1>10. CASE \/ ClearTrajectory \/ \E p \in Planners : SetPlannerCheck(p)
            \/ SetPlannerObject \/ SetPlannerType
  BY <1>2, <1>3, <1>10 DEF ClearTrajectory, SetPlannerCheck, SetPlannerObject,
                           SetPlannerType, callVars
<1>11. CASE \E g \in GoalIds : ContextStep(g) \/ FeedbackStep(g)
  <2>1. still
    BY <1>11 DEF ContextStep, FeedbackStep, ControllerMoves, MessageArrives,
                 Accept, Reject, Finish, HonourCancel, ResponseArrives,
                 ResponseApplied, ResultArrives, ResultApplied, Feedback
  <2> QED
    BY <1>2, <1>11, <2>1 DEF ContextStep, FeedbackStep, callVars
<1>12. CASE UNCHANGED vars
  BY <1>2, <1>3, <1>12 DEF vars, callVars
<1> QED
  BY <1>1, <1>5, <1>6, <1>7, <1>8, <1>9, <1>10, <1>11, <1>12, PlanKeepsEpochs
     DEF Next

(* A planner object whose epoch is that of the buffers finds its own       *)
(* trajectory there, or nothing, as long as the strategy object stays:     *)
(* what _plan_lock is for, in the configuration with CUDA graphs.          *)
THEOREM EpochNames ==
  ASSUME UseCudaGraph = TRUE PROVE Spec => []EpochNamesPlan
<1> DEFINE I == SlotInv /\ Typed /\ EpochInv
<1>1. Init => I
  <2> SUFFICES ASSUME Init PROVE I
    OBVIOUS
  <2>1. EpochInv
    BY DEF Init, ContextInit, ClientInit, EpochInv, PlanLock, InPlan, EpochsOK,
           Names, NoEpoch
  <2> QED
    BY <2>1, SlotInvInit, TypedInit, PlannerAssumption, ContextAssumption
<1>2. I /\ [Next]_vars => I'
  BY SlotInvStep, TypedStep, EpochStep, PlannerAssumption
<1>3. I => EpochNamesPlan
  BY DEF EpochInv, EpochsOK, Names, EpochNamesPlan
<1> QED
  BY <1>1, <1>2, <1>3, PTL DEF Spec

-----------------------------------------------------------------------------
(* The callbacks move no goal; the controller moves no tag.                *)
LEMMA CallbackFrame ==
  ASSUME ClientTypeOK, NEW g \in GoalIds,
         \/ ResponseArrives(g) \/ ResponseApplied(g)
         \/ ResultArrives(g) \/ ResultApplied(g)
  PROVE  /\ UNCHANGED <<inst, seq, sends, raced, reached>>
         /\ \A h \in GoalIds : /\ goals'[h].owner = goals[h].owner
                               /\ goals'[h].tag = goals[h].tag
                               /\ goals'[h].status = goals[h].status
<1> USE DEF ClientTypeOK, GoalRecord
<1>1. CASE ResponseArrives(g)
  BY <1>1 DEF ResponseArrives
<1>2. CASE ResponseApplied(g)
  <2>1. UNCHANGED <<inst, seq, sends, raced, reached>>
    BY <1>2 DEF ResponseApplied
  <2>2. ASSUME NEW h \in GoalIds
        PROVE  /\ goals'[h].owner = goals[h].owner
               /\ goals'[h].tag = goals[h].tag
               /\ goals'[h].status = goals[h].status
    <3>1. CASE goals[g].status = "rejected"
      <4>1. goals' = [goals EXCEPT ![g].response = "handled"]
        BY <1>2, <3>1 DEF ResponseApplied
      <4> QED
        BY <4>1
    <3>2. CASE goals[g].status # "rejected"
      <4>1. goals' = [goals EXCEPT ![g] = [@ EXCEPT !.response = "handled",
                                                   !.outcome = "awaited"]]
        BY <1>2, <3>2 DEF ResponseApplied
      <4> QED
        BY <4>1
    <3> QED
      BY <3>1, <3>2
  <2> QED
    BY <2>1, <2>2
<1>3. CASE ResultArrives(g)
  BY <1>3 DEF ResultArrives
<1>4. CASE ResultApplied(g)
  BY <1>4 DEF ResultApplied
<1> QED
  BY <1>1, <1>2, <1>3, <1>4

(* A goal the controller is through with.                                  *)
Over == Ended \cup {"rejected"}

LEMMA ControllerFrame ==
  ASSUME ClientTypeOK, NEW g \in GoalIds,
         \/ Accept(g) \/ Reject(g)
         \/ \E v \in Verdicts : Finish(g, v)
         \/ HonourCancel(g)
  PROVE  /\ UNCHANGED <<inst, seq, sends, handle, result, progress, raced,
                        reached>>
         /\ \A h \in GoalIds : /\ goals'[h].owner = goals[h].owner
                               /\ goals'[h].tag = goals[h].tag
                               /\ goals[h].status = "succeeded" =>
                                    goals'[h].status = "succeeded"
                               /\ goals[h].status \in Over =>
                                    goals'[h].status \in Over
<1> USE ClientAssumption
    DEF ClientTypeOK, GoalRecord, Over, Ended, ClientAssumption
<1>1. CASE Accept(g)
  BY <1>1 DEF Accept
<1>2. CASE Reject(g)
  BY <1>2 DEF Reject
<1>3. CASE \E v \in Verdicts : Finish(g, v)
  BY <1>3 DEF Finish
<1>4. CASE HonourCancel(g)
  BY <1>4 DEF HonourCancel
<1> QED
  BY <1>1, <1>2, <1>3, <1>4

(* Of the goals the installed object sent, only the last one can be the    *)
(* active send.  A full progression comes with a result, or with Feedback  *)
(* of the last goal.                                                       *)
LastOK ==
  /\ \A g \in GoalIds : Current(g) => g = sends
  /\ progress = "full" /\ result = "none" => sends \in reached

LEMMA LastStep ==
  ASSUME ClientTypeOK, TrackingInv, LastOK, [ClientStep]_clientVars
  PROVE  LastOK'
<1> USE DEF LastOK
<1>0. /\ inst \in Nat \ {0} /\ seq \in Nat /\ sends \in Nat
      /\ \A g \in GoalIds : goals[g].owner \in Nat /\ goals[g].tag \in Nat
  BY GoalFields DEF ClientTypeOK
<1>1. CASE SendGoal
  <2>1. /\ progress' = "none" /\ inst' = inst /\ seq' = seq + 1
        /\ sends' = sends + 1
        /\ \A g \in GoalIds : g # sends + 1 => goals'[g] = goals[g]
    BY <1>0, <1>1 DEF SendGoal, ClientTypeOK
  <2>2. \A g \in GoalIds : goals[g].owner = inst => goals[g].tag <= seq
    BY DEF TrackingInv, TagsOK
  <2> QED
    BY <1>0, <2>1, <2>2 DEF Current
<1>2. CASE SendUnavailable \/ CancelAction
  <2>1. /\ inst' = inst /\ seq' = seq + 1 /\ goals' = goals
        /\ result' = "failed"
    BY <1>2 DEF SendUnavailable, CancelAction
  <2>2. \A g \in GoalIds : goals[g].owner = inst => goals[g].tag <= seq
    BY DEF TrackingInv, TagsOK
  <2> QED
    BY <1>0, <2>1, <2>2 DEF Current
<1>3. CASE ReplaceClient
  <2>1. \A g \in GoalIds : goals[g].owner <= inst
    BY DEF TrackingInv, TagsOK
  <2> QED
    BY <1>0, <1>3, <2>1 DEF ReplaceClient, Current
<1>4. ASSUME NEW g \in GoalIds, ResponseArrives(g) \/ ResponseApplied(g)
      PROVE  LastOK'
  <2>1. progress' = progress /\ result' \in {result, "failed"}
    BY <1>4 DEF ResponseArrives, ResponseApplied
  <2> QED
    BY <1>4, <2>1, CallbackFrame DEF Current
<1>5. ASSUME NEW g \in GoalIds, ResultArrives(g) \/ ResultApplied(g)
      PROVE  LastOK'
  <2>1. \/ UNCHANGED <<progress, result>>
        \/ result' \in {"succeeded", "failed"}
    BY <1>5 DEF ResultArrives, ResultApplied
  <2> QED
    BY <1>5, <2>1, CallbackFrame DEF Current
<1>6. ASSUME NEW g \in GoalIds, NEW f \in Fractions, Feedback(g, f)
      PROVE  LastOK'
  BY <1>6 DEF Feedback, Current
<1>7. CASE Controller
  BY <1>7, ControllerFrame DEF Controller, Current
<1>8. CASE UNCHANGED clientVars
  BY <1>8 DEF clientVars, Current
<1> QED
  BY <1>1, <1>2, <1>3, <1>4, <1>5, <1>6, <1>7, <1>8 DEF ClientStep, Callbacks

(* A goal that succeeded stays succeeded, one that is over stays over,     *)
(* what was reached stays reached, and what raced stays raced.             *)
PastStays ==
  /\ raced => raced'
  /\ reached \subseteq reached'
  /\ \A g \in GoalIds :
       /\ goals[g].status = "succeeded" => goals'[g].status = "succeeded"
       /\ goals[g].status \in Over => goals'[g].status \in Over

LEMMA SuccessStays ==
  ASSUME ClientTypeOK, TrackingInv, [ClientStep]_clientVars
  PROVE  PastStays
<1>1. CASE SendGoal
  <2>1. /\ raced => raced'
        /\ reached' = reached
        /\ \A g \in GoalIds : g # sends + 1 => goals'[g] = goals[g]
    BY <1>1 DEF SendGoal, Overtakes, ClientTypeOK
  <2>2. \A g \in GoalIds : g = sends + 1 => goals[g].status = "unsent"
    BY DEF TrackingInv, TagsOK, ClientTypeOK
  <2> QED
    BY <2>1, <2>2 DEF PastStays, Over, Ended
<1>2. CASE SendUnavailable \/ CancelAction \/ ReplaceClient
  <2>1. goals' = goals /\ reached' = reached
    BY <1>2 DEF SendUnavailable, CancelAction, ReplaceClient
  <2>2. raced' = raced \/ raced' = Overtakes
    BY <1>2 DEF SendUnavailable, CancelAction, ReplaceClient
  <2>3. raced => raced'
    BY <2>2 DEF Overtakes
  <2> QED
    BY <2>1, <2>3 DEF PastStays
<1>3. CASE Callbacks
  BY <1>3, CallbackFrame DEF Callbacks, Feedback, PastStays
<1>4. CASE Controller
  BY <1>4, ControllerFrame DEF Controller, PastStays
<1>5. CASE UNCHANGED clientVars
  BY <1>5 DEF clientVars, PastStays
<1> QED
  BY <1>1, <1>2, <1>3, <1>4, <1>5 DEF ClientStep

-----------------------------------------------------------------------------
(* A step is one of an execution call's own, or leaves the call where it   *)
(* is; then a goal is sent by another call at most while this one is not   *)
(* in the slot.                                                            *)
OwnStep(c) == GoalCallback(c) \/ ExecuteStep(c) \/ PlanStep(c) \/ Refuse(c)

LeftAlone(c) ==
  /\ pc'[c] = pc[c] /\ job'[c] = job[c] /\ verdict'[c] = verdict[c]
  /\ \/ sends' = sends
     \/ /\ ~InSlot(c)
        /\ \E d \in Executes \ {c} : ExecuteSend(d)

LEMMA OthersLeaveAlone ==
  ASSUME PlannerAssumption, SlotInv, Typed, [Next]_vars, NEW c \in Executes
  PROVE  OwnStep(c) \/ LeftAlone(c)
<1>0. /\ Executes \subseteq Calls /\ Previews \subseteq Calls
      /\ Batches \subseteq Calls /\ c \notin Previews \cup Batches
  BY DEF Calls, PlannerAssumption
<1> USE DEF Typed, TypeOK
<1>1. ASSUME UNCHANGED <<pc, job, verdict, sends>> PROVE LeftAlone(c)
  BY <1>1 DEF LeftAlone
<1>2. ASSUME UNCHANGED contextVars \/ StopRobot PROVE sends' = sends
  BY <1>2 DEF contextVars, clientVars, StopRobot, CancelAction
<1>3. ASSUME NEW d \in Calls \ {c}, NEW at, Goto(d, at), sends' = sends,
             job' = job \/ \E new : job' = [job EXCEPT ![d] = new],
             verdict' = verdict \/ \E v : verdict' = [verdict EXCEPT ![d] = v]
      PROVE  LeftAlone(c)
  BY <1>0, <1>3 DEF LeftAlone, Goto
<1>4. ASSUME NEW d \in Calls \ {c}, NEW at, Resolve(d, at) PROVE LeftAlone(c)
  BY <1>2, <1>3, <1>4 DEF Resolve
<1>5. ASSUME NEW d \in Executes \ {c}, GoalCallback(d) \/ ExecuteStep(d)
      PROVE  LeftAlone(c)
  <2>1. CASE ExecuteStart(d)
    BY <1>0, <1>4, <2>1 DEF ExecuteStart
  <2>2. CASE ExecuteBegin(d)
    <3>1. /\ \E at : Goto(d, at)
          /\ job' = job \/ \E new : job' = [job EXCEPT ![d] = new]
          /\ verdict' = verdict /\ sends' = sends
      BY <1>2, <2>2 DEF ExecuteBegin
    <3> QED
      BY <1>0, <1>3, <3>1
  <2>3. CASE ExecuteSend(d)
    <3>1. /\ \E at : pc' = [pc EXCEPT ![d] = at]
          /\ job' = job \/ \E new : job' = [job EXCEPT ![d].goal = new]
          /\ verdict' = verdict
      BY <2>3 DEF ExecuteSend, Goto
    <3>2. InSlot(d)
      BY <2>3 DEF ExecuteSend, InSlot
    <3>3. ~InSlot(c)
      BY <3>2 DEF SlotInv, AtMostOneExecution
    <3> QED
      BY <1>0, <2>3, <3>1, <3>3 DEF LeftAlone
  <2>4. CASE \/ GoalCallback(d) \/ ReusePending(d) \/ DeclinePending(d)
             \/ SeesComplete(d) \/ ExitCancelled(d) \/ ExitCompleted(d)
             \/ StopAfterFailure(d) \/ Report(d) \/ FreeSlot(d)
    <3>1. /\ \E at : Goto(d, at)
          /\ job' = job
          /\ verdict' = verdict \/ \E v : verdict' = [verdict EXCEPT ![d] = v]
          /\ sends' = sends
      BY <1>2, <2>4
         DEF GoalCallback, ReusePending, DeclinePending, SeesComplete,
             ExitCancelled, ExitCompleted, StopAfterFailure, Report, FreeSlot
    <3> QED
      BY <1>0, <1>3, <3>1
  <2> QED
    BY <1>5, <2>1, <2>2, <2>3, <2>4 DEF ExecuteStep
<1>6. CASE \E d \in Executes : CancelStep(d)
  BY <1>1, <1>2, <1>6 DEF CancelStep, CancelStops, CancelFlags, CancelMarks
<1>7. ASSUME NEW d \in Calls \ {c},
             PreviewStart(d) \/ BatchStart(d) \/ StorePending(d)
      PROVE  LeftAlone(c)
  <2>1. CASE PreviewStart(d) \/ BatchStart(d)
    BY <1>4, <2>1 DEF PreviewStart, BatchStart
  <2>2. CASE StorePending(d)
    BY <1>2, <1>3, <2>2 DEF StorePending
  <2> QED
    BY <1>7, <2>1, <2>2
<1>8. ASSUME NEW d \in Calls \ {c}, PlanStep(d) \/ Refuse(d)
      PROVE  LeftAlone(c)
  <2>1. CASE PlanLoads(d)
    <3>1. /\ Goto(d, "loaded") /\ verdict' = verdict /\ sends' = sends
          /\ \E e : job' = [job EXCEPT ![d].epoch = e]
      BY <2>1 DEF PlanLoads, SetCommand, clientVars
    <3> QED
      BY <1>0, <3>1 DEF LeftAlone, Goto
  <2>2. CASE PlanBegin(d) \/ PlanFails(d) \/ PlanSolved(d) \/ PlanDone(d)
             \/ Refuse(d)
    <3>1. /\ \E at : Goto(d, at)
          /\ job' = job
          /\ verdict' = verdict \/ \E v : verdict' = [verdict EXCEPT ![d] = v]
          /\ sends' = sends
      BY <1>2, <2>2 DEF PlanBegin, PlanFails, PlanSolved, PlanDone, Refuse,
                        GiveUp
    <3> QED
      BY <1>3, <3>1
  <2> QED
    BY <1>8, <2>1, <2>2 DEF PlanStep
<1>9. CASE \/ ClearTrajectory \/ \E p \in Planners : SetPlannerCheck(p)
           \/ SetPlannerObject \/ SetPlannerType \/ SwitchStrategy
  BY <1>1, <1>2, <1>9 DEF ClearTrajectory, SetPlannerCheck, SetPlannerObject,
       SetPlannerType, SwitchStrategy, SetRobotStrategy, ReplaceClient, callVars
<1>10. CASE \E g \in GoalIds : ContextStep(g) \/ FeedbackStep(g)
  <2>1. sends' = sends
    BY <1>10 DEF ContextStep, FeedbackStep, ControllerMoves, MessageArrives,
                 Accept, Reject, Finish, HonourCancel, ResponseArrives,
                 ResponseApplied, ResultArrives, ResultApplied, Feedback
  <2> QED
    BY <1>1, <1>10, <2>1 DEF ContextStep, FeedbackStep, callVars
<1>11. CASE UNCHANGED vars
  BY <1>1, <1>2, <1>11 DEF vars, callVars
<1> QED
  BY <1>0, <1>5, <1>6, <1>7, <1>8, <1>9, <1>10, <1>11 DEF Next, OwnStep

-----------------------------------------------------------------------------
(* A call that waits for its trajectory waits for the last goal that was   *)
(* sent, and what it goes on to call a success is one.                     *)
Earned(g) == goals[g].status = "succeeded" \/ g \in reached

EarnedAt(c) ==
  /\ pc[c] \in {"running", "exiting", "succeeding"} =>
       job[c].goal = sends /\ sends \in GoalIds
  /\ ~raced /\ pc[c] \in {"exiting", "succeeding"} => Earned(job[c].goal)
  /\ verdict[c] = "succeeded" =>
       /\ pc[c] \in {"ending", "done"} /\ job[c].goal \in GoalIds
       /\ ~raced => Earned(job[c].goal)

EarnedInv == LastOK /\ \A c \in Executes : EarnedAt(c)

LEMMA EarnedStays ==
  ASSUME PastStays, NEW g \in GoalIds, Earned(g) PROVE Earned(g)'
BY DEF PastStays, Earned

(* A completed progression is the last goal's.                             *)
LEMMA CompleteIsEarned ==
  ASSUME Typed, TrackingInv, LastOK, Progression = 1, ~raced
  PROVE  Earned(sends)
<1>1. \/ result = "succeeded"
      \/ result = "none" /\ progress = "full"
  BY DEF Typed, TypeOK, ContextTypeOK, ClientTypeOK, Progression
<1>2. CASE result = "succeeded"
  <2>1. PICK g \in GoalIds : Current(g) /\ goals[g].status = "succeeded"
    BY <1>2 DEF TrackingInv, TrackingIsCurrent
  <2> QED
    BY <2>1 DEF LastOK, Earned
<1>3. CASE result = "none" /\ progress = "full"
  BY <1>3 DEF LastOK, Earned
<1> QED
  BY <1>1, <1>2, <1>3

LEMMA OwnStepEarns ==
  ASSUME PlannerAssumption, Typed, TrackingInv, EarnedInv,
         NEW c \in Executes, [Next]_vars, OwnStep(c)
  PROVE  EarnedAt(c)'
<1>0. /\ c \in Calls /\ EarnedAt(c) /\ LastOK
      /\ pc \in [Calls -> PcValues] /\ job \in [Calls -> JobRecord]
      /\ verdict \in [Executes ->
                      {"none", "succeeded", "aborted", "canceled"}]
      /\ raced => raced'
      /\ \A g \in GoalIds : Earned(g) => Earned(g)'
  BY PlannerStepDrives, SuccessStays, EarnedStays
     DEF Typed, TypeOK, ContextTypeOK, Calls, EarnedInv, PastStays
<1>1. ASSUME NEW at \in PcValues \ {"running", "exiting", "succeeding"},
             Goto(c, at), pc[c] \notin {"ending", "done"},
             \/ verdict' = verdict
             \/ verdict' = [verdict EXCEPT ![c] = "aborted"]
      PROVE  EarnedAt(c)'
  BY <1>0, <1>1 DEF EarnedAt, Goto
<1>2. CASE GoalCallback(c) \/ PlanStep(c) \/ Refuse(c)
  <2>1. /\ \E at \in {"rejected", "admitted", "solving", "solved", "loaded",
                      "ready", "store", "ending", "done"} : Goto(c, at)
        /\ pc[c] \notin {"ending", "done"}
        /\ \/ verdict' = verdict
           \/ verdict' = [verdict EXCEPT ![c] = "aborted"]
    BY <1>2 DEF GoalCallback, PlanStep, PlanBegin, PlanFails, PlanSolved,
                PlanLoads, PlanDone, Refuse, GiveUp
  <2> QED
    BY <1>1, <2>1 DEF PcValues
<1>3. CASE ExecuteStep(c)
  <2>1. CASE \/ ExecuteStart(c) \/ ReusePending(c) \/ DeclinePending(c)
             \/ ExecuteBegin(c) \/ ExitCancelled(c) \/ StopAfterFailure(c)
    <3>1. /\ \E at \in {"setup", "ready", "plan", "failing", "sending"} :
               Goto(c, at)
          /\ pc[c] \notin {"ending", "done"} /\ verdict' = verdict
      BY <2>1 DEF ExecuteStart, Resolve, ReusePending, DeclinePending,
                  ExecuteBegin, ExitCancelled, StopAfterFailure
    <3> QED
      BY <1>1, <3>1 DEF PcValues
  <2>2. CASE ExecuteSend(c)
    <3>1. CASE /\ SendTrajectory(job[c].epoch, Wanted(c))
               /\ job' = [job EXCEPT ![c].goal = sends + 1,
                                     ![c].own = (own = c)]
               /\ Goto(c, "running")
      <4>1. /\ sends' = sends + 1 /\ sends + 1 \in GoalIds
            /\ pc[c] = "sending" /\ verdict' = verdict
        BY <2>2, <3>1, ClientAssumption
           DEF ExecuteSend, SendTrajectory, SendBuffer, SendGoal, Typed,
               TypeOK, ContextTypeOK, ClientTypeOK, GoalIds, ClientAssumption
      <4>2. job'[c].goal = sends + 1 /\ pc'[c] = "running"
        BY <1>0, <3>1 DEF Goto, JobRecord
      <4> QED
        BY <1>0, <4>1, <4>2 DEF EarnedAt
    <3>2. CASE Goto(c, "stopping") \/ Goto(c, "failing")
      <4>1. verdict' = verdict /\ pc[c] = "sending"
        BY <2>2 DEF ExecuteSend
      <4> QED
        BY <1>1, <3>2, <4>1 DEF PcValues
    <3> QED
      BY <2>2, <3>1, <3>2 DEF ExecuteSend
  <2>3. CASE SeesComplete(c)
    <3>1. /\ pc[c] = "running" /\ pc' = [pc EXCEPT ![c] = "exiting"]
          /\ UNCHANGED <<job, verdict, sends, goals, raced, reached>>
          /\ Progression = 1
      BY <2>3 DEF SeesComplete, Goto, contextVars, clientVars
    <3>2. ~raced => Earned(sends)
      BY <1>0, <3>1, CompleteIsEarned
    <3> QED
      BY <1>0, <3>1, <3>2 DEF EarnedAt
  <2>4. CASE ExitCompleted(c)
    <3>1. /\ pc[c] = "exiting"
          /\ \E at \in {"stopping", "succeeding"} : pc' = [pc EXCEPT ![c] = at]
          /\ UNCHANGED <<job, verdict, sends, goals, raced, reached>>
      BY <2>4 DEF ExitCompleted, Goto, contextVars, clientVars
    <3> QED
      BY <1>0, <3>1 DEF EarnedAt
  <2>5. CASE Report(c)
    <3>1. /\ pc[c] \in {"succeeding", "failing"}
          /\ pc' = [pc EXCEPT ![c] = "ending"]
          /\ UNCHANGED <<job, sends, goals, raced, reached>>
          /\ \E v \in {"canceled", "aborted", "succeeded"} :
               /\ verdict' = [verdict EXCEPT ![c] = v]
               /\ v = "succeeded" => pc[c] = "succeeding"
      BY <2>5 DEF Report, Goto, contextVars, clientVars
    <3> QED
      BY <1>0, <3>1 DEF EarnedAt
  <2>6. CASE FreeSlot(c)
    <3>1. /\ pc[c] = "ending" /\ pc' = [pc EXCEPT ![c] = "done"]
          /\ UNCHANGED <<job, verdict, sends, goals, raced, reached>>
      BY <2>6 DEF FreeSlot, Goto, contextVars, clientVars
    <3> QED
      BY <1>0, <3>1 DEF EarnedAt
  <2> QED
    BY <1>3, <2>1, <2>2, <2>3, <2>4, <2>5, <2>6 DEF ExecuteStep
<1> QED
  BY <1>2, <1>3 DEF OwnStep

LEMMA EarnedStep ==
  ASSUME PlannerAssumption, SlotInv, Typed, TrackingInv, EarnedInv, [Next]_vars
  PROVE  EarnedInv'
<1>0. ClientTypeOK /\ LastOK /\ [ClientStep]_clientVars
  BY PlannerStepDrives DEF Typed, TypeOK, ContextTypeOK, EarnedInv
<1>1. LastOK'
  BY <1>0, LastStep
<1>2. ASSUME NEW c \in Executes, LeftAlone(c) PROVE EarnedAt(c)'
  <2>1. /\ EarnedAt(c) /\ (raced => raced')
        /\ \A g \in GoalIds : Earned(g) => Earned(g)'
    BY <1>0, SuccessStays, EarnedStays DEF EarnedInv, PastStays
  <2>2. pc[c] \in {"running", "exiting", "succeeding"} => sends' = sends
    BY <1>2 DEF LeftAlone, InSlot
  <2> QED
    BY <1>2, <2>1, <2>2 DEF EarnedAt, LeftAlone
<1>3. ASSUME NEW c \in Executes PROVE EarnedAt(c)'
  BY <1>2, OthersLeaveAlone, OwnStepEarns
<1> QED
  BY <1>1, <1>3 DEF EarnedInv

LEMMA EarnedInit == ASSUME Init PROVE EarnedInv
BY DEF Init, ContextInit, ClientInit, Unsent, EarnedInv, EarnedAt, LastOK,
       Current, Calls, GoalIds

(* A goal the node calls succeeded had its trajectory completed by the     *)
(* controller, or reported reached at its stamped end, for any calls,      *)
(* surfaces, planners, cancels and controller, unless a command overtook a *)
(* callback.                                                               *)
THEOREM SuccessEarned == Spec => []SuccessIsEarned
<1> DEFINE I == SlotInv /\ Typed /\ TrackingInv /\ EarnedInv
<1>1. Init => I
  <2> SUFFICES ASSUME Init PROVE I
    OBVIOUS
  <2>1. EarnedInv
    BY EarnedInit
  <2> QED
    BY <2>1, SlotInvInit, TypedInit, TrackingInit, PlannerAssumption,
       ContextAssumption DEF Init, ContextInit
<1>2. I /\ [Next]_vars => I'
  <2> SUFFICES ASSUME I, [Next]_vars PROVE I'
    OBVIOUS
  <2>1. TrackingInv'
    BY PlannerStepDrives, TrackingStep DEF Typed, TypeOK, ContextTypeOK
  <2> QED
    BY <2>1, SlotInvStep, TypedStep, EarnedStep, PlannerAssumption
<1>3. I => SuccessIsEarned
  <2> SUFFICES ASSUME I, ~raced, NEW c \in Executes, verdict[c] = "succeeded"
               PROVE  job[c].goal \in GoalIds
                      /\ Earned(job[c].goal)
    BY DEF Earned, SuccessIsEarned, NoGoal, GoalIds
  <2> QED
    BY DEF EarnedInv, EarnedAt
<1> QED
  BY <1>1, <1>2, <1>3, PTL DEF Spec

-----------------------------------------------------------------------------
(* Goals leave, and are noted as sent, by the sends of execution calls.    *)
Sends(d) ==
  /\ ExecuteSend(d)
  /\ sends' = sends + 1
  /\ job' = [job EXCEPT ![d].goal = sends + 1, ![d].own = (own = d)]
  /\ sent' = [sent EXCEPT ![sends + 1] =
                [traj |-> buffer, intended |-> Wanted(d)]]

LEMMA SendStep ==
  ASSUME [Next]_vars
  PROVE  UNCHANGED <<sends, sent>> \/ \E d \in Executes : Sends(d)
<1> USE DEF contextVars, clientVars
<1>1. ASSUME StopRobot PROVE UNCHANGED <<sends, sent>>
  BY <1>1 DEF StopRobot, CancelAction
<1>2. ASSUME NEW c \in Executes, ExecuteSend(c)
      PROVE  UNCHANGED <<sends, sent>> \/ Sends(c)
  <2>1. CASE /\ SendTrajectory(job[c].epoch, Wanted(c))
             /\ job' = [job EXCEPT ![c].goal = sends + 1,
                                   ![c].own = (own = c)]
    BY <1>2, <2>1 DEF SendTrajectory, SendBuffer, SendGoal, Sends
  <2>2. CASE SendTrajectoryRaises(job[c].epoch)
    BY <2>2 DEF SendTrajectoryRaises, SendLost, SendUnavailable
  <2>3. CASE UNCHANGED contextVars
    BY <2>3
  <2> QED
    BY <1>2, <2>1, <2>2, <2>3 DEF ExecuteSend
<1>3. CASE \E c \in Executes : GoalCallback(c) \/ ExecuteStep(c)
  BY <1>1, <1>2, <1>3
     DEF GoalCallback, ExecuteStep, ExecuteStart, Resolve, ReusePending,
         DeclinePending, ExecuteBegin, SeesComplete, ExitCancelled,
         ExitCompleted, StopAfterFailure, Report, FreeSlot
<1>4. CASE \E c \in Executes : CancelStep(c)
  BY <1>1, <1>4 DEF CancelStep, CancelStops, CancelFlags, CancelMarks
<1>5. CASE \/ \E c \in Previews : PreviewStart(c) \/ StorePending(c)
           \/ \E c \in Batches : BatchStart(c)
  BY <1>5 DEF PreviewStart, BatchStart, Resolve, StorePending
<1>6. CASE \E c \in Calls : PlanStep(c) \/ Refuse(c)
  BY <1>6 DEF PlanStep, PlanBegin, PlanFails, PlanSolved, PlanLoads,
              SetCommand, PlanDone, Refuse
<1>7. CASE \/ ClearTrajectory \/ \E p \in Planners : SetPlannerCheck(p)
           \/ SetPlannerObject \/ SetPlannerType \/ SwitchStrategy
  BY <1>7 DEF ClearTrajectory, SetPlannerCheck, SetPlannerObject,
              SetPlannerType, SwitchStrategy, SetRobotStrategy, ReplaceClient
<1>8. CASE \E g \in GoalIds : ContextStep(g) \/ FeedbackStep(g)
  BY <1>8 DEF ContextStep, FeedbackStep, ControllerMoves, MessageArrives,
              Accept, Reject, Finish, HonourCancel, ResponseArrives,
              ResponseApplied, ResultArrives, ResultApplied, Feedback
<1>9. CASE UNCHANGED vars
  BY <1>9 DEF vars
<1> QED
  BY <1>3, <1>4, <1>5, <1>6, <1>7, <1>8, <1>9 DEF Next

-----------------------------------------------------------------------------
(* Some client has cancelled.                                              *)
SomeCancel == \E d \in Executes : cancel[d] # "none"

(* A planner object is told to cancel only by a client's cancel.           *)
FlagsOK == \A p \in Planners : cancelled[p] => SomeCancel

LEMMA CancelsStay ==
  ASSUME PlannerAssumption, Typed, FlagsOK, [Next]_vars
  PROVE  FlagsOK' /\ (SomeCancel => SomeCancel')
<1>0. /\ cancelled \in [Planners -> BOOLEAN]
      /\ cancel \in [Executes ->
                     {"none", "stopped", "flagged", "requested", "late"}]
  BY DEF Typed, TypeOK
<1>1. ASSUME UNCHANGED <<cancelled, cancel>>
      PROVE  FlagsOK' /\ (SomeCancel => SomeCancel')
  BY <1>1 DEF FlagsOK, SomeCancel
<1>2. ASSUME NEW c \in Executes, GoalCallback(c) \/ ExecuteStep(c)
      PROVE  FlagsOK' /\ (SomeCancel => SomeCancel')
  <2>1. CASE ExecuteBegin(c)
    <3>1. /\ cancel' = cancel
          /\ \/ cancelled' = cancelled
             \/ \E p : cancelled' = [cancelled EXCEPT ![p] = FALSE]
      BY <2>1 DEF ExecuteBegin
    <3> QED
      BY <1>0, <3>1 DEF FlagsOK, SomeCancel
  <2> QED
    BY <1>1, <1>2, <2>1
       DEF GoalCallback, ExecuteStep, ExecuteStart, Resolve, ReusePending,
           DeclinePending, ExecuteSend, SeesComplete, ExitCancelled,
           ExitCompleted, StopAfterFailure, Report, FreeSlot
<1>3. ASSUME NEW c \in Executes, CancelStep(c)
      PROVE  FlagsOK' /\ (SomeCancel => SomeCancel')
  <2>1. \E to \in {"stopped", "flagged", "requested", "late"} :
          cancel' = [cancel EXCEPT ![c] = to]
    BY <1>3 DEF CancelStep, CancelStops, CancelFlags, CancelMarks
  <2>2. cancel'[c] # "none"
    BY <1>0, <2>1
  <2> QED
    BY <2>2 DEF FlagsOK, SomeCancel
<1>4. CASE \/ \E c \in Previews : PreviewStart(c) \/ StorePending(c)
           \/ \E c \in Batches : BatchStart(c)
  BY <1>1, <1>4 DEF PreviewStart, BatchStart, Resolve, StorePending
<1>5. CASE \E c \in Calls : PlanStep(c) \/ Refuse(c)
  BY <1>1, <1>5 DEF PlanStep, PlanBegin, PlanFails, PlanSolved, PlanLoads,
                    PlanDone, Refuse
<1>6. CASE \/ ClearTrajectory \/ \E p \in Planners : SetPlannerCheck(p)
           \/ SetPlannerObject \/ SetPlannerType \/ SwitchStrategy
  BY <1>1, <1>6 DEF ClearTrajectory, SetPlannerCheck, SetPlannerObject,
                    SetPlannerType, SwitchStrategy, callVars
<1>7. CASE \E g \in GoalIds : ContextStep(g) \/ FeedbackStep(g)
  BY <1>1, <1>7 DEF ContextStep, FeedbackStep, callVars
<1>8. CASE UNCHANGED vars
  BY <1>1, <1>8 DEF vars, callVars
<1> QED
  BY <1>2, <1>3, <1>4, <1>5, <1>6, <1>7, <1>8 DEF Next

-----------------------------------------------------------------------------
(* What a call leaves behind when it no longer waits: a goal that is over, *)
(* was reported reached, or was given up to a cancel.                      *)
Left(c) ==
  \/ goals[job[c].goal].status \in Over
  \/ job[c].goal \in reached
  \/ verdict[c] # "succeeded" /\ SomeCancel

Before == {"idle", "rejected", "admitted", "setup", "plan", "solving",
           "solved", "loaded", "ready", "sending"}

After == {"stopping", "failing", "ending", "done"}

LeftAt(c) ==
  /\ pc[c] \in Before => job[c].goal = NoGoal
  /\ job[c].goal <= sends
  /\ ~raced /\ pc[c] \in After /\ job[c].goal # NoGoal => Left(c)

IdleInv ==
  /\ \A g \in GoalIds : g <= sends => \E c \in Executes : job[c].goal = g
  /\ \A c \in Executes : LeftAt(c)
  /\ FlagsOK

LEMMA LeftStays ==
  ASSUME PastStays, SomeCancel => SomeCancel', NEW c \in Executes,
         job[c].goal \in GoalIds, job'[c].goal = job[c].goal,
         verdict'[c] # "succeeded" \/ verdict'[c] = verdict[c], Left(c)
  PROVE  Left(c)'
BY DEF PastStays, Left

LEMMA OwnStepLeaves ==
  ASSUME PlannerAssumption, Typed, TrackingInv, EarnedInv, IdleInv,
         NEW c \in Executes, [Next]_vars, OwnStep(c)
  PROVE  LeftAt(c)' /\ (job[c].goal # NoGoal => job'[c].goal = job[c].goal)
<1>0. /\ c \in Calls /\ EarnedAt(c) /\ LeftAt(c)
      /\ pc \in [Calls -> PcValues] /\ job \in [Calls -> JobRecord]
      /\ verdict \in [Executes ->
                      {"none", "succeeded", "aborted", "canceled"}]
      /\ job[c].goal \in GoalIds \cup {NoGoal} /\ job[c].on \in Planners
      /\ sends \in Nat /\ sends' \in {sends, sends + 1}
  <2>1. sends' \in {sends, sends + 1}
    BY SendStep DEF Sends
  <2> QED
    BY <2>1, JobFields DEF Typed, TypeOK, ContextTypeOK, ClientTypeOK, Calls,
                           EarnedInv, IdleInv
<1>1. PastStays /\ (SomeCancel => SomeCancel')
  BY PlannerStepDrives, SuccessStays, CancelsStay
     DEF Typed, TypeOK, ContextTypeOK, IdleInv
<1>2. ASSUME pc[c] \in Before, job'[c].goal = job[c].goal \/ job'[c].goal = NoGoal
      PROVE  LeftAt(c)' /\ (job[c].goal # NoGoal => job'[c].goal = job[c].goal)
  <2>1. job[c].goal = NoGoal /\ job'[c].goal = NoGoal
    BY <1>0, <1>2 DEF LeftAt
  <2> QED
    BY <1>0, <2>1 DEF LeftAt, NoGoal
<1>3. ASSUME job' = job, pc'[c] \in {"exiting", "succeeding"}
      PROVE  LeftAt(c)'
  BY <1>0, <1>3 DEF LeftAt, Before, After, GoalIds, NoGoal
<1>4. ASSUME job' = job, pc'[c] \in After,
             ~raced /\ job[c].goal # NoGoal => Left(c)'
      PROVE  LeftAt(c)'
  BY <1>0, <1>1, <1>4 DEF LeftAt, Before, After, GoalIds, NoGoal, PastStays
<1>5. ASSUME ~raced, pc[c] \in After \/ Earned(job[c].goal),
             job[c].goal # NoGoal, job' = job,
             verdict'[c] # "succeeded" \/ verdict'[c] = verdict[c]
                                       \/ Earned(job[c].goal)
      PROVE  Left(c)'
  <2>1. CASE Earned(job[c].goal)
    BY <1>0, <1>1, <1>5, <2>1 DEF Earned, Left, PastStays, Over, Ended
  <2>2. CASE ~Earned(job[c].goal)
    BY <1>0, <1>1, <1>5, <2>2, LeftStays DEF LeftAt
  <2> QED
    BY <2>1, <2>2
<1>6. CASE GoalCallback(c) \/ PlanStep(c) \/ Refuse(c)
  <2>1. pc[c] \in Before
    BY <1>6 DEF GoalCallback, PlanStep, PlanBegin, PlanFails, PlanSolved,
                PlanLoads, PlanDone, Refuse, Before
  <2>2. job' = job \/ \E e : job' = [job EXCEPT ![c].epoch = e]
    BY <1>6 DEF GoalCallback, PlanStep, PlanBegin, PlanFails, PlanSolved,
                PlanLoads, PlanDone, Refuse
  <2>3. job'[c].goal = job[c].goal
    BY <1>0, <2>2 DEF JobRecord
  <2> QED
    BY <1>2, <2>1, <2>3
<1>7. CASE ExecuteStep(c)
  <2>1. CASE ExecuteStart(c)
    <3>1. /\ pc[c] \in Before
          /\ \E t \in Targets :
               job' = [job EXCEPT ![c] = [NoJob EXCEPT !.on = current,
                                          !.want = t, !.start = pose]]
      BY <2>1 DEF ExecuteStart, Resolve, Before
    <3>2. job'[c].goal = NoGoal
      BY <1>0, <3>1 DEF NoJob
    <3> QED
      BY <1>2, <3>1, <3>2
  <2>2. CASE ReusePending(c) \/ DeclinePending(c) \/ ExecuteBegin(c)
    <3>1. /\ pc[c] \in Before
          /\ job' = job \/ \E e : job' = [job EXCEPT ![c].epoch = e]
      BY <2>2 DEF ReusePending, DeclinePending, ExecuteBegin, Before
    <3>2. job'[c].goal = job[c].goal
      BY <1>0, <3>1 DEF JobRecord
    <3> QED
      BY <1>2, <3>1, <3>2
  <2>3. CASE ExecuteSend(c)
    <3>1. pc[c] \in Before
      BY <2>3 DEF ExecuteSend, Before
    <3>2. CASE job' = job
      BY <1>2, <3>1, <3>2
    <3>3. CASE job' # job
      <4>1. /\ job' = [job EXCEPT ![c].goal = sends + 1, ![c].own = (own = c)]
            /\ pc' = [pc EXCEPT ![c] = "running"] /\ sends' = sends + 1
        BY <2>3, <3>3 DEF ExecuteSend, SendTrajectory, SendBuffer, SendGoal,
                          Goto
      <4>2. job'[c].goal = sends' /\ pc'[c] = "running"
        BY <1>0, <4>1 DEF JobRecord
      <4>3. LeftAt(c)'
        BY <1>0, <4>2 DEF LeftAt, Before, After
      <4> QED
        BY <1>0, <3>1, <4>3 DEF LeftAt
    <3> QED
      BY <3>2, <3>3
  <2>4. CASE SeesComplete(c)
    <3>1. job' = job /\ pc'[c] = "exiting"
      BY <1>0, <2>4 DEF SeesComplete, Goto
    <3> QED
      BY <1>3, <3>1
  <2>5. CASE ExitCancelled(c)
    <3>1. /\ job' = job /\ pc'[c] = "failing" /\ verdict' = verdict
          /\ pc[c] \in {"running", "exiting"} /\ cancelled[job[c].on]
      BY <1>0, <2>5 DEF ExitCancelled, Goto
    <3>2. SomeCancel' /\ verdict'[c] # "succeeded"
      BY <1>0, <1>1, <3>1 DEF IdleInv, FlagsOK, EarnedAt
    <3> QED
      BY <1>4, <3>1, <3>2 DEF Left, After
  <2>6. CASE ExitCompleted(c)
    <3>1. /\ job' = job /\ verdict' = verdict /\ pc[c] = "exiting"
          /\ pc'[c] \in {"stopping", "succeeding"}
      BY <1>0, <2>6 DEF ExitCompleted, Goto
    <3>2. ~raced => Earned(job[c].goal)
      BY <1>0, <3>1 DEF EarnedAt
    <3> QED
      BY <1>3, <1>4, <1>5, <3>1, <3>2 DEF After
  <2>7. CASE StopAfterFailure(c) \/ FreeSlot(c)
    <3>1. /\ job' = job /\ verdict' = verdict /\ pc[c] \in After
          /\ pc'[c] \in After
      BY <1>0, <2>7 DEF StopAfterFailure, FreeSlot, Goto, After
    <3> QED
      BY <1>4, <1>5, <3>1
  <2>8. CASE Report(c)
    <3>1. /\ job' = job /\ pc[c] \in {"succeeding", "failing"}
          /\ pc'[c] = "ending"
          /\ pc[c] = "failing" => verdict'[c] # "succeeded"
      BY <1>0, <2>8 DEF Report, Goto
    <3>2. ~raced /\ pc[c] = "succeeding" => Earned(job[c].goal)
      BY <1>0 DEF EarnedAt
    <3> QED
      BY <1>4, <1>5, <3>1, <3>2 DEF After
  <2> QED
    BY <1>7, <2>1, <2>2, <2>3, <2>4, <2>5, <2>6, <2>7, <2>8 DEF ExecuteStep
<1> QED
  BY <1>6, <1>7 DEF OwnStep

LEMMA IdleStep ==
  ASSUME PlannerAssumption, SlotInv, Typed, TrackingInv, EarnedInv, IdleInv,
         [Next]_vars
  PROVE  IdleInv'
<1>0. /\ PastStays /\ FlagsOK' /\ (SomeCancel => SomeCancel')
      /\ sends \in Nat /\ sends' \in {sends, sends + 1}
  <2>1. ClientTypeOK /\ FlagsOK /\ [ClientStep]_clientVars
    BY PlannerStepDrives DEF Typed, TypeOK, ContextTypeOK, IdleInv
  <2>2. PastStays
    BY <2>1, SuccessStays
  <2>3. FlagsOK' /\ (SomeCancel => SomeCancel')
    BY <2>1, CancelsStay
  <2>4. sends \in Nat /\ sends' \in {sends, sends + 1}
    <3>1. sends \in Nat
      BY <2>1, ClientAssumption DEF ClientTypeOK
    <3>2. sends' = sends \/ sends' = sends + 1
      BY SendStep DEF Sends
    <3> QED
      BY <3>1, <3>2
  <2> QED
    BY <2>2, <2>3, <2>4
<1>1. ASSUME NEW c \in Executes
      PROVE  LeftAt(c)' /\ (job[c].goal # NoGoal => job'[c].goal = job[c].goal)
  <2>1. CASE LeftAlone(c)
    <3>1. /\ pc'[c] = pc[c] /\ job'[c] = job[c] /\ verdict'[c] = verdict[c]
          /\ LeftAt(c) /\ job[c].goal \in GoalIds \cup {NoGoal}
      BY <2>1, JobFields DEF LeftAlone, IdleInv, Typed, Calls
    <3>2. Left(c) /\ job[c].goal # NoGoal => Left(c)'
      BY <1>0, <3>1, LeftStays
    <3>3. job[c].goal \in Nat
      BY <3>1 DEF GoalIds, NoGoal
    <3> QED
      BY <1>0, <3>1, <3>2, <3>3 DEF LeftAt, PastStays
  <2> QED
    BY <2>1, OwnStepLeaves, OthersLeaveAlone
<1>2. ASSUME NEW g \in GoalIds, g <= sends'
      PROVE  \E c \in Executes : job'[c].goal = g
  <2>1. CASE g <= sends
    BY <1>1, <2>1 DEF IdleInv, GoalIds, NoGoal
  <2>2. CASE g = sends + 1 /\ sends' = sends + 1
    <3>1. PICK d \in Executes : Sends(d)
      BY <1>0, <2>2, SendStep
    <3>2. job'[d].goal = sends + 1
      BY <3>1 DEF Sends, Typed, TypeOK, JobRecord, Calls
    <3> QED
      BY <2>2, <3>2
  <2> QED
    BY <1>0, <1>2, <2>1, <2>2 DEF GoalIds
<1> QED
  BY <1>0, <1>1, <1>2 DEF IdleInv

(* Nobody commands the robot outside the slot, for any calls, surfaces,    *)
(* planners, cancels and controller: a trajectory that still goes when the *)
(* node is free was reported reached at its stamped end, or belongs to a   *)
(* call that a cancel ended, unless a command overtook a callback.         *)
THEOREM IdleFree == Spec => []IdleWhenFree
<1> DEFINE I == SlotInv /\ Typed /\ TrackingInv /\ EarnedInv /\ IdleInv
<1>1. Init => I
  <2> SUFFICES ASSUME Init PROVE I
    OBVIOUS
  <2>1. sends = 0 /\ \A c \in Executes : pc[c] = "idle" /\ job[c].goal = NoGoal
    BY DEF Init, ContextInit, ClientInit, NoJob, Calls
  <2>2. EarnedInv
    BY EarnedInit
  <2>3. IdleInv
    BY <2>1 DEF Init, IdleInv, LeftAt, After, FlagsOK, NoGoal, GoalIds
  <2> QED
    BY <2>2, <2>3, SlotInvInit, TypedInit, TrackingInit, PlannerAssumption,
       ContextAssumption DEF Init, ContextInit
<1>2. I /\ [Next]_vars => I'
  <2> SUFFICES ASSUME I, [Next]_vars PROVE I'
    OBVIOUS
  <2>1. TrackingInv'
    BY PlannerStepDrives, TrackingStep DEF Typed, TypeOK, ContextTypeOK
  <2> QED
    BY <2>1, SlotInvStep, TypedStep, EarnedStep, IdleStep, PlannerAssumption
<1>3. I => IdleWhenFree
  <2> SUFFICES ASSUME I, ~raced, ~goalActive, NEW g \in GoalIds,
                      goals[g].status \in {"requested", "executing"}
               PROVE  \/ g \in reached
                      \/ \E c, d \in Executes :
                           /\ job[c].goal = g /\ verdict[c] # "succeeded"
                           /\ cancel[d] # "none"
    BY DEF IdleWhenFree
  <2>1. g <= sends
    BY DEF TrackingInv, TagsOK, Typed, TypeOK, ContextTypeOK, ClientTypeOK,
           GoalIds
  <2>2. PICK c \in Executes : job[c].goal = g
    BY <2>1 DEF IdleInv
  <2>3. g # NoGoal
    BY DEF GoalIds, NoGoal
  <2>4. pc[c] = "done"
    BY <2>2, <2>3 DEF SlotInv, InSlot, IdleInv, LeftAt, Before
  <2>5. Left(c)
    BY <2>2, <2>3, <2>4 DEF IdleInv, LeftAt, After
  <2> QED
    BY <2>2, <2>5 DEF Left, Over, Ended, SomeCancel
<1> QED
  BY <1>1, <1>2, <1>3, PTL DEF Spec

-----------------------------------------------------------------------------
(* As long as a call's plan is the last one stored or loaded, the planner  *)
(* object and then the buffers hold it; what is noted as sent from it is   *)
(* what it asked for.                                                      *)
Early == {"idle", "rejected", "admitted", "setup", "plan", "solving"}

KeptAt(c) ==
  own = c =>
    /\ pc[c] \notin Early
    /\ pc[c] = "solved" => planned[job[c].on] = Wanted(c)
    /\ pc[c] \in {"loaded", "ready", "sending"} =>
         buffer \in {Wanted(c), Nothing}

MarkedAt(c) ==
  job[c].own =>
    /\ pc[c] \notin Before
    /\ job[c].goal \in GoalIds /\ job[c].goal <= sends
    /\ sent[job[c].goal].traj \in {Wanted(c), Nothing}

RequestedInv == \A c \in Executes : KeptAt(c) /\ MarkedAt(c)

(* What the others do to the plan a call still owns: they empty the        *)
(* buffers at most.                                                        *)
LEMMA OthersOnlyEmpty ==
  ASSUME PlannerAssumption, [Next]_vars, NEW c \in Executes, ~OwnStep(c),
         own' = c
  PROVE  own = c /\ planned' = planned /\ buffer' \in {buffer, Nothing}
<1> DEFINE P == own = c /\ planned' = planned /\ buffer' \in {buffer, Nothing}
<1>0. c \in Calls /\ c # Nothing
  BY DEF Calls, PlannerAssumption
<1>1. ASSUME UNCHANGED solverVars, UNCHANGED contextVars \/ StopRobot PROVE P
  BY <1>1 DEF solverVars, contextVars, StopRobot
<1>2. ASSUME NEW d \in Executes, GoalCallback(d) \/ ExecuteStep(d) PROVE P
  <2>1. ~ExecuteSend(d)
    BY <1>0 DEF ExecuteSend
  <2> QED
    BY <1>1, <1>2, <2>1
       DEF GoalCallback, ExecuteStep, ExecuteStart, Resolve, ReusePending,
           DeclinePending, ExecuteBegin, SeesComplete, ExitCancelled,
           ExitCompleted, StopAfterFailure, Report, FreeSlot
<1>3. CASE \E d \in Executes : CancelStep(d)
  BY <1>1, <1>3 DEF CancelStep, CancelStops, CancelFlags, CancelMarks
<1>4. CASE \/ \E d \in Previews : PreviewStart(d) \/ StorePending(d)
           \/ \E d \in Batches : BatchStart(d)
  BY <1>1, <1>4 DEF PreviewStart, BatchStart, Resolve, StorePending
<1>5. ASSUME NEW d \in Calls, PlanStep(d) \/ Refuse(d) PROVE P
  <2>1. d # c
    BY <1>5 DEF OwnStep
  <2>2. ~PlanSolved(d) /\ ~PlanLoads(d)
    BY <1>0, <2>1 DEF PlanSolved, PlanLoads
  <2>3. CASE PlanBegin(d) \/ PlanDone(d) \/ Refuse(d)
    BY <2>3 DEF PlanBegin, PlanDone, Refuse, contextVars, solverVars
  <2>4. CASE PlanFails(d)
    BY <1>0, <2>4 DEF PlanFails, contextVars
  <2> QED
    BY <1>5, <2>2, <2>3, <2>4 DEF PlanStep
<1>6. CASE \/ ClearTrajectory \/ \E p \in Planners : SetPlannerCheck(p)
           \/ SetPlannerObject \/ SetPlannerType \/ SwitchStrategy
  BY <1>6 DEF ClearTrajectory, SetPlannerCheck, SetPlannerObject,
       SetPlannerType, SwitchStrategy, SetRobotStrategy, contextVars, solverVars
<1>7. CASE \E g \in GoalIds : ContextStep(g) \/ FeedbackStep(g)
  BY <1>7 DEF ContextStep, FeedbackStep, solverVars
<1>8. CASE UNCHANGED vars
  BY <1>1, <1>8 DEF vars
<1> QED
  BY <1>2, <1>3, <1>4, <1>5, <1>6, <1>7, <1>8 DEF Next

(* The steps of a call but its send, by what they leave of its locals.     *)
LEMMA OwnStepLocals ==
  ASSUME Typed, NEW c \in Executes, OwnStep(c), ~ExecuteSend(c)
  PROVE  \/ pc'[c] = "setup" /\ ~job'[c].own /\ pc[c] \in Early /\ own' = own
         \/ /\ Wanted(c)' = Wanted(c) /\ job'[c].goal = job[c].goal
            /\ job'[c].own = job[c].own /\ job'[c].on = job[c].on
<1>0. /\ c \in Calls /\ pc \in [Calls -> PcValues]
      /\ job \in [Calls -> JobRecord]
  BY DEF Typed, TypeOK, Calls
<1>1. CASE ExecuteStart(c)
  <2>1. /\ pc[c] = "admitted" /\ pc' = [pc EXCEPT ![c] = "setup"] /\ own' = own
        /\ \E t \in Targets :
             job' = [job EXCEPT ![c] = [NoJob EXCEPT !.on = current,
                                          !.want = t, !.start = pose]]
    BY <1>1 DEF ExecuteStart, Resolve, Goto, solverVars
  <2> QED
    BY <1>0, <2>1 DEF NoJob, Early
<1>2. CASE job' = job
  BY <1>2 DEF Wanted
<1>3. CASE \E e : job' = [job EXCEPT ![c].epoch = e]
  BY <1>0, <1>3 DEF JobRecord, Wanted
<1>4. CASE ExecuteBegin(c) \/ PlanLoads(c)
  <2>1. job' = job \/ \E e : job' = [job EXCEPT ![c].epoch = e]
    BY <1>4 DEF ExecuteBegin, PlanLoads
  <2> QED
    BY <1>2, <1>3, <2>1
<1>5. CASE \/ GoalCallback(c) \/ ReusePending(c) \/ DeclinePending(c)
           \/ Refuse(c) \/ PlanBegin(c) \/ PlanFails(c) \/ PlanSolved(c)
           \/ PlanDone(c) \/ SeesComplete(c) \/ ExitCancelled(c)
           \/ ExitCompleted(c) \/ StopAfterFailure(c) \/ Report(c)
           \/ FreeSlot(c)
  <2>1. job' = job
    BY <1>5 DEF GoalCallback, ReusePending, DeclinePending, Refuse, PlanBegin,
                PlanFails, PlanSolved, PlanDone, SeesComplete, ExitCancelled,
                ExitCompleted, StopAfterFailure, Report, FreeSlot
  <2> QED
    BY <1>2, <2>1
<1> QED
  BY <1>1, <1>4, <1>5 DEF OwnStep, ExecuteStep, PlanStep

LEMMA OwnStepKeeps ==
  ASSUME PlannerAssumption, Typed, NEW c \in Executes, KeptAt(c), OwnStep(c)
  PROVE  KeptAt(c)'
<1> SUFFICES ASSUME own' = c
             PROVE  /\ pc'[c] \notin Early
                    /\ pc'[c] = "solved" =>
                         planned'[job'[c].on] = Wanted(c)'
                    /\ pc'[c] \in {"loaded", "ready", "sending"} =>
                         buffer' \in {Wanted(c)', Nothing}
  BY DEF KeptAt
<1>0. /\ c \in Calls /\ c # Nothing /\ c \notin Previews /\ c \notin Batches
      /\ pc \in [Calls -> PcValues] /\ planned \in [Planners -> Commands]
      /\ job[c].on \in Planners
  BY JobFields DEF Typed, TypeOK, Calls, PlannerAssumption
<1>1. /\ ~ExecuteSend(c) /\ ~PlanFails(c)
  BY <1>0 DEF ExecuteSend, PlanFails
<1>2. own = c => pc[c] \notin Early
  BY DEF KeptAt
<1>3. ~PlanSolved(c) => own = c /\ pc[c] \notin Early
  <2>1. ASSUME ~PlanSolved(c) PROVE own = c
    BY <1>0, <1>1, <2>1
       DEF OwnStep, PlanStep, ExecuteStep, GoalCallback, ExecuteStart, Resolve,
           ReusePending, DeclinePending, ExecuteBegin, SeesComplete,
           ExitCancelled, ExitCompleted, StopAfterFailure, Report, FreeSlot,
           PlanBegin, PlanLoads, PlanDone, Refuse, solverVars
  <2> QED
    BY <1>2, <2>1
<1>4. PlanSolved(c) \/ (Wanted(c)' = Wanted(c) /\ job'[c].on = job[c].on)
  BY <1>1, <1>3, OwnStepLocals
<1>5. CASE PlanSolved(c)
  <2>1. /\ planned'[job[c].on] = Wanted(c) /\ pc'[c] = "solved" /\ job' = job
    BY <1>0, <1>5 DEF PlanSolved, Goto
  <2> QED
    BY <2>1 DEF Wanted, Early
<1>6. CASE PlanLoads(c)
  <2>1. /\ buffer' = planned[job[c].on] /\ pc'[c] = "loaded" /\ pc[c] = "solved"
    BY <1>0, <1>6 DEF PlanLoads, SetCommand, Goto
  <2>2. Wanted(c)' = Wanted(c) /\ own = c
    BY <1>3, <1>4, <1>6 DEF PlanSolved, PlanLoads
  <2> QED
    BY <2>1, <2>2 DEF KeptAt, Early
<1>7. CASE PlanDone(c) \/ ExecuteBegin(c)
  <2>1. /\ buffer' = buffer /\ pc[c] \in {"loaded", "ready"}
        /\ pc'[c] \in {"ready", "sending", "failing"}
    BY <1>0, <1>7 DEF PlanDone, ExecuteBegin, Goto, contextVars
  <2>2. Wanted(c)' = Wanted(c) /\ own = c
    BY <1>3, <1>4, <2>1 DEF PlanSolved
  <2> QED
    BY <2>1, <2>2 DEF KeptAt, Early
<1>8. CASE /\ ~PlanSolved(c) /\ ~PlanLoads(c) /\ ~PlanDone(c)
           /\ ~ExecuteBegin(c)
  <2>1. \/ SeesComplete(c) \/ ExitCancelled(c) \/ ExitCompleted(c)
        \/ StopAfterFailure(c) \/ Report(c) \/ FreeSlot(c)
    BY <1>1, <1>3, <1>8
       DEF OwnStep, PlanStep, ExecuteStep, GoalCallback, ExecuteStart,
           ReusePending, DeclinePending, PlanBegin, Refuse, Early
  <2>2. pc'[c] \in {"exiting", "failing", "stopping", "succeeding", "ending",
                   "done"}
    BY <1>0, <2>1 DEF SeesComplete, ExitCancelled, ExitCompleted,
                      StopAfterFailure, Report, FreeSlot, Goto
  <2> QED
    BY <2>2 DEF Early
<1> QED
  BY <1>5, <1>6, <1>7, <1>8

LEMMA OwnStepMarks ==
  ASSUME PlannerAssumption, Typed, NEW c \in Executes,
         KeptAt(c), MarkedAt(c), OwnStep(c), [Next]_vars
  PROVE  MarkedAt(c)'
<1> SUFFICES ASSUME job'[c].own
             PROVE  /\ pc'[c] \notin Before
                    /\ job'[c].goal \in GoalIds /\ job'[c].goal <= sends'
                    /\ sent'[job'[c].goal].traj \in {Wanted(c)', Nothing}
  BY DEF MarkedAt
<1>0. /\ c \in Calls /\ pc \in [Calls -> PcValues]
      /\ job \in [Calls -> JobRecord] /\ sends \in 0..MaxSends /\ MaxSends \in Nat
      /\ sent \in [GoalIds -> [traj : Commands, intended : Commands]]
  BY ClientAssumption DEF Typed, TypeOK, ContextTypeOK, ClientTypeOK, Calls,
                          ClientAssumption
<1>1. CASE ExecuteSend(c)
  <2>1. CASE job' = job
    BY <1>1, <2>1 DEF MarkedAt, ExecuteSend, Before
  <2>2. CASE job' # job
    <3>1. /\ job' = [job EXCEPT ![c].goal = sends + 1, ![c].own = (own = c)]
          /\ sent' = [sent EXCEPT ![sends + 1] =
                        [traj |-> buffer, intended |-> Wanted(c)]]
          /\ sends' = sends + 1 /\ sends < MaxSends
          /\ pc[c] = "sending" /\ pc' = [pc EXCEPT ![c] = "running"]
      BY <1>1, <2>2 DEF ExecuteSend, SendTrajectory, SendBuffer, SendGoal, Goto
    <3> DEFINE mine == own = c
    <3>2. /\ job'[c].goal = sends + 1 /\ (job'[c].own => own = c)
          /\ job'[c].want = job[c].want /\ job'[c].start = job[c].start
      <4>1. job' = [job EXCEPT ![c].goal = sends + 1, ![c].own = mine]
        BY <3>1
      <4>2. mine => own = c
        OBVIOUS
      <4> HIDE DEF mine
      <4>3. /\ job'[c].goal = sends + 1 /\ job'[c].own = mine
            /\ job'[c].want = job[c].want /\ job'[c].start = job[c].start
        BY <1>0, <4>1 DEF JobRecord
      <4> QED
        BY <4>2, <4>3
    <3>3. Wanted(c)' = Wanted(c)
      BY <3>2 DEF Wanted
    <3>4. sends + 1 \in GoalIds
      BY <1>0, <3>1 DEF GoalIds
    <3>5. buffer \in {Wanted(c), Nothing}
      BY <3>1, <3>2 DEF KeptAt
    <3> HIDE DEF Wanted
    <3>6. sent'[sends + 1].traj = buffer
      BY <1>0, <3>1, <3>4
    <3> QED
      BY <1>0, <3>1, <3>2, <3>3, <3>4, <3>5, <3>6 DEF Before
  <2> QED
    BY <2>1, <2>2
<1>2. CASE ~ExecuteSend(c)
  <2>1. /\ Wanted(c)' = Wanted(c) /\ job'[c].goal = job[c].goal
        /\ job[c].own
    BY <1>2, OwnStepLocals
  <2>2. pc[c] \notin Before
    BY <2>1 DEF MarkedAt
  <2>3. \/ SeesComplete(c) \/ ExitCancelled(c) \/ ExitCompleted(c)
        \/ StopAfterFailure(c) \/ Report(c) \/ FreeSlot(c)
    BY <1>2, <2>2
       DEF OwnStep, PlanStep, ExecuteStep, GoalCallback, ExecuteStart,
           ReusePending, DeclinePending, PlanBegin, PlanFails, PlanSolved,
           PlanLoads, PlanDone, ExecuteBegin, Refuse, Before
  <2>4. pc'[c] \in {"exiting", "failing", "stopping", "succeeding", "ending",
                   "done"}
    BY <1>0, <2>3 DEF SeesComplete, ExitCancelled, ExitCompleted,
                      StopAfterFailure, Report, FreeSlot, Goto
  <2>5. UNCHANGED <<sends, sent>>
    BY <2>3 DEF SeesComplete, ExitCancelled, ExitCompleted, StopAfterFailure,
                Report, FreeSlot, StopRobot, CancelAction, contextVars,
                clientVars
  <2> QED
    BY <2>1, <2>4, <2>5 DEF MarkedAt, Before
<1> QED
  BY <1>1, <1>2

LEMMA RequestedStep ==
  ASSUME PlannerAssumption, SlotInv, Typed, RequestedInv, [Next]_vars
  PROVE  RequestedInv'
<1>0. /\ sends \in Nat
      /\ sent \in [GoalIds -> [traj : Commands, intended : Commands]]
  <2>1. sends \in 0..MaxSends /\ MaxSends \in Nat
    BY ClientAssumption DEF Typed, TypeOK, ContextTypeOK, ClientTypeOK,
                            ClientAssumption
  <2> QED
    BY <2>1 DEF Typed, TypeOK, ContextTypeOK
<1>1. ASSUME NEW c \in Executes, OwnStep(c) PROVE KeptAt(c)' /\ MarkedAt(c)'
  BY <1>1, OwnStepKeeps, OwnStepMarks DEF RequestedInv
<1>2. ASSUME NEW c \in Executes, ~OwnStep(c) PROVE KeptAt(c)' /\ MarkedAt(c)'
  <2>1. /\ pc'[c] = pc[c] /\ job'[c] = job[c] /\ KeptAt(c) /\ MarkedAt(c)
    BY <1>2, OthersLeaveAlone DEF LeftAlone, RequestedInv
  <2>2. Wanted(c)' = Wanted(c)
    BY <2>1 DEF Wanted
  <2>3. KeptAt(c)'
    BY <1>2, <2>1, <2>2, OthersOnlyEmpty DEF KeptAt
  <2>4. ASSUME job[c].own
        PROVE  sent'[job[c].goal] = sent[job[c].goal] /\ sends <= sends'
    <3>1. /\ job[c].goal \in GoalIds /\ job[c].goal <= sends
      BY <2>1, <2>4 DEF MarkedAt
    <3>2. job[c].goal # sends + 1
      BY <1>0, <3>1 DEF GoalIds
    <3>3. CASE UNCHANGED <<sends, sent>>
      BY <1>0, <3>3
    <3>4. CASE \E d \in Executes : Sends(d)
      <4>1. /\ sends' = sends + 1
            /\ \E new : sent' = [sent EXCEPT ![sends + 1] = new]
        BY <3>4 DEF Sends
      <4> QED
        BY <1>0, <3>1, <3>2, <4>1
    <3> QED
      BY <3>3, <3>4, SendStep
  <2>5. sends' \in Nat
    <3>1. sends' = sends \/ sends' = sends + 1
      BY SendStep DEF Sends
    <3> QED
      BY <1>0, <3>1
  <2>6. MarkedAt(c)'
    <3> SUFFICES ASSUME job'[c].own
                 PROVE  /\ pc'[c] \notin Before
                        /\ job'[c].goal \in GoalIds /\ job'[c].goal <= sends'
                        /\ sent'[job'[c].goal].traj \in {Wanted(c)', Nothing}
      BY DEF MarkedAt
    <3>1. /\ job[c].own /\ job[c].goal \in GoalIds /\ job[c].goal <= sends
          /\ pc'[c] \notin Before
          /\ sent[job[c].goal].traj \in {Wanted(c), Nothing}
      BY <2>1 DEF MarkedAt
    <3>2. job[c].goal <= sends'
      BY <1>0, <2>4, <2>5, <3>1 DEF GoalIds
    <3> QED
      BY <2>1, <2>2, <2>4, <3>1, <3>2
  <2> QED
    BY <2>3, <2>6
<1> QED
  BY <1>1, <1>2 DEF RequestedInv

(* What leaves for the robot on behalf of an execution goal that planned   *)
(* is the plan for its request, or nothing, for any calls of the three     *)
(* surfaces, planners, cancels and switches - unless another call stored   *)
(* or loaded a plan of its own in between.                                 *)
THEOREM ExecutedRequested == Spec => []ExecutedIsRequested
<1> DEFINE I == SlotInv /\ Typed /\ RequestedInv
<1>1. Init => I
  <2> SUFFICES ASSUME Init PROVE I
    OBVIOUS
  <2>1. \A c \in Executes : own # c /\ ~job[c].own
    BY PlannerAssumption DEF Init, NoJob, Calls, PlannerAssumption
  <2>2. RequestedInv
    BY <2>1 DEF RequestedInv, KeptAt, MarkedAt
  <2> QED
    BY <2>2, SlotInvInit, TypedInit, PlannerAssumption, ContextAssumption
<1>2. I /\ [Next]_vars => I'
  BY SlotInvStep, TypedStep, RequestedStep, PlannerAssumption
<1>3. I => ExecutedIsRequested
  BY DEF RequestedInv, MarkedAt, ExecutedIsRequested
<1> QED
  BY <1>1, <1>2, <1>3, PTL DEF Spec
=============================================================================
