----------------------- MODULE ReactiveSessionProofs -----------------------
(***************************************************************************)
(* Proofs about ReactiveSession, for any set of reactive controllers and   *)
(* any number of goals and services: the robot was stopped when the slot   *)
(* is free; the capture discipline that gpu_lock, the graph owner and the  *)
(* capture-pending flag keep between them; and a session never goes back   *)
(* to an older goal.                                                       *)
(***************************************************************************)
EXTENDS ReactiveSession, TLAPS

(* A command runs only while the servo loop does, and the loop is left     *)
(* through stop_robot.                                                     *)
Servoing == {"top", "reread", "rereading", "take", "apply", "applying",
             "guard", "step", "stepping", "send", "stop", "failed"}

RestInv ==
  /\ pc \in [Threads -> Labels]
  /\ slot <=> pc["exec"] # "idle"
  /\ moving = "sent" => pc["exec"] \in Servoing

(* Past the setup, a thread's solver was built.                            *)
Built == Servoing \cup {"refresh", "refreshing", "plan", "planning",
                        "discard", "enter"}

ThreadsOK ==
  /\ pc \in [Threads -> Labels] /\ call \in [Threads -> Planners]
  /\ current \in Planners
  /\ work \in [Threads -> {"none", "copy", "cuda", "replay", "capture"}]
  /\ \A t \in Threads : pc[t] \in Built => call[t] \in exists

(* A rebuild holds the lock from the first solver to the last, and only    *)
(* between the two is a solver missing.                                    *)
RebuildOK ==
  /\ pc["service"] \in {"motion", "last", "warmup"} => gpu = "service"
  /\ dropped # {} => pc["service"] = "last"

(* Until the discipline is left, a session's planner owns the graphs and   *)
(* none of its solvers is being rebuilt; and a flag that is down says that *)
(* the owner's graph is there: between steps, and during a step that took  *)
(* no lock.                                                                *)
AtStep == pc["exec"] \in {"step", "stepping"}

FlagOK == ~escape =>
  /\ InSession => owner = Me /\ pc["service"] # "last"
  /\ ~pending /\ ~AtStep /\ pc["service"] # "last" => owner \in live
  /\ AtStep /\ ~guarded => Me \in live
  /\ pc["exec"] = "stepping" =>
       work["exec"] = "capture" \/ (work["exec"] = "replay" /\ Me \in live)

(* Until then, whoever computes without replaying holds the lock.          *)
LockOK == ~escape =>
  \A t \in Threads : work[t] \in {"cuda", "capture"} => gpu = t

DisciplineInv == ThreadsOK /\ RebuildOK /\ FlagOK /\ LockOK

-----------------------------------------------------------------------------
LEMMA RestStep ==
  ASSUME RestInv, [Next]_vars
  PROVE  RestInv'
<1> USE DEF Working, Leave, Unlock, Halt, RestInv, Servoing, Labels, Threads, Goto
<1>1. CASE Requests
  BY <1>1 DEF Requests, ExecStart, PreviewStart, SetCollisionCache, Ask, Serve,
              UpdateMotionGenConfig, LiveGoal, SetPlannerCheck, goalVars
<1>2. CASE SetPlanner
  BY <1>2 DEF SetPlanner, goalVars
<1>3. ASSUME NEW t \in {"exec", "preview", "switch"}, Begin(t)
      PROVE  RestInv'
  BY <1>3 DEF Begin, Setup, Refresh, Plan, PlanBuilds, goalVars
<1>4. ASSUME NEW t \in {"exec", "preview", "switch"}, Finish(t)
      PROVE  RestInv'
  <2>1. CASE Report(t)
    BY <1>4, <2>1 DEF Report
  <2>2. CASE ~Report(t)
    BY <1>4, <2>2 DEF Finish, SetupDone, SetupFails, Refreshed, PlanFails,
                      GiveUp, OpenLoopPlanned, GoalSet, Discard, goalVars
  <2> QED
    BY <2>1, <2>2
<1>5. CASE LoopStep
  <2>1. CASE Enter \/ Top \/ TakeLiveGoal \/ ApplyLiveGoal \/ LiveGoalApplied
    BY <2>1 DEF Enter, Top, TakeLiveGoal, ApplyLiveGoal, LiveGoalApplied, At,
                goalVars
  <2>2. CASE StepGuard \/ Step \/ Stepped \/ Send \/ LoopRaises
    BY <2>2 DEF StepGuard, Step, Stepped, Send, LoopRaises, At, goalVars
  <2>3. CASE StopRobot
    BY <2>3 DEF StopRobot, At
  <2> QED
    BY <1>5, <2>1, <2>2, <2>3 DEF LoopStep
<1>6. CASE CancelStep
  <2>1. pc' = pc /\ slot' = slot /\ (moving' = "sent" => moving = "sent")
    BY <1>6 DEF CancelStep, CancelStops, CancelFlags, CancelMarks
  <2> QED
    BY <2>1
<1>7. CASE ServiceStep
  BY <1>7 DEF ServiceStep, RebuildBegin, RebuildReactive, RebuildEnd,
              ReconfigureEnd, goalVars
<1>8. CASE Integrate \/ Integrated
  BY <1>8 DEF Integrate, Integrated, goalVars
<1>9. CASE UNCHANGED vars
  BY <1>9 DEF vars, goalVars
<1> QED
  BY <1>1, <1>2, <1>3, <1>4, <1>5, <1>6, <1>7, <1>8, <1>9 DEF Next

(* However a session ends, its last command was followed by a stop once    *)
(* the slot is free: cancel, error and completion all pass stop_robot      *)
(* before the callback lets go of _goal_active.  What that stop had no     *)
(* handle of may go on.                                                    *)
THEOREM RobotStopped == Spec => []StoppedWhenFree
<1>1. Init => RestInv
  BY DEF Init, RestInv, Labels, Threads
<1>2. RestInv /\ [Next]_vars => RestInv'
  BY RestStep
<1>3. RestInv => StoppedWhenFree
  BY DEF RestInv, StoppedWhenFree, Servoing
<1> QED
  BY <1>1, <1>2, <1>3, PTL DEF Spec

-----------------------------------------------------------------------------
(* The capture discipline, one conjunct of the invariant at a time.        *)

LEMMA ThreadsStep ==
  ASSUME ReactiveAssumption, ThreadsOK, [Next]_vars
  PROVE  ThreadsOK'
<1> USE DEF Working, Leave, Halt, ThreadsOK, Built, Servoing, Labels, Threads, Goto
<1>1. CASE Requests
  BY <1>1 DEF Requests, ExecStart, PreviewStart, SetCollisionCache, Ask, Serve,
              UpdateMotionGenConfig, LiveGoal, SetPlannerCheck, callVars,
              lockVars, graphVars
<1>2. CASE SetPlanner
  BY <1>2 DEF SetPlanner, callVars, lockVars, graphVars
<1>3. ASSUME NEW t \in {"exec", "preview", "switch"}, Begin(t)
      PROVE  ThreadsOK'
  BY <1>3 DEF Begin, Setup, Refresh, Plan, PlanBuilds, Lock, callVars, graphVars
<1>4. ASSUME NEW t \in {"exec", "preview", "switch"}, Finish(t)
      PROVE  ThreadsOK'
  BY <1>4 DEF Finish, SetupDone, SetupFails, Refreshed, PlanFails, GiveUp, Unlock,
              OpenLoopPlanned, GoalSet, Discard, Report, callVars, lockVars, graphVars
<1>5. CASE LoopStep
  <2>1. CASE Enter \/ Top \/ TakeLiveGoal \/ ApplyLiveGoal \/ LiveGoalApplied
    BY <2>1 DEF Enter, Top, TakeLiveGoal, ApplyLiveGoal, LiveGoalApplied, At, Lock,
                Unlock, callVars, lockVars, graphVars
  <2>2. CASE StepGuard \/ Step \/ Stepped \/ Send \/ LoopRaises
    BY <2>2 DEF StepGuard, Step, Stepped, Send, LoopRaises, At, StepKind, Lock, Unlock, 
                callVars, lockVars, graphVars
  <2>3. CASE StopRobot
    BY <2>3 DEF StopRobot, At, callVars, lockVars, graphVars
  <2> QED
    BY <1>5, <2>1, <2>2, <2>3 DEF LoopStep
<1>6. CASE CancelStep
  BY <1>6 DEF CancelStep, CancelStops, CancelFlags, CancelMarks, callVars, lockVars, graphVars
<1>7. CASE ServiceStep
  BY <1>7 DEF ServiceStep, RebuildBegin, RebuildReactive, RebuildEnd, Lock, Unlock,
              ReconfigureEnd, callVars, lockVars, graphVars
<1>8. CASE Integrate \/ Integrated
  BY <1>8 DEF Integrate, Integrated, Lock, Unlock, callVars, graphVars
<1>9. CASE UNCHANGED vars
  BY <1>9 DEF vars, callVars, lockVars, graphVars
<1> QED
  BY <1>1, <1>2, <1>3, <1>4, <1>5, <1>6, <1>7, <1>8, <1>9 DEF Next

LEMMA RebuildStep ==
  ASSUME ReactiveAssumption, ThreadsOK, RebuildOK, [Next]_vars
  PROVE  RebuildOK'
<1> USE DEF Working, Leave, ThreadsOK, RebuildOK, Labels, Threads, Goto
<1>1. CASE Requests
  BY <1>1 DEF Requests, ExecStart, PreviewStart, SetCollisionCache, Ask, Serve,
              UpdateMotionGenConfig, LiveGoal, SetPlannerCheck, 
              lockVars, graphVars
<1>2. CASE SetPlanner
  BY <1>2 DEF SetPlanner, lockVars, graphVars
<1>3. ASSUME NEW t \in {"exec", "preview", "switch"}, Begin(t)
      PROVE  RebuildOK'
  BY <1>3 DEF Begin, Setup, Refresh, Plan, PlanBuilds, Lock, graphVars
<1>4. ASSUME NEW t \in {"exec", "preview", "switch"}, Finish(t)
      PROVE  RebuildOK'
  BY <1>4 DEF Finish, SetupDone, SetupFails, Refreshed, PlanFails, GiveUp, Unlock,
              OpenLoopPlanned, GoalSet, Discard, Report, lockVars, graphVars
<1>5. CASE LoopStep
  <2>1. CASE Enter \/ Top \/ TakeLiveGoal \/ ApplyLiveGoal \/ LiveGoalApplied
    BY <2>1 DEF Enter, Top, TakeLiveGoal, ApplyLiveGoal, LiveGoalApplied, At, Lock,
                Unlock, lockVars, graphVars
  <2>2. CASE StepGuard \/ Step \/ Stepped \/ Send \/ LoopRaises
    BY <2>2 DEF StepGuard, Step, Stepped, Send, LoopRaises, At, StepKind, Lock, Unlock, 
                lockVars, graphVars
  <2>3. CASE StopRobot
    BY <2>3 DEF StopRobot, At, lockVars, graphVars
  <2> QED
    BY <1>5, <2>1, <2>2, <2>3 DEF LoopStep
<1>6. CASE CancelStep
  BY <1>6 DEF CancelStep, CancelStops, CancelFlags, CancelMarks, lockVars, graphVars
<1>7. CASE ServiceStep
  BY <1>7 DEF ServiceStep, RebuildBegin, RebuildReactive, RebuildEnd, Lock, Unlock,
              ReconfigureEnd, lockVars, graphVars
<1>8. CASE Integrate \/ Integrated
  BY <1>8 DEF Integrate, Integrated, Lock, Unlock, graphVars
<1>9. CASE UNCHANGED vars
  BY <1>9 DEF vars, lockVars, graphVars
<1> QED
  BY <1>1, <1>2, <1>3, <1>4, <1>5, <1>6, <1>7, <1>8, <1>9 DEF Next
(* The flag is raised whenever the graphs change hands, and a step that    *)
(* takes it down captures or leaves the discipline.                        *)
LEMMA FlagStep ==
  ASSUME ReactiveAssumption, RestInv, ThreadsOK, RebuildOK, FlagOK, [Next]_vars
  PROVE  FlagOK'
<1> USE DEF Working, Leave, ThreadsOK, RebuildOK, FlagOK, InSession, Me, AtStep, Labels,
            Threads, Goto
<1>1. CASE Requests
  <2>1. CASE ExecStart
    BY <1>1, <2>1 DEF RestInv, ExecStart, Ask, lockVars, callVars, loopVars, graphVars
  <2>2. CASE PreviewStart
    BY <1>1, <2>2 DEF PreviewStart, Ask, lockVars, callVars, loopVars, graphVars
  <2>3. CASE SetCollisionCache
    BY <1>1, <2>3 DEF SetCollisionCache, Serve, lockVars, callVars, loopVars, graphVars
  <2>4. CASE UpdateMotionGenConfig
    BY <1>1, <2>4 DEF UpdateMotionGenConfig, Serve, lockVars, callVars, loopVars, graphVars
  <2>5. CASE LiveGoal
    BY <1>1, <2>5 DEF LiveGoal, lockVars, callVars, loopVars, graphVars
  <2>6. CASE \E p \in Planners : SetPlannerCheck(p)
    BY <1>1, <2>6 DEF SetPlannerCheck, Serve, lockVars, callVars, loopVars, graphVars
  <2> QED
    BY <1>1, <2>1, <2>2, <2>3, <2>4, <2>5, <2>6 DEF Requests
<1>2. CASE SetPlanner
  BY <1>2 DEF SetPlanner, lockVars, callVars, loopVars, graphVars
<1>3. ASSUME NEW t \in {"exec", "preview", "switch"}, Begin(t)
      PROVE  FlagOK'
  <2>1. CASE Setup(t)
    <3>1. /\ pc' = [pc EXCEPT ![t] = "building"]
          /\ work' = [work EXCEPT ![t] = "capture"]
          /\ call' = call /\ guarded' = guarded /\ pc[t] = "setup"
      BY <2>1 DEF Setup, Lock, loopVars, callVars
    <3>2. pc["service"] # "last" /\ pc'["service"] # "last"
      BY <2>1, <3>1, ReactiveAssumption DEF ReactiveAssumption, Setup, Lock
    <3>3. CASE call[t] = owner
      <4>1. owner' = owner /\ pending' = pending /\ live' = live /\ (escape => escape')
        BY <2>1, <3>3 DEF Setup, ReleaseGraphs
      <4> QED
        BY <3>1, <3>2, <3>3, <4>1
    <3>4. CASE call[t] # owner
      <4>1. owner' = call[t] /\ pending'
        BY <2>1, <3>4 DEF Setup, ReleaseGraphs
      <4>2. ~escape' => ~escape /\ (t = "exec" \/ ~InSession)
        BY <2>1, <3>4 DEF Setup
      <4> QED
        BY <3>1, <3>2, <4>1, <4>2
    <3> QED
      BY <3>3, <3>4
  <2>2. CASE Refresh(t)
    BY <1>3, <2>2 DEF Refresh, Lock, loopVars, callVars, graphVars
  <2>3. CASE Plan(t)
    BY <1>3, <2>3 DEF Plan, Lock, loopVars, callVars, graphVars
  <2>4. CASE PlanBuilds(t)
    BY <1>3, <2>4 DEF PlanBuilds
  <2> QED
    BY <1>3, <2>1, <2>2, <2>3, <2>4 DEF Begin
<1>4. ASSUME NEW t \in {"exec", "preview", "switch"}, Finish(t)
      PROVE  FlagOK'
  <2>1. CASE SetupDone(t)
    BY <1>4, <2>1 DEF SetupDone, Unlock, loopVars, callVars, graphVars
  <2>2. CASE SetupFails(t)
    BY <1>4, <2>2 DEF SetupFails, GiveUp, Unlock, loopVars, callVars, graphVars
  <2>3. CASE Refreshed(t)
    BY <1>4, <2>3 DEF Refreshed, Unlock, loopVars, callVars, graphVars
  <2>4. CASE PlanFails(t)
    BY <1>4, <2>4 DEF PlanFails, GiveUp, Unlock, loopVars, callVars, graphVars
  <2>5. CASE OpenLoopPlanned(t)
    BY <1>4, <2>5 DEF OpenLoopPlanned, GiveUp, Unlock, loopVars, callVars, graphVars
  <2>6. CASE GoalSet(t)
    BY <1>4, <2>6 DEF GoalSet, Unlock, loopVars, callVars, graphVars
  <2>7. CASE Discard(t)
    BY <1>4, <2>7 DEF Discard, callVars, loopVars, graphVars
  <2>8. CASE Report(t)
    BY <1>4, <2>8 DEF Report, Unlock, callVars, loopVars, graphVars
  <2> QED
    BY <1>4, <2>1, <2>2, <2>3, <2>4, <2>5, <2>6, <2>7, <2>8 DEF Finish
<1>5. CASE LoopStep
  <2>1. CASE Enter
    BY <1>5, <2>1 DEF Enter, At, Unlock, lockVars, callVars, loopVars, graphVars
  <2>2. CASE Top
    BY <1>5, <2>2 DEF Top, At, Unlock, lockVars, callVars, loopVars, graphVars
  <2>3. CASE TakeLiveGoal
    BY <1>5, <2>3 DEF TakeLiveGoal, At, lockVars, callVars, loopVars, graphVars
  <2>4. CASE ApplyLiveGoal
    BY <1>5, <2>4 DEF ApplyLiveGoal, At, Lock, loopVars, callVars, graphVars
  <2>5. CASE LiveGoalApplied
    BY <1>5, <2>5 DEF LiveGoalApplied, At, Unlock, loopVars, callVars, graphVars
  <2>6. CASE StepGuard
    BY <1>5, <2>6 DEF StepGuard, At, lockVars, callVars, loopVars, graphVars
  <2>7. CASE Step
    BY <1>5, <2>7 DEF Step, At, StepKind, Lock, loopVars, callVars, graphVars
  <2>8. CASE Stepped
    BY <1>5, <2>8 DEF Stepped, At, Unlock, loopVars, callVars, graphVars
  <2>9. CASE Send
    BY <1>5, <2>9 DEF Send, At, lockVars, callVars, loopVars, graphVars
  <2>10. CASE LoopRaises
    BY <1>5, <2>10 DEF LoopRaises, At, Ready, Built, Servoing, Unlock, loopVars, callVars, graphVars
  <2>11. CASE StopRobot
    BY <1>5, <2>11 DEF StopRobot, At, lockVars, callVars, loopVars, graphVars
  <2> QED
    BY <1>5, <2>1, <2>2, <2>3, <2>4, <2>5, <2>6, <2>7, <2>8, <2>9, <2>10, <2>11 DEF LoopStep
<1>6. CASE CancelStep
  BY <1>6 DEF CancelStep, CancelStops, CancelFlags, CancelMarks, lockVars,
              callVars, loopVars, graphVars
<1>7. CASE ServiceStep
  <2>1. CASE RebuildBegin
    BY <1>7, <2>1 DEF RebuildBegin, Lock, loopVars, callVars, graphVars
  <2>2. CASE RebuildReactive
    BY <1>7, <2>2 DEF RebuildReactive, lockVars, callVars, loopVars, graphVars
  <2>3. CASE RebuildEnd
    BY <1>7, <2>3 DEF RebuildEnd, Unlock, loopVars, callVars, graphVars
  <2>4. CASE ReconfigureEnd
    BY <1>7, <2>4 DEF ReconfigureEnd, Unlock, loopVars, callVars, graphVars
  <2> QED
    BY <1>7, <2>1, <2>2, <2>3, <2>4 DEF ServiceStep
<1>8. CASE Integrate \/ Integrated
  BY <1>8 DEF Integrate, Integrated, Lock, Unlock, callVars, loopVars, graphVars
<1>9. CASE UNCHANGED vars
  BY <1>9 DEF vars, lockVars, callVars, loopVars, graphVars
<1> QED
  BY <1>1, <1>2, <1>3, <1>4, <1>5, <1>6, <1>7, <1>8, <1>9 DEF Next

LEMMA LockStep ==
  ASSUME ReactiveAssumption, ThreadsOK, RebuildOK, FlagOK, LockOK, [Next]_vars
  PROVE  LockOK'
<1> USE ReactiveAssumption DEF Working, Leave, ReactiveAssumption, ThreadsOK, RebuildOK, LockOK, Labels, Threads, Goto
<1>1. CASE Requests
  BY <1>1 DEF Requests, ExecStart, PreviewStart, SetCollisionCache, Ask, Serve,
              UpdateMotionGenConfig, LiveGoal, SetPlannerCheck, 
              lockVars, graphVars
<1>2. CASE SetPlanner
  BY <1>2 DEF SetPlanner, lockVars, graphVars
<1>3. ASSUME NEW t \in {"exec", "preview", "switch"}, Begin(t)
      PROVE  LockOK'
  BY <1>3 DEF Begin, Setup, Refresh, Plan, PlanBuilds, Lock, graphVars
<1>4. ASSUME NEW t \in {"exec", "preview", "switch"}, Finish(t)
      PROVE  LockOK'
  BY <1>4 DEF Finish, SetupDone, SetupFails, Refreshed, PlanFails, GiveUp, Unlock,
              OpenLoopPlanned, GoalSet, Discard, Report, lockVars, graphVars
<1>5. CASE LoopStep
  <2>1. CASE Enter \/ Top \/ TakeLiveGoal \/ ApplyLiveGoal \/ LiveGoalApplied
    BY <2>1 DEF Enter, Top, TakeLiveGoal, ApplyLiveGoal, LiveGoalApplied, At, Lock,
                Unlock, lockVars, graphVars
  <2>2. CASE Step
    BY <2>2 DEF Step, FlagOK, AtStep, At, StepKind, Lock
  <2>3. CASE StepGuard \/ Stepped \/ Send \/ LoopRaises
    BY <2>3 DEF StepGuard, Stepped, Send, LoopRaises, At, Unlock, lockVars
  <2>4. CASE StopRobot
    BY <2>4 DEF StopRobot, At, lockVars
  <2> QED
    BY <1>5, <2>1, <2>2, <2>3, <2>4 DEF LoopStep
<1>6. CASE CancelStep
  BY <1>6 DEF CancelStep, CancelStops, CancelFlags, CancelMarks, lockVars, graphVars
<1>7. CASE ServiceStep
  BY <1>7 DEF ServiceStep, RebuildBegin, RebuildReactive, RebuildEnd, Lock, Unlock,
              ReconfigureEnd, lockVars, graphVars
<1>8. CASE Integrate \/ Integrated
  BY <1>8 DEF Integrate, Integrated, Lock, Unlock, graphVars
<1>9. CASE UNCHANGED vars
  BY <1>9 DEF vars, lockVars, graphVars
<1> QED
  BY <1>1, <1>2, <1>3, <1>4, <1>5, <1>6, <1>7, <1>8, <1>9 DEF Next

LEMMA DisciplineStep ==
  ASSUME ReactiveAssumption, RestInv /\ DisciplineInv, [Next]_vars
  PROVE  (RestInv /\ DisciplineInv)'
BY RestStep, ThreadsStep, RebuildStep, FlagStep, LockStep DEF DisciplineInv

LEMMA DisciplineInit ==
  ASSUME ReactiveAssumption, Init
  PROVE  RestInv /\ DisciplineInv
BY DEF ReactiveAssumption, Init, RestInv, DisciplineInv, ThreadsOK, RebuildOK,
       FlagOK, LockOK, InSession, AtStep, Labels, Built, Servoing, Threads,
       Planners

(* A servo step that captures a graph holds gpu_lock, although the loop    *)
(* takes the lock only for a step that finds _graph_capture_pending up.    *)
THEOREM CapturesGuarded == Spec => []CapturesAreGuarded
<1>1. Init => RestInv /\ DisciplineInv
  BY ReactiveAssumption, DisciplineInit
<1>2. RestInv /\ DisciplineInv /\ [Next]_vars => (RestInv /\ DisciplineInv)'
  BY ReactiveAssumption, DisciplineStep
<1>3. DisciplineInv => CapturesAreGuarded
  BY DEF DisciplineInv, LockOK, CapturesAreGuarded, Threads
<1> QED
  BY <1>1, <1>2, <1>3, PTL DEF Spec

(* No thread captures a graph beside other GPU work than the replays and   *)
(* the copies that take no lock.                                           *)
THEOREM CapturesAlone == Spec => []CapturesRunAlone
<1>1. Init => RestInv /\ DisciplineInv
  BY ReactiveAssumption, DisciplineInit
<1>2. RestInv /\ DisciplineInv /\ [Next]_vars => (RestInv /\ DisciplineInv)'
  BY ReactiveAssumption, DisciplineStep
<1>3. DisciplineInv => CapturesRunAlone
  BY DEF DisciplineInv, ThreadsOK, LockOK, CapturesRunAlone
<1> QED
  BY <1>1, <1>2, <1>3, PTL DEF Spec

-----------------------------------------------------------------------------
HolderWorks ==
  /\ gpu \in Threads \cup {Nothing}
  /\ gpu # Nothing => work[gpu] # "none"

SolverTypes ==
  /\ owner \in Planners
  /\ exists \subseteq Planners /\ live \subseteq exists
  /\ dropped \subseteq Reactive

GoalTypes ==
  /\ request \in [Threads -> 0..MaxGoals]
  /\ mailbox \in [Reactive -> 0..MaxGoals]
  /\ target \in [Reactive -> 0..MaxGoals]
  /\ taken \in 0..MaxGoals
  /\ asked \in 0..MaxGoals /\ served \in 0..MaxServices
  /\ cancel \in {"no", "stopped", "flagged", "marked"}

(* Only reactive controllers are served past their goal's set-up.          *)
ServoOK ==
  \A t \in Threads :
    pc[t] \in Servoing \cup {"discard", "enter"} => call[t] \in Reactive

FlagTypes ==
  /\ pending \in BOOLEAN /\ slot \in BOOLEAN /\ moving \in Motion
  /\ active \in [Reactive -> BOOLEAN]
  /\ guarded \in BOOLEAN /\ escape \in BOOLEAN

LEMMA HolderStep ==
  ASSUME ReactiveAssumption, ThreadsOK, HolderWorks, [Next]_vars
  PROVE  HolderWorks'
<1> USE ReactiveAssumption
    DEF Working, Leave, ReactiveAssumption, ThreadsOK, HolderWorks, Threads
<1>1. CASE Requests
  BY <1>1 DEF Requests, ExecStart, PreviewStart, SetCollisionCache, Ask, Serve,
              UpdateMotionGenConfig, LiveGoal, SetPlannerCheck,
              lockVars, graphVars, goalVars, mailVars, loopVars, countVars, callVars
<1>2. CASE SetPlanner
  BY <1>2 DEF SetPlanner, lockVars, graphVars, goalVars, mailVars, loopVars, countVars, callVars
<1>3. ASSUME NEW t \in {"exec", "preview", "switch"}, Begin(t)
      PROVE  HolderWorks'
  BY <1>3 DEF Begin, Setup, Refresh, Plan, PlanBuilds, ReleaseGraphs, Lock,
              lockVars, graphVars, goalVars, mailVars, loopVars, countVars, callVars
<1>4. ASSUME NEW t \in {"exec", "preview", "switch"}, Finish(t)
      PROVE  HolderWorks'
  BY <1>4 DEF Finish, SetupDone, SetupFails, Refreshed, PlanFails, GiveUp,
              Unlock, Leave, OpenLoopPlanned, GoalSet, Discard, Report,
              lockVars, graphVars, goalVars, mailVars, loopVars, countVars, callVars
<1>5. CASE LoopStep
  <2>1. CASE Enter \/ Top \/ TakeLiveGoal \/ ApplyLiveGoal \/ LiveGoalApplied
    BY <2>1 DEF Enter, Top, TakeLiveGoal, ApplyLiveGoal, LiveGoalApplied, At,
                Lock, Unlock, Me,
                lockVars, graphVars, goalVars, mailVars, loopVars, countVars, callVars
  <2>2. CASE StepGuard \/ Step \/ Stepped \/ Send \/ LoopRaises
    BY <2>2 DEF StepGuard, Step, Stepped, Send, LoopRaises, At, StepKind, Lock,
                Unlock, Me,
                lockVars, graphVars, goalVars, mailVars, loopVars, countVars, callVars
  <2>3. CASE StopRobot
    BY <2>3 DEF StopRobot, At,
                lockVars, graphVars, goalVars, mailVars, loopVars, countVars, callVars
  <2> QED
    BY <1>5, <2>1, <2>2, <2>3 DEF LoopStep
<1>6. CASE CancelStep
  BY <1>6 DEF CancelStep, CancelStops, CancelFlags, CancelMarks,
              lockVars, graphVars, goalVars, mailVars, loopVars, countVars, callVars
<1>7. CASE ServiceStep
  BY <1>7 DEF ServiceStep, RebuildBegin, RebuildReactive, RebuildEnd, Lock,
              Unlock, ReconfigureEnd,
              lockVars, graphVars, goalVars, mailVars, loopVars, countVars, callVars
<1>8. CASE Integrate \/ Integrated
  BY <1>8 DEF Integrate, Integrated, Lock, Unlock,
              lockVars, graphVars, goalVars, mailVars, loopVars, countVars, callVars
<1>9. CASE UNCHANGED vars
  BY <1>9 DEF vars, lockVars, graphVars, goalVars, mailVars, loopVars, countVars, callVars
<1> QED
  BY <1>1, <1>2, <1>3, <1>4, <1>5, <1>6, <1>7, <1>8, <1>9 DEF Next

LEMMA SolverStep ==
  ASSUME ReactiveAssumption, ThreadsOK, SolverTypes, [Next]_vars
  PROVE  SolverTypes'
<1> USE ReactiveAssumption
    DEF Working, Leave, ReactiveAssumption, ThreadsOK, SolverTypes, Threads, Planners, Built, Servoing
<1>1. CASE Requests
  BY <1>1 DEF Requests, ExecStart, PreviewStart, SetCollisionCache, Ask, Serve,
              UpdateMotionGenConfig, LiveGoal, SetPlannerCheck,
              lockVars, graphVars, goalVars, mailVars, loopVars, countVars, callVars
<1>2. CASE SetPlanner
  BY <1>2 DEF SetPlanner, lockVars, graphVars, goalVars, mailVars, loopVars, countVars, callVars
<1>3. ASSUME NEW t \in {"exec", "preview", "switch"}, Begin(t)
      PROVE  SolverTypes'
  <2>1. CASE Setup(t)
    <3>1. /\ owner' \in {owner, call[t]} /\ live' \in {live, {}}
          /\ exists' = exists /\ dropped' = dropped
      BY <2>1 DEF Setup, ReleaseGraphs
    <3> QED
      BY <1>3, <3>1
  <2>2. CASE Refresh(t) \/ Plan(t) \/ PlanBuilds(t)
    BY <2>2 DEF Refresh, Plan, PlanBuilds, graphVars
  <2> QED
    BY <1>3, <2>1, <2>2 DEF Begin
<1>4. ASSUME NEW t \in {"exec", "preview", "switch"}, Finish(t)
      PROVE  SolverTypes'
  <2>1. CASE SetupDone(t)
    <3>1. /\ exists' = exists \cup {call[t]} /\ owner' = owner
          /\ dropped' = dropped \ {call[t]}
          /\ live' = live \cup ({"motion"} \cap (exists' \ exists))
      BY <2>1 DEF SetupDone
    <3> HIDE DEF ReactiveAssumption
    <3> QED
      BY <1>4, <3>1
  <2>2. CASE OpenLoopPlanned(t)
    BY <1>4, <2>2 DEF OpenLoopPlanned
  <2>3. CASE \/ SetupFails(t) \/ Refreshed(t) \/ PlanFails(t) \/ GoalSet(t)
             \/ Discard(t) \/ Report(t)
    BY <2>3 DEF SetupFails, Refreshed, PlanFails, GoalSet, Discard, Report, graphVars
  <2> QED
    BY <1>4, <2>1, <2>2, <2>3 DEF Finish
<1>5. CASE LoopStep
  <2>1. CASE Enter \/ Top \/ TakeLiveGoal \/ ApplyLiveGoal \/ LiveGoalApplied
    BY <2>1 DEF Enter, Top, TakeLiveGoal, ApplyLiveGoal, LiveGoalApplied, At,
                Lock, Unlock, Me,
                lockVars, graphVars, goalVars, mailVars, loopVars, countVars, callVars
  <2>2. CASE StepGuard \/ Step \/ Stepped \/ Send \/ LoopRaises
    BY <2>2 DEF StepGuard, Step, Stepped, Send, LoopRaises, At, StepKind, Lock,
                Unlock, Me,
                lockVars, graphVars, goalVars, mailVars, loopVars, countVars, callVars
  <2>3. CASE StopRobot
    BY <2>3 DEF StopRobot, At,
                lockVars, graphVars, goalVars, mailVars, loopVars, countVars, callVars
  <2> QED
    BY <1>5, <2>1, <2>2, <2>3 DEF LoopStep
<1>6. CASE CancelStep
  BY <1>6 DEF CancelStep, CancelStops, CancelFlags, CancelMarks,
              lockVars, graphVars, goalVars, mailVars, loopVars, countVars, callVars
<1>7. CASE ServiceStep
  BY <1>7 DEF ServiceStep, RebuildBegin, RebuildReactive, RebuildEnd, Lock,
              Unlock, ReconfigureEnd,
              lockVars, graphVars, goalVars, mailVars, loopVars, countVars, callVars
<1>8. CASE Integrate \/ Integrated
  BY <1>8 DEF Integrate, Integrated, Lock, Unlock,
              lockVars, graphVars, goalVars, mailVars, loopVars, countVars, callVars
<1>9. CASE UNCHANGED vars
  BY <1>9 DEF vars, lockVars, graphVars, goalVars, mailVars, loopVars, countVars, callVars
<1> QED
  BY <1>1, <1>2, <1>3, <1>4, <1>5, <1>6, <1>7, <1>8, <1>9 DEF Next

LEMMA ServoStep ==
  ASSUME ReactiveAssumption, ThreadsOK, RestInv, ServoOK, [Next]_vars
  PROVE  ServoOK'
<1> USE ReactiveAssumption
    DEF Working, Leave, ReactiveAssumption, ThreadsOK, RestInv, ServoOK, Threads, Servoing, Goto
<1>1. CASE Requests
  BY <1>1 DEF Requests, ExecStart, PreviewStart, SetCollisionCache, Ask, Serve,
              UpdateMotionGenConfig, LiveGoal, SetPlannerCheck,
              lockVars, graphVars, goalVars, mailVars, loopVars, countVars, callVars
<1>2. CASE SetPlanner
  BY <1>2 DEF SetPlanner, lockVars, graphVars, goalVars, mailVars, loopVars, countVars, callVars
<1>3. ASSUME NEW t \in {"exec", "preview", "switch"}, Begin(t)
      PROVE  ServoOK'
  BY <1>3 DEF Begin, Setup, Refresh, Plan, PlanBuilds, ReleaseGraphs, Lock,
              lockVars, graphVars, goalVars, mailVars, loopVars, countVars, callVars
<1>4. ASSUME NEW t \in {"exec", "preview", "switch"}, Finish(t)
      PROVE  ServoOK'
  BY <1>4 DEF Finish, SetupDone, SetupFails, Refreshed, PlanFails, GiveUp,
              Unlock, OpenLoopPlanned, GoalSet, Discard, Report,
              lockVars, graphVars, goalVars, mailVars, loopVars, countVars, callVars
<1>5. CASE LoopStep
  <2>1. CASE Enter \/ Top \/ TakeLiveGoal \/ ApplyLiveGoal \/ LiveGoalApplied
    BY <2>1 DEF Enter, Top, TakeLiveGoal, ApplyLiveGoal, LiveGoalApplied, At,
                Lock, Unlock, Me,
                lockVars, graphVars, goalVars, mailVars, loopVars, countVars, callVars
  <2>2. CASE StepGuard \/ Step \/ Stepped \/ Send \/ LoopRaises
    BY <2>2 DEF StepGuard, Step, Stepped, Send, LoopRaises, At, StepKind, Lock,
                Unlock, Me,
                lockVars, graphVars, goalVars, mailVars, loopVars, countVars, callVars
  <2>3. CASE StopRobot
    BY <2>3 DEF StopRobot, At,
                lockVars, graphVars, goalVars, mailVars, loopVars, countVars, callVars
  <2> QED
    BY <1>5, <2>1, <2>2, <2>3 DEF LoopStep
<1>6. CASE CancelStep
  BY <1>6 DEF CancelStep, CancelStops, CancelFlags, CancelMarks,
              lockVars, graphVars, goalVars, mailVars, loopVars, countVars, callVars
<1>7. CASE ServiceStep
  BY <1>7 DEF ServiceStep, RebuildBegin, RebuildReactive, RebuildEnd, Lock,
              Unlock, ReconfigureEnd,
              lockVars, graphVars, goalVars, mailVars, loopVars, countVars, callVars
<1>8. CASE Integrate \/ Integrated
  BY <1>8 DEF Integrate, Integrated, Lock, Unlock,
              lockVars, graphVars, goalVars, mailVars, loopVars, countVars, callVars
<1>9. CASE UNCHANGED vars
  BY <1>9 DEF vars, lockVars, graphVars, goalVars, mailVars, loopVars, countVars, callVars
<1> QED
  BY <1>1, <1>2, <1>3, <1>4, <1>5, <1>6, <1>7, <1>8, <1>9 DEF Next

LEMMA GoalStep ==
  ASSUME ReactiveAssumption, ThreadsOK, ServoOK, GoalTypes, [Next]_vars
  PROVE  GoalTypes'
<1> USE ReactiveAssumption
    DEF Working, Leave, ReactiveAssumption, ThreadsOK, GoalTypes, Threads, Planners
<1>1. CASE Requests
  BY <1>1 DEF Requests, ExecStart, PreviewStart, SetCollisionCache, Ask, Serve,
              UpdateMotionGenConfig, LiveGoal, SetPlannerCheck,
              lockVars, graphVars, goalVars, mailVars, loopVars, countVars, callVars
<1>2. CASE SetPlanner
  BY <1>2 DEF SetPlanner, lockVars, graphVars, goalVars, mailVars, loopVars, countVars, callVars
<1>3. ASSUME NEW t \in {"exec", "preview", "switch"}, Begin(t)
      PROVE  GoalTypes'
  BY <1>3 DEF Begin, Setup, Refresh, Plan, PlanBuilds, ReleaseGraphs, Lock,
              lockVars, graphVars, goalVars, mailVars, loopVars, countVars, callVars
<1>4. ASSUME NEW t \in {"exec", "preview", "switch"}, Finish(t)
      PROVE  GoalTypes'
  BY <1>4 DEF Finish, SetupDone, SetupFails, Refreshed, PlanFails, GiveUp,
              Unlock, OpenLoopPlanned, GoalSet, Discard, Report,
              lockVars, graphVars, goalVars, mailVars, loopVars, countVars, callVars
<1>5. CASE LoopStep
  <2>1. CASE Enter \/ Top \/ TakeLiveGoal \/ ApplyLiveGoal \/ LiveGoalApplied
    BY <2>1 DEF ServoOK, Servoing, Enter, Top, TakeLiveGoal, ApplyLiveGoal, LiveGoalApplied, At,
                Lock, Unlock, Me,
                lockVars, graphVars, goalVars, mailVars, loopVars, countVars, callVars
  <2>2. CASE StepGuard \/ Step \/ Stepped \/ Send \/ LoopRaises
    BY <2>2 DEF StepGuard, Step, Stepped, Send, LoopRaises, At, StepKind, Lock,
                Unlock, Me,
                lockVars, graphVars, goalVars, mailVars, loopVars, countVars, callVars
  <2>3. CASE StopRobot
    BY <2>3 DEF StopRobot, At,
                lockVars, graphVars, goalVars, mailVars, loopVars, countVars, callVars
  <2> QED
    BY <1>5, <2>1, <2>2, <2>3 DEF LoopStep
<1>6. CASE CancelStep
  BY <1>6 DEF CancelStep, CancelStops, CancelFlags, CancelMarks,
              lockVars, graphVars, goalVars, mailVars, loopVars, countVars, callVars
<1>7. CASE ServiceStep
  BY <1>7 DEF ServiceStep, RebuildBegin, RebuildReactive, RebuildEnd, Lock,
              Unlock, ReconfigureEnd,
              lockVars, graphVars, goalVars, mailVars, loopVars, countVars, callVars
<1>8. CASE Integrate \/ Integrated
  BY <1>8 DEF Integrate, Integrated, Lock, Unlock,
              lockVars, graphVars, goalVars, mailVars, loopVars, countVars, callVars
<1>9. CASE UNCHANGED vars
  BY <1>9 DEF vars, lockVars, graphVars, goalVars, mailVars, loopVars, countVars, callVars
<1> QED
  BY <1>1, <1>2, <1>3, <1>4, <1>5, <1>6, <1>7, <1>8, <1>9 DEF Next

LEMMA FlagTypesStep ==
  ASSUME ReactiveAssumption, FlagTypes, [Next]_vars
  PROVE  FlagTypes'
<1> USE ReactiveAssumption
    DEF Working, Halt, Motion, ReactiveAssumption, FlagTypes
<1>1. CASE Requests
  BY <1>1 DEF Requests, ExecStart, PreviewStart, SetCollisionCache, Ask, Serve,
              UpdateMotionGenConfig, LiveGoal, SetPlannerCheck,
              lockVars, graphVars, goalVars, mailVars, loopVars, countVars, callVars
<1>2. CASE SetPlanner
  BY <1>2 DEF SetPlanner, lockVars, graphVars, goalVars, mailVars, loopVars, countVars, callVars
<1>3. ASSUME NEW t \in {"exec", "preview", "switch"}, Begin(t)
      PROVE  FlagTypes'
  BY <1>3 DEF Begin, Setup, Refresh, Plan, PlanBuilds, ReleaseGraphs, Lock,
              lockVars, graphVars, goalVars, mailVars, loopVars, countVars, callVars
<1>4. ASSUME NEW t \in {"exec", "preview", "switch"}, Finish(t)
      PROVE  FlagTypes'
  BY <1>4 DEF Finish, SetupDone, SetupFails, Refreshed, PlanFails, GiveUp,
              Unlock, OpenLoopPlanned, GoalSet, Discard, Report,
              lockVars, graphVars, goalVars, mailVars, loopVars, countVars, callVars
<1>5. CASE LoopStep
  <2>1. CASE Enter \/ Top \/ TakeLiveGoal \/ ApplyLiveGoal \/ LiveGoalApplied
    BY <2>1 DEF Enter, Top, TakeLiveGoal, ApplyLiveGoal, LiveGoalApplied, At,
                Lock, Unlock, Me,
                lockVars, graphVars, goalVars, mailVars, loopVars, countVars, callVars
  <2>2. CASE StepGuard \/ Step \/ Stepped \/ Send \/ LoopRaises
    BY <2>2 DEF StepGuard, Step, Stepped, Send, LoopRaises, At, StepKind, Lock,
                Unlock, Me,
                lockVars, graphVars, goalVars, mailVars, loopVars, countVars, callVars
  <2>3. CASE StopRobot
    BY <2>3 DEF StopRobot, At,
                lockVars, graphVars, goalVars, mailVars, loopVars, countVars, callVars
  <2> QED
    BY <1>5, <2>1, <2>2, <2>3 DEF LoopStep
<1>6. CASE CancelStep
  BY <1>6 DEF CancelStep, CancelStops, CancelFlags, CancelMarks,
              lockVars, graphVars, goalVars, mailVars, loopVars, countVars, callVars
<1>7. CASE ServiceStep
  BY <1>7 DEF ServiceStep, RebuildBegin, RebuildReactive, RebuildEnd, Lock,
              Unlock, ReconfigureEnd,
              lockVars, graphVars, goalVars, mailVars, loopVars, countVars, callVars
<1>8. CASE Integrate \/ Integrated
  BY <1>8 DEF Integrate, Integrated, Lock, Unlock,
              lockVars, graphVars, goalVars, mailVars, loopVars, countVars, callVars
<1>9. CASE UNCHANGED vars
  BY <1>9 DEF vars, lockVars, graphVars, goalVars, mailVars, loopVars, countVars, callVars
<1> QED
  BY <1>1, <1>2, <1>3, <1>4, <1>5, <1>6, <1>7, <1>8, <1>9 DEF Next

ReactiveTypes ==
  RestInv /\ ThreadsOK /\ HolderWorks /\ SolverTypes /\ ServoOK /\ GoalTypes /\ FlagTypes

(* The state keeps its types, gpu_lock has no idle holder, and every       *)
(* captured graph belongs to a solver that was built.                      *)
THEOREM ReactiveTyped == Spec => []ReactiveTypeOK
<1>1. Init => ReactiveTypes
  <2> SUFFICES ASSUME Init PROVE ReactiveTypes
    OBVIOUS
  <2> USE ReactiveAssumption
      DEF ReactiveAssumption, Init, Threads, Planners, Labels, Built, Servoing
  <2>1. RestInv /\ ThreadsOK /\ HolderWorks
    BY DEF RestInv, ThreadsOK, HolderWorks
  <2>2. SolverTypes /\ ServoOK /\ GoalTypes
    BY DEF SolverTypes, ServoOK, GoalTypes
  <2>3. FlagTypes
    BY DEF FlagTypes, Motion
  <2> QED
    BY <2>1, <2>2, <2>3 DEF ReactiveTypes
<1>2. ReactiveTypes /\ [Next]_vars => ReactiveTypes'
  BY ReactiveAssumption, RestStep, ThreadsStep, HolderStep, SolverStep,
     ServoStep, GoalStep, FlagTypesStep
     DEF ReactiveTypes
<1>3. ReactiveTypes => ReactiveTypeOK
  BY DEF ReactiveTypes, RestInv, ThreadsOK, HolderWorks, SolverTypes,
         GoalTypes, FlagTypes, ReactiveTypeOK
<1> QED
  BY <1>1, <1>2, <1>3, PTL DEF Spec

-----------------------------------------------------------------------------
(* Numbers are given in order, and a goal is set under the lock.           *)
NumbersOK ==
  /\ \A t \in Threads : request[t] <= asked
  /\ \A c \in Reactive : mailbox[c] <= asked /\ target[c] <= asked
  /\ taken <= asked

SettersOK ==
  /\ At("applying") => gpu = "exec"
  /\ \A t \in Threads : pc[t] = "planning" => gpu = t
  /\ pc["switch"] \in {"idle", "switching", "setup", "building"}

(* What a session finds in its mailbox, and then what it has taken, is     *)
(* newer than what its solver tracks, unless a preview was asked for since. *)
Newer(n) == n > target[Me] \/ target[Me] <= request["preview"]

OrderOK ==
  /\ pc["exec"] \in Servoing \cup {"enter"} /\ mailbox[Me] # 0 =>
       Newer(mailbox[Me])
  /\ At("apply") \/ At("applying") =>
       Newer(taken) /\ (mailbox[Me] # 0 => mailbox[Me] > taken)

AdvanceInv ==
  /\ RestInv /\ ThreadsOK /\ ServoOK /\ GoalTypes /\ RebuildOK
  /\ NumbersOK /\ SettersOK /\ OrderOK

LEMMA SettersStep ==
  ASSUME ThreadsOK, SettersOK, [Next]_vars PROVE SettersOK'
<1> USE DEF Working, Leave, ThreadsOK, SettersOK, Threads, Goto, At
<1>0. ASSUME NEW t \in Threads, NEW l \in Labels \ {"planning", "applying"},
             pc' = [pc EXCEPT ![t] = l],
             \/ gpu' = gpu \/ gpu' = IF gpu = t THEN Nothing ELSE gpu
             \/ gpu = Nothing /\ gpu' = t,
             t = "switch" => l \in {"idle", "switching", "setup", "building"}
      PROVE  SettersOK'
  BY <1>0, ReactiveAssumption DEF Unlock, ReactiveAssumption
<1>1. CASE Requests
  <2>1. CASE LiveGoal
    BY <2>1 DEF LiveGoal, lockVars
  <2>2. CASE ExecStart \/ PreviewStart
    <3>1. /\ gpu' = gpu
          /\ \E t \in {"exec", "preview"} : pc' = [pc EXCEPT ![t] = "setup"]
      BY <2>2 DEF ExecStart, PreviewStart, Ask, lockVars
    <3> QED
      BY <1>0, <3>1 DEF Labels
  <2>3. CASE \/ SetCollisionCache \/ UpdateMotionGenConfig
             \/ \E p \in Planners : SetPlannerCheck(p)
    <3>1. /\ gpu' = gpu
          /\ \/ pc' = [pc EXCEPT !["switch"] = "switching"]
             \/ \E l \in {"rebuild", "reconfigure"} :
                  pc' = [pc EXCEPT !["service"] = l]
      BY <2>3 DEF SetCollisionCache, UpdateMotionGenConfig, SetPlannerCheck,
                  Serve, lockVars
    <3> QED
      BY <1>0, <3>1 DEF Labels
  <2> QED
    BY <1>1, <2>1, <2>2, <2>3 DEF Requests
<1>2. CASE SetPlanner
  BY <1>2 DEF SetPlanner, lockVars
<1>3. ASSUME NEW t \in {"exec", "preview", "switch"}, Begin(t)
      PROVE  SettersOK'
  BY <1>3, ReactiveAssumption
     DEF Begin, Setup, Refresh, Plan, PlanBuilds, Lock, ReactiveAssumption
<1>4. ASSUME NEW t \in {"exec", "preview", "switch"}, Finish(t)
      PROVE  SettersOK'
  BY <1>4 DEF Finish, SetupDone, SetupFails, Refreshed, PlanFails, GiveUp,
              Unlock, OpenLoopPlanned, GoalSet, Discard, Report, lockVars
<1>5. CASE LoopStep
  <2>1. CASE ApplyLiveGoal
    BY <2>1, ReactiveAssumption DEF ApplyLiveGoal, Lock, ReactiveAssumption
  <2>2. CASE ~ApplyLiveGoal
    <3>1. \/ gpu' = gpu \/ gpu' = IF gpu = "exec" THEN Nothing ELSE gpu
          \/ gpu = Nothing /\ gpu' = "exec"
      BY <1>5, <2>2
         DEF LoopStep, Enter, Top, TakeLiveGoal, LiveGoalApplied, StepGuard,
             Step, Stepped, Send, LoopRaises, Lock, Unlock, StopRobot, lockVars
    <3>2. \E l \in Labels \ {"planning", "applying"} :
            pc' = [pc EXCEPT !["exec"] = l]
      BY <1>5, <2>2
         DEF LoopStep, Enter, Top, TakeLiveGoal, LiveGoalApplied, StepGuard,
             Step, Stepped, Send, LoopRaises, StopRobot, Labels
    <3> QED
      BY <1>0, <3>1, <3>2
  <2> QED
    BY <2>1, <2>2
<1>6. CASE CancelStep
  BY <1>6 DEF CancelStep, CancelStops, CancelFlags, CancelMarks, lockVars
<1>7. CASE ServiceStep
  <2>1. \/ gpu' = gpu \/ gpu' = IF gpu = "service" THEN Nothing ELSE gpu
        \/ gpu = Nothing /\ gpu' = "service"
    BY <1>7 DEF ServiceStep, RebuildBegin, RebuildReactive, RebuildEnd, Lock,
                Unlock, ReconfigureEnd, lockVars
  <2>2. \E l \in Labels \ {"planning", "applying"} :
          pc' = [pc EXCEPT !["service"] = l]
    BY <1>7 DEF ServiceStep, RebuildBegin, RebuildReactive, RebuildEnd,
                ReconfigureEnd, Labels
  <2> QED
    BY <1>0, <2>1, <2>2
<1>8. CASE Integrate \/ Integrated
  <2>1. \/ gpu' = IF gpu = "camera" THEN Nothing ELSE gpu
        \/ gpu = Nothing /\ gpu' = "camera"
    BY <1>8 DEF Integrate, Integrated, Lock, Unlock
  <2>2. \E l \in {"busy", "idle"} : pc' = [pc EXCEPT !["camera"] = l]
    BY <1>8 DEF Integrate, Integrated
  <2> QED
    BY <1>0, <2>1, <2>2 DEF Labels
<1>9. CASE UNCHANGED vars
  BY <1>9 DEF vars, lockVars
<1> QED
  BY <1>1, <1>2, <1>3, <1>4, <1>5, <1>6, <1>7, <1>8, <1>9 DEF Next

(* Most steps leave the goals where they are; the session may go on to     *)
(* anywhere but the taking and the applying of one.                        *)
LEMMA GoalsStay ==
  ASSUME AdvanceInv, UNCHANGED <<mailbox, target, taken, asked, request>>,
         call'["exec"] = call["exec"] \/ pc'["exec"] = "setup",
         \/ pc'["exec"] = pc["exec"]
         \/ /\ pc'["exec"] \notin {"apply", "applying"}
            /\ \/ pc["exec"] \in Servoing \cup {"enter"}
               \/ pc'["exec"] \notin Servoing \cup {"enter"}
         \/ At("apply") /\ pc'["exec"] = "applying"
  PROVE  NumbersOK' /\ OrderOK'
<1>1. NumbersOK'
  BY DEF AdvanceInv, NumbersOK
<1>2. OrderOK'
  BY DEF AdvanceInv, OrderOK, Newer, Me, At, Servoing
<1> QED
  BY <1>1, <1>2

LEMMA RequestsKeepOrder ==
  ASSUME ReactiveAssumption, AdvanceInv, Requests \/ SetPlanner
  PROVE  NumbersOK' /\ OrderOK'
<1>0. /\ pc \in [Threads -> Labels] /\ call \in [Threads -> Planners]
      /\ request \in [Threads -> 0..MaxGoals] /\ asked \in 0..MaxGoals
      /\ mailbox \in [Reactive -> 0..MaxGoals]
      /\ target \in [Reactive -> 0..MaxGoals] /\ taken \in 0..MaxGoals
      /\ MaxGoals \in Nat /\ NumbersOK /\ OrderOK
      /\ pc["exec"] \in Servoing \cup {"enter"} => Me \in Reactive
  BY DEF AdvanceInv, ThreadsOK, GoalTypes, ServoOK, ReactiveAssumption, Me,
         Threads
<1>1. CASE ExecStart \/ PreviewStart
  <2>1. PICK t \in {"exec", "preview"} : Ask(t) /\ UNCHANGED <<mailVars, loopVars>>
                                         /\ (t = "exec" => ExecStart)
    BY <1>1 DEF ExecStart, PreviewStart
  <2>2. /\ asked' = asked + 1 /\ request' = [request EXCEPT ![t] = asked + 1]
        /\ mailbox' = mailbox /\ target' = target /\ taken' = taken
        /\ pc' = [pc EXCEPT ![t] = "setup"]
        /\ call' = [call EXCEPT ![t] = current]
    BY <2>1 DEF Ask, Goto, mailVars, loopVars
  <2>3. NumbersOK'
    BY <1>0, <2>2 DEF NumbersOK, Threads
  <2>4. CASE t = "exec"
    <3>1. pc'["exec"] = "setup"
      BY <1>0, <2>2, <2>4 DEF Threads
    <3> QED
      BY <2>3, <3>1 DEF OrderOK, At, Servoing
  <2>5. CASE t = "preview"
    <3>1. /\ pc'["exec"] = pc["exec"] /\ call'["exec"] = call["exec"]
          /\ request'["preview"] = asked + 1
      BY <1>0, <2>2, <2>5 DEF Threads
    <3>2. Me' = Me
      BY <3>1 DEF Me
    <3>3. Me \in Reactive => target[Me] <= asked + 1
      BY <1>0 DEF NumbersOK
    <3>4. OrderOK'
      BY <1>0, <2>2, <3>1, <3>2, <3>3 DEF OrderOK, Newer, At, Servoing
    <3> QED
      BY <2>3, <3>4
  <2> QED
    BY <2>4, <2>5
<1>2. CASE LiveGoal
  <2>1. /\ current \in Reactive /\ asked' = asked + 1
        /\ mailbox' = [mailbox EXCEPT ![current] = asked + 1]
        /\ UNCHANGED <<target, taken, request, call, pc>>
    BY <1>2 DEF LiveGoal, loopVars, callVars
  <2>2. NumbersOK'
    BY <1>0, <2>1 DEF NumbersOK, Threads
  <2>3. Me' = Me
    BY <2>1 DEF Me
  <2>4. Me \in Reactive => /\ target[Me] < asked + 1 /\ taken < asked + 1
                           /\ mailbox'[Me] \in {mailbox[Me], asked + 1}
    BY <1>0, <2>1 DEF NumbersOK
  <2>5. OrderOK'
    BY <1>0, <2>1, <2>3, <2>4 DEF OrderOK, Newer, At, Servoing
  <2> QED
    BY <2>2, <2>5
<1>3. CASE \/ SetCollisionCache \/ UpdateMotionGenConfig \/ SetPlanner
           \/ \E p \in Planners : SetPlannerCheck(p)
  <2>1. /\ UNCHANGED <<mailbox, target, taken, asked, request>>
        /\ pc'["exec"] = pc["exec"] /\ call'["exec"] = call["exec"]
    BY <1>0, <1>3 DEF SetCollisionCache, UpdateMotionGenConfig, SetPlanner,
       SetPlannerCheck, Serve, Goto, countVars, callVars, Threads, mailVars,
       loopVars
  <2> QED
    BY <2>1, GoalsStay
<1> QED
  BY <1>1, <1>2, <1>3 DEF Requests

LEMMA PlansKeepOrder ==
  ASSUME ReactiveAssumption, AdvanceInv,
         NEW t \in {"exec", "preview", "switch"}, Begin(t) \/ Finish(t)
  PROVE  NumbersOK' /\ OrderOK'
<1>0. /\ pc \in [Threads -> Labels] /\ call \in [Threads -> Planners]
      /\ request \in [Threads -> 0..MaxGoals] /\ asked \in 0..MaxGoals
      /\ mailbox \in [Reactive -> 0..MaxGoals]
      /\ target \in [Reactive -> 0..MaxGoals] /\ taken \in 0..MaxGoals
      /\ MaxGoals \in Nat /\ NumbersOK /\ OrderOK /\ t \in Threads
  BY DEF AdvanceInv, ThreadsOK, GoalTypes, ReactiveAssumption, Threads
<1>1. CASE GoalSet(t)
  <2>1. /\ UNCHANGED <<mailbox, taken, asked, request, call>>
        /\ call[t] \in Reactive
        /\ target' = [target EXCEPT ![call[t]] = request[t]]
        /\ pc' = [pc EXCEPT ![t] = "discard"]
    BY <1>1 DEF GoalSet, Goto, loopVars, countVars, callVars
  <2>2. NumbersOK'
    BY <1>0, <2>1 DEF NumbersOK
  <2>3. Me' = Me
    BY <2>1 DEF Me
  <2>4. CASE t = "exec"
    BY <1>0, <2>1, <2>2, <2>4 DEF OrderOK, At, Servoing
  <2>5. CASE t = "preview"
    <3>1. pc'["exec"] = pc["exec"]
      BY <1>0, <2>1, <2>5 DEF Threads
    <3>2. CASE call[t] = Me
      <4>1. target'[Me] = request["preview"]
        BY <1>0, <2>1, <2>5, <3>2
      <4>2. request["preview"] \in Nat
        BY <1>0 DEF Threads
      <4>3. OrderOK'
        BY <1>0, <2>1, <2>3, <3>1, <4>1, <4>2 DEF OrderOK, Newer, At, Servoing
      <4> QED
        BY <2>2, <4>3
    <3>3. CASE call[t] # Me
      <4>1. target'[Me] = target[Me]
        BY <1>0, <2>1, <3>3
      <4>2. OrderOK'
        BY <1>0, <2>1, <2>3, <3>1, <4>1 DEF OrderOK, Newer, At, Servoing
      <4> QED
        BY <2>2, <4>2
    <3> QED
      BY <3>2, <3>3
  <2>6. CASE t = "switch"
    BY <1>0, <1>1, <2>6 DEF GoalSet, AdvanceInv, SettersOK
  <2> QED
    BY <2>4, <2>5, <2>6
<1>2. CASE Discard(t)
  <2>1. /\ UNCHANGED <<target, taken, asked, request, call>>
        /\ mailbox' = [mailbox EXCEPT ![call[t]] = 0]
        /\ pc' = [pc EXCEPT ![t] = IF t = "exec" THEN "enter" ELSE "report"]
        /\ pc[t] = "discard"
    BY <1>2 DEF Discard, Goto, loopVars, countVars, callVars
  <2>2. call[t] \in Reactive
    BY <1>0, <2>1 DEF AdvanceInv, ServoOK
  <2>3. NumbersOK'
    BY <1>0, <2>1, <2>2 DEF NumbersOK
  <2>4. Me' = Me
    BY <2>1 DEF Me
  <2>5. CASE t = "exec"
    <3>1. mailbox'[Me] = 0 /\ pc'["exec"] = "enter"
      BY <1>0, <2>1, <2>2, <2>5 DEF Me
    <3> QED
      BY <2>3, <2>4, <3>1 DEF OrderOK, At
  <2>6. CASE t # "exec"
    <3>1. pc'["exec"] = pc["exec"] /\ mailbox'[Me] \in {mailbox[Me], 0}
      BY <1>0, <2>1, <2>2, <2>6 DEF Threads
    <3>2. OrderOK'
      BY <1>0, <2>1, <2>4, <3>1 DEF OrderOK, Newer, At, Servoing
    <3> QED
      BY <2>3, <3>2
  <2> QED
    BY <2>5, <2>6
<1>3. CASE ~GoalSet(t) /\ ~Discard(t)
  <2>1. /\ UNCHANGED <<mailbox, target, taken, asked, request>>
        /\ call' = call
    BY <1>3 DEF Begin, Setup, Refresh, Plan, PlanBuilds, Finish, SetupDone,
       SetupFails, Refreshed, PlanFails, OpenLoopPlanned, Report, countVars, callVars,
       mailVars, loopVars
  <2>2. \/ pc'["exec"] = pc["exec"]
        \/ /\ pc'["exec"] \notin {"apply", "applying"}
           /\ \/ pc["exec"] \in Servoing \cup {"enter"}
              \/ pc'["exec"] \notin Servoing \cup {"enter"}
    <3>1. CASE Begin(t)
      BY <1>0, <3>1 DEF Begin, Setup, Refresh, Plan, PlanBuilds, Goto, Threads,
                        Servoing
    <3>2. CASE Finish(t)
      BY <1>0, <1>3, <3>2 DEF Finish, SetupDone, SetupFails, Refreshed,
         PlanFails, OpenLoopPlanned, Report, GiveUp, Goto, Threads, Servoing
    <3> QED
      BY <3>1, <3>2
  <2> QED
    BY <2>1, <2>2, GoalsStay
<1> QED
  BY <1>1, <1>2, <1>3

LEMMA LoopKeepsOrder ==
  ASSUME ReactiveAssumption, AdvanceInv, LoopStep
  PROVE  NumbersOK' /\ OrderOK'
<1>0. /\ pc \in [Threads -> Labels] /\ "exec" \in Threads
      /\ mailbox \in [Reactive -> 0..MaxGoals] /\ asked \in Nat
      /\ target \in [Reactive -> 0..MaxGoals] /\ taken \in 0..MaxGoals
      /\ MaxGoals \in Nat /\ NumbersOK /\ OrderOK
      /\ pc["exec"] \in Servoing => Me \in Reactive
  BY DEF AdvanceInv, ThreadsOK, GoalTypes, ServoOK, ReactiveAssumption, Me,
         Threads
<1>1. CASE TakeLiveGoal
  <2>1. /\ pc[ "exec"] = "take" /\ Me' = Me /\ Me \in Reactive
        /\ taken' = mailbox[Me] /\ mailbox' = [mailbox EXCEPT ![Me] = 0]
        /\ UNCHANGED <<target, asked, request>>
        /\ pc'["exec"] = IF mailbox[Me] = 0 THEN "guard" ELSE "apply"
    BY <1>0, <1>1 DEF TakeLiveGoal, At, Goto, countVars, callVars, Me, Servoing
  <2>2. NumbersOK'
    BY <1>0, <2>1 DEF NumbersOK
  <2>3. OrderOK'
    BY <1>0, <2>1 DEF OrderOK, Newer, At, Servoing
  <2> QED
    BY <2>2, <2>3
<1>2. CASE LiveGoalApplied
  <2>1. /\ pc["exec"] = "applying" /\ Me' = Me /\ Me \in Reactive
        /\ taken' = 0 /\ pc'["exec"] = "guard"
        /\ UNCHANGED <<mailbox, asked, request>>
        /\ target' \in {target, [target EXCEPT ![Me] = taken]}
    BY <1>0, <1>2 DEF LiveGoalApplied, At, Goto, countVars, callVars, Me,
                      Servoing
  <2>2. NumbersOK'
    BY <1>0, <2>1 DEF NumbersOK
  <2>3. target'[Me] \in {target[Me], taken}
    BY <1>0, <2>1
  <2>4. OrderOK'
    BY <1>0, <2>1, <2>3 DEF OrderOK, Newer, At, Servoing
  <2> QED
    BY <2>2, <2>4
<1>3. CASE ~TakeLiveGoal /\ ~LiveGoalApplied
  <2>1. UNCHANGED <<mailbox, target, asked, request, call, taken>>
    BY <1>3 DEF LoopStep, Enter, Top, ApplyLiveGoal, StepGuard, Step, Stepped,
       Send, LoopRaises, StopRobot, countVars, callVars, loopVars,
       mailVars
  <2>2. \/ /\ pc'["exec"] \notin {"apply", "applying"}
           /\ pc["exec"] \in Servoing \cup {"enter"}
        \/ At("apply") /\ pc'["exec"] = "applying"
        \/ pc'["exec"] = "idle"
    <3>1. CASE Enter \/ Top \/ ApplyLiveGoal \/ StepGuard
      BY <1>0, <3>1 DEF Enter, Top, ApplyLiveGoal, StepGuard, At, Goto, Servoing
    <3>2. CASE Step \/ Stepped \/ Send \/ LoopRaises
      BY <1>0, <3>2 DEF Step, Stepped, Send, LoopRaises, At, Goto, Servoing
    <3>3. CASE StopRobot
      BY <1>0, <3>3 DEF StopRobot, At, Goto, Servoing
    <3> QED
      BY <1>3, <3>1, <3>2, <3>3 DEF LoopStep
  <2>3. NumbersOK'
    BY <1>0, <2>1 DEF NumbersOK
  <2>4. OrderOK'
    BY <1>0, <2>1, <2>2 DEF OrderOK, Newer, Me, At, Servoing
  <2> QED
    BY <2>3, <2>4
<1> QED
  BY <1>1, <1>2, <1>3

LEMMA OrderStep ==
  ASSUME ReactiveAssumption, AdvanceInv, [Next]_vars
  PROVE  NumbersOK' /\ OrderOK'
<1>0. /\ pc \in [Threads -> Labels] /\ "exec" \in Threads
      /\ target \in [Reactive -> 0..MaxGoals] /\ asked \in 0..MaxGoals
      /\ request \in [Threads -> 0..MaxGoals] /\ "preview" \in Threads
      /\ taken \in 0..MaxGoals /\ mailbox \in [Reactive -> 0..MaxGoals]
      /\ MaxGoals \in Nat
      /\ pc["exec"] \in Servoing \cup {"enter"} => Me \in Reactive
  BY DEF AdvanceInv, ThreadsOK, GoalTypes, ServoOK, Threads, Me,
         ReactiveAssumption
<1>1. CASE Requests \/ SetPlanner
  BY <1>1, RequestsKeepOrder
<1>2. ASSUME NEW t \in {"exec", "preview", "switch"}, Begin(t) \/ Finish(t)
      PROVE  NumbersOK' /\ OrderOK'
  BY <1>2, PlansKeepOrder
<1>3. CASE LoopStep
  BY <1>3, LoopKeepsOrder
<1>4. CASE RebuildEnd
  <2>1. /\ UNCHANGED <<mailbox, taken, asked, request, call>>
        /\ target' = [c \in Reactive |-> IF c \in dropped THEN 0 ELSE target[c]]
        /\ pc'["exec"] = pc["exec"]
    BY <1>0, <1>4 DEF RebuildEnd, Goto, loopVars, countVars, callVars
  <2>2. \A c \in Reactive : target'[c] \in {0, target[c]}
    BY <2>1
  <2>3. NumbersOK'
    BY <1>0, <2>1, <2>2 DEF NumbersOK, AdvanceInv
  <2>4. OrderOK'
    BY <1>0, <2>1, <2>2 DEF OrderOK, Newer, At, Servoing, Me, AdvanceInv
  <2> QED
    BY <2>3, <2>4
<1>5. CASE \/ CancelStep \/ RebuildBegin \/ RebuildReactive \/ ReconfigureEnd
           \/ Integrate \/ Integrated \/ UNCHANGED vars
  <2>1. /\ UNCHANGED <<mailbox, target, taken, asked, request, call>>
        /\ pc'["exec"] = pc["exec"]
    BY <1>0, <1>5 DEF CancelStep, CancelStops, CancelFlags, CancelMarks,
       RebuildBegin, RebuildReactive, ReconfigureEnd, Integrate, Integrated,
       Goto, vars, mailVars, loopVars, countVars, callVars
  <2> QED
    BY <2>1, GoalsStay
<1> QED
  BY <1>1, <1>2, <1>3, <1>4, <1>5 DEF Next, ServiceStep

(* While a live goal is applied, nobody else sets the session's.           *)
LEMMA AppliedIsNewer ==
  ASSUME AdvanceInv, [Next]_vars, At("applying"), target'[Me] # target[Me]
  PROVE  target'[Me] > target[Me] \/ target[Me] <= request["preview"]
<1>0. /\ target \in [Reactive -> 0..MaxGoals] /\ Me \in Reactive
      /\ gpu = "exec" /\ Newer(taken)
  BY DEF AdvanceInv, GoalTypes, ServoOK, SettersOK, OrderOK, At, Servoing,
         Threads, Me
<1>1. CASE LiveGoalApplied
  <2>1. target'[Me] = taken
    BY <1>0, <1>1 DEF LiveGoalApplied
  <2> QED
    BY <1>0, <2>1 DEF Newer
<1>2. CASE \E t \in {"exec", "preview", "switch"} : GoalSet(t)
  BY <1>0, <1>2 DEF GoalSet, AdvanceInv, SettersOK, Threads, At
<1>3. CASE RebuildEnd
  BY <1>0, <1>3 DEF RebuildEnd, AdvanceInv, RebuildOK
<1>4. CASE ~LiveGoalApplied /\ ~RebuildEnd
           /\ ~\E t \in {"exec", "preview", "switch"} : GoalSet(t)
  <2>1. CASE Requests \/ SetPlanner \/ CancelStep
    BY <2>1 DEF Requests, ExecStart, PreviewStart, SetCollisionCache,
       UpdateMotionGenConfig, LiveGoal, SetPlannerCheck, SetPlanner,
       CancelStep, CancelStops, CancelFlags, CancelMarks, mailVars
  <2>2. CASE \E t \in {"exec", "preview", "switch"} : Begin(t)
    BY <2>2 DEF Begin, Setup, Refresh, Plan, PlanBuilds, mailVars
  <2>3. CASE \E t \in {"exec", "preview", "switch"} : Finish(t)
    BY <1>4, <2>3 DEF Finish, SetupDone, SetupFails, Refreshed, PlanFails,
       OpenLoopPlanned, Discard, Report, mailVars
  <2>4. CASE LoopStep
    BY <1>4, <2>4 DEF LoopStep, Enter, Top, TakeLiveGoal, ApplyLiveGoal,
       StepGuard, Step, Stepped, Send, LoopRaises, StopRobot, mailVars
  <2>5. CASE ServiceStep \/ Integrate \/ Integrated \/ UNCHANGED vars
    BY <1>4, <2>5 DEF ServiceStep, RebuildBegin, RebuildReactive,
       ReconfigureEnd, Integrate, Integrated, vars, mailVars
  <2> QED
    BY <2>1, <2>2, <2>3, <2>4, <2>5 DEF Next
<1> QED
  BY <1>1, <1>2, <1>3, <1>4

(* A session never goes back to an older goal, for any controllers, goals, *)
(* previews and rebuilds, whichever planner they are given to.             *)
THEOREM GoalsOnlyAdvance == Spec => GoalsAdvance
<1>1. Init => AdvanceInv
  <2> SUFFICES ASSUME Init PROVE AdvanceInv
    OBVIOUS
  <2> USE ReactiveAssumption
      DEF ReactiveAssumption, Init, Threads, Planners, Labels, Built, Servoing
  <2>1. RestInv /\ ThreadsOK /\ ServoOK
    BY DEF RestInv, ThreadsOK, ServoOK
  <2>2. GoalTypes /\ RebuildOK /\ NumbersOK
    BY DEF GoalTypes, RebuildOK, NumbersOK
  <2>3. SettersOK /\ OrderOK
    BY DEF SettersOK, OrderOK, At
  <2> QED
    BY <2>1, <2>2, <2>3 DEF AdvanceInv
<1>2. AdvanceInv /\ [Next]_vars => AdvanceInv'
  BY ReactiveAssumption, RestStep, ThreadsStep, ServoStep, GoalStep,
     RebuildStep, SettersStep, OrderStep
     DEF AdvanceInv
<1>3. AdvanceInv /\ [Next]_vars =>
        [At("applying") /\ target'[Me] # target[Me] =>
           target'[Me] > target[Me] \/ target[Me] <= request["preview"]]_vars
  BY AppliedIsNewer
<1> QED
  BY <1>1, <1>2, <1>3, PTL DEF Spec, GoalsAdvance
=============================================================================
