--------------------------- MODULE UnifiedPlanner ---------------------------
(***************************************************************************)
(* The planning and execution surface of core/unified_planner_node.py over *)
(* its open-loop planners (planners/single_planner.py), composed with      *)
(* RobotContext and the trajectory controller of ActionClient.             *)
(*                                                                         *)
(* A call is one request to the node: an execute_trajectory action goal, a *)
(* generate_trajectory (preview) request or a trajectory_generation_batch  *)
(* request.  The node runs on a multi-threaded executor: the action lives  *)
(* in a reentrant callback group, each service in a group of its own, so   *)
(* calls of different surfaces interleave wherever no lock is held.  Each  *)
(* call has a program counter; an action is the code between two points    *)
(* where another thread can be told apart.                                 *)
(*                                                                         *)
(* A target stands for a goal request that leaves start_pose empty (the    *)
(* start is the measured joint pose), a plan for the trajectory between    *)
(* two poses; a plan that is being followed passes through Midway.         *)
(***************************************************************************)
EXTENDS RobotContext

CONSTANTS
  Executes, Previews, Batches,  \* the calls, by surface
  Planners,      \* open-loop planner types, one cached object each
  FirstPlanner,  \* the planner_type parameter
  Targets,       \* what a request may ask for
  Home, Midway,  \* the pose at start, and any pose between two others
  UseCudaGraph,  \* config_wrapper_motion.use_cuda_graph
  Cancels,       \* whether clients cancel execution goals
  NoPlanner      \* no set_planner request is being served

Calls == Executes \cup Previews \cup Batches
Poses == Targets \cup {Home, Midway}

ASSUME PlannerAssumption ==
  /\ Executes \cap Previews = {} /\ Batches \cap (Executes \cup Previews) = {}
  /\ FirstPlanner \in Planners /\ NoPlanner \notin Planners
  /\ Nothing \notin Calls
  /\ Nothing \notin [type : Planners, plan : Trajectories]
  /\ Home # Midway /\ Targets \cap {Home, Midway} = {}
  /\ Trajectories = [from : Poses, to : Targets]
  /\ UseCudaGraph \in BOOLEAN /\ Cancels \in BOOLEAN

VARIABLES
  goalActive,   \* _goal_active
  current,      \* PlannerManager._current_planner (the object)
  currentType,  \* PlannerManager._current_planner_type
  switching,    \* the set_planner request past its goal check
  pending,      \* _pending_plan, or Nothing
  planned,      \* planned_trajectory of each planner object
  cmdEpoch,     \* _command_epoch of each planner object
  cancelled,    \* _cancelled of each planner object
  gpu,          \* the call that holds gpu_lock for a whole plan, or Nothing
  own,          \* history: the execution call that stored its plan, as long as
                \* no other call stored or loaded one since; or Nothing
  pc,           \* where each call stands
  job,          \* what each call holds in its locals
  cancel,       \* how far the cancel request of each execution goal got
  verdict,      \* the terminal state of each execution goal
  pose          \* the measured joint pose

plannerVars == <<current, currentType, switching>>
callVars    == <<pc, job, cancel, verdict>>
solverVars  == <<planned, cmdEpoch, gpu, own>>
vars == <<contextVars, plannerVars, callVars, solverVars,
          goalActive, pending, cancelled, pose>>

NoJob == [on |-> FirstPlanner, want |-> Nothing, start |-> Home,
          epoch |-> NoEpoch, goal |-> NoGoal, own |-> FALSE]

(* The plan a call asks for: from the pose it resolved to its target.      *)
Wanted(c) == [from |-> job[c].start, to |-> job[c].want]

Init ==
  /\ ContextInit
  /\ goalActive = FALSE
  /\ current = FirstPlanner /\ currentType = FirstPlanner
  /\ switching = NoPlanner
  /\ pending = Nothing
  /\ planned = [p \in Planners |-> Nothing]
  /\ cmdEpoch = [p \in Planners |-> NoEpoch]
  /\ cancelled = [p \in Planners |-> FALSE]
  /\ gpu = Nothing /\ own = Nothing
  /\ pc = [c \in Calls |-> "idle"]
  /\ job = [c \in Calls |-> NoJob]
  /\ cancel = [c \in Executes |-> "none"]
  /\ verdict = [c \in Executes |-> "none"]
  /\ pose = Home

Goto(c, at) == pc' = [pc EXCEPT ![c] = at]

-----------------------------------------------------------------------------
(* goal_callback: test and set of the slot under _goal_lock.               *)
GoalCallback(c) ==
  /\ pc[c] = "idle"
  /\ IF goalActive
     THEN Goto(c, "rejected") /\ UNCHANGED goalActive
     ELSE Goto(c, "admitted") /\ goalActive' = TRUE
  /\ UNCHANGED <<contextVars, plannerVars, solverVars, job, cancel, verdict,
                 pending, cancelled, pose>>

(* The head of every surface: read the current planner object, and resolve *)
(* the start from the measured pose.                                       *)
Resolve(c, at) ==
  /\ \E t \in Targets :
       job' = [job EXCEPT ![c] = [NoJob EXCEPT !.on = current, !.want = t,
                                               !.start = pose]]
  /\ Goto(c, at)
  /\ UNCHANGED <<contextVars, plannerVars, solverVars, cancel, verdict,
                 goalActive, pending, cancelled, pose>>

ExecuteStart(c) == pc[c] = "admitted" /\ Resolve(c, "setup")

(* A call fails: a goal aborts, a service answers.                         *)
GiveUp(c) ==
  IF c \in Executes
  THEN Goto(c, "ending") /\ verdict' = [verdict EXCEPT ![c] = "aborted"]
  ELSE Goto(c, "done") /\ UNCHANGED verdict

(* _check_goal_request refuses the request, or an exception comes on the   *)
(* way to the plan.                                                        *)
Refuse(c) ==
  /\ pc[c] \in {"setup", "plan"}
  /\ GiveUp(c)
  /\ UNCHANGED <<contextVars, plannerVars, solverVars, job, cancel,
                 goalActive, pending, cancelled, pose>>

(* A service runs in a mutually exclusive group: one request at a time.    *)
ServiceFree(surface) == \A d \in surface : pc[d] \in {"idle", "done"}

PreviewStart(c) ==
  pc[c] = "idle" /\ ServiceFree(Previews) /\ Resolve(c, "plan")

(* A batch of several problems is several calls.                           *)
BatchStart(c) ==
  pc[c] = "idle" /\ ServiceFree(Batches) /\ Resolve(c, "plan")

(* _pending_plan_matches.                                                  *)
PendingMatches(c) ==
  pending = [type |-> currentType, plan |-> Wanted(c)]

(* The cached preview is used: _setup_planner (gpu_lock is free) and the   *)
(* match; allow_cached and the cache's time to live may say no instead.    *)
ReusePending(c) ==
  /\ pc[c] = "setup" /\ gpu = Nothing
  /\ PendingMatches(c)
  /\ Goto(c, "ready")
  /\ UNCHANGED <<contextVars, plannerVars, solverVars, job, cancel, verdict,
                 goalActive, pending, cancelled, pose>>

DeclinePending(c) ==
  /\ pc[c] = "setup" /\ gpu = Nothing
  /\ Goto(c, "plan")
  /\ UNCHANGED <<contextVars, plannerVars, solverVars, job, cancel, verdict,
                 goalActive, pending, cancelled, pose>>

-----------------------------------------------------------------------------
(* Mutant: the plan lock is not taken.                                     *)
PlanBeginUnlocked(c) ==
  /\ pc[c] = "plan"
  /\ cmdEpoch' = [cmdEpoch EXCEPT ![job[c].on] = NoEpoch]
  /\ Goto(c, "solving")
  /\ UNCHANGED <<contextVars, plannerVars, job, cancel, verdict, planned, gpu,
                 own, goalActive, pending, cancelled, pose>>

(* planner.plan(), shared by the three surfaces; _plan_lock holds gpu_lock *)
(* for all of it when CUDA graphs are used.  _setup_planner before it takes *)
(* gpu_lock in any case.  plan_batch keeps the epoch while it solves.      *)
PlanBegin(c) ==
  /\ pc[c] = "plan" /\ gpu = Nothing
  /\ gpu' = IF UseCudaGraph THEN c ELSE gpu
  /\ \/ cmdEpoch' = [cmdEpoch EXCEPT ![job[c].on] = NoEpoch]
     \/ c \in Batches /\ UNCHANGED cmdEpoch
  /\ Goto(c, "solving")
  /\ UNCHANGED <<contextVars, plannerVars, job, cancel, verdict, planned, own,
                 goalActive, pending, cancelled, pose>>

Unlock(c) == gpu' = IF gpu = c THEN Nothing ELSE gpu

(* Mutant: the slot is freed on the spot, and again at the end.            *)
PlanFailsFreesSlot(c) ==
  /\ pc[c] = "solving" /\ c \in Executes
  /\ Goto(c, "ending") /\ verdict' = [verdict EXCEPT ![c] = "aborted"]
  /\ goalActive' = FALSE
  /\ Unlock(c)
  /\ UNCHANGED <<contextVars, plannerVars, job, cancel, planned, cmdEpoch,
                 own, pending, cancelled, pose>>

(* No solution: the previous trajectory stays.  Or an exception: a stored  *)
(* trajectory stays too, but not in the command buffers.  The pending plan *)
(* is kept.                                                                *)
PlanFails(c) ==
  /\ pc[c] \in {"solving", "solved"}
  /\ cmdEpoch' = [cmdEpoch EXCEPT ![job[c].on] = NoEpoch]
  /\ own' = IF own = c THEN Nothing ELSE own
  /\ Unlock(c)
  /\ GiveUp(c)
  /\ UNCHANGED <<contextVars, plannerVars, job, cancel, planned,
                 goalActive, pending, cancelled, pose>>

(* Mutant: a trajectory the planner already holds is kept.                 *)
PlanSolvedKeepsOld(c) ==
  /\ pc[c] = "solving"
  /\ cmdEpoch' = [cmdEpoch EXCEPT ![job[c].on] = NoEpoch]
  /\ planned' = [planned EXCEPT ![job[c].on] =
                   IF @ = Nothing THEN Wanted(c) ELSE @]
  /\ own' = IF c \in Executes THEN c ELSE Nothing
  /\ Goto(c, "solved")
  /\ UNCHANGED <<contextVars, plannerVars, job, cancel, verdict, gpu,
                 goalActive, pending, cancelled, pose>>

(* _finalize_plan_result: the epoch is reset, the trajectory stored, ...   *)
PlanSolved(c) ==
  /\ pc[c] = "solving"
  /\ cmdEpoch' = [cmdEpoch EXCEPT ![job[c].on] = NoEpoch]
  /\ planned' = [planned EXCEPT ![job[c].on] = Wanted(c)]
  /\ own' = IF c \in Executes THEN c ELSE Nothing
  /\ Goto(c, "solved")
  /\ UNCHANGED <<contextVars, plannerVars, job, cancel, verdict, gpu,
                 goalActive, pending, cancelled, pose>>

(* ... what the planner object holds goes to the command buffers, ...      *)
PlanLoads(c) ==
  /\ pc[c] = "solved"
  /\ SetCommand(planned[job[c].on])
  /\ job' = [job EXCEPT ![c].epoch = epoch']
  /\ own' = IF own = c THEN own ELSE Nothing
  /\ Goto(c, "loaded")
  /\ UNCHANGED <<plannerVars, cancel, verdict, planned, cmdEpoch, gpu,
                 goalActive, pending, cancelled, pose>>

(* ... and the epoch of that load is kept.                                 *)
PlanDone(c) ==
  /\ pc[c] = "loaded"
  /\ cmdEpoch' = [cmdEpoch EXCEPT ![job[c].on] = job[c].epoch]
  /\ Unlock(c)
  /\ Goto(c, CASE c \in Executes -> "ready"
               [] c \in Previews -> "store"
               [] c \in Batches  -> "done")
  /\ UNCHANGED <<contextVars, plannerVars, job, cancel, verdict, planned, own,
                 goalActive, pending, cancelled, pose>>

(* The end of generate_trajectory_callback: the start is resolved anew and *)
(* the planner's type is read anew.                                        *)
StorePending(c) ==
  /\ pc[c] = "store"
  /\ pending' = [type |-> currentType,
                 plan |-> [from |-> pose, to |-> job[c].want]]
  /\ Goto(c, "done")
  /\ UNCHANGED <<contextVars, plannerVars, solverVars, job, cancel, verdict,
                 goalActive, cancelled, pose>>

(* clear_trajectory_callback.                                              *)
ClearTrajectory ==
  /\ pending # Nothing
  /\ pending' = Nothing
  /\ UNCHANGED <<contextVars, plannerVars, callVars, solverVars, goalActive,
                 cancelled, pose>>

-----------------------------------------------------------------------------
(* planner.execute().                                                      *)

(* The pending plan is consumed, the cancel flag reset and the epoch to be *)
(* expected read.  Without a trajectory there is nothing to execute.       *)
ExecuteBegin(c) ==
  /\ pc[c] = "ready"
  /\ pending' = Nothing
  /\ LET p == job[c].on
     IN  \/ /\ planned[p] = Nothing
            /\ Goto(c, "failing")
            /\ UNCHANGED <<cancelled, job>>
         \/ /\ planned[p] # Nothing
            /\ cancelled' = [cancelled EXCEPT ![p] = FALSE]
            /\ job' = [job EXCEPT ![c].epoch = cmdEpoch[p]]
            /\ Goto(c, "sending")
  /\ UNCHANGED <<contextVars, plannerVars, solverVars, cancel, verdict,
                 goalActive, pose>>

(* send_trajectrory(expect_epoch): sent, raised (no action server) or      *)
(* refused.                                                                *)
ExecuteSend(c) ==
  /\ pc[c] = "sending"
  /\ \/ /\ SendTrajectory(job[c].epoch, Wanted(c))
        /\ job' = [job EXCEPT ![c].goal = sends + 1, ![c].own = (own = c)]
        /\ Goto(c, "running")
     \/ /\ SendTrajectoryRaises(job[c].epoch)
        /\ Goto(c, "stopping")
        /\ UNCHANGED job
     \/ /\ ~EpochMatches(job[c].epoch)
        /\ Goto(c, "failing")
        /\ UNCHANGED <<contextVars, job>>
  /\ own' = Nothing
  /\ UNCHANGED <<plannerVars, cancel, verdict, planned, cmdEpoch, gpu,
                 goalActive, pending, cancelled, pose>>

(* The loop samples a completed progression and is about to leave.         *)
SeesComplete(c) ==
  /\ pc[c] = "running"
  /\ Progression = 1
  /\ Goto(c, "exiting")
  /\ UNCHANGED <<contextVars, plannerVars, solverVars, job, cancel, verdict,
                 goalActive, pending, cancelled, pose>>

(* The loop's exit by the planner object's flag; it is looked at again     *)
(* after the loop.                                                         *)
ExitCancelled(c) ==
  /\ pc[c] \in {"running", "exiting"}
  /\ cancelled[job[c].on]
  /\ Goto(c, "failing")
  /\ UNCHANGED <<contextVars, plannerVars, solverVars, job, cancel, verdict,
                 goalActive, pending, cancelled, pose>>

(* The progression is read again: a failure that came after the sample     *)
(* still counts.                                                           *)
ExitCompleted(c) ==
  /\ pc[c] = "exiting"
  /\ ~cancelled[job[c].on]
  /\ Goto(c, IF Progression < 0 THEN "stopping" ELSE "succeeding")
  /\ UNCHANGED <<contextVars, plannerVars, solverVars, job, cancel, verdict,
                 goalActive, pending, cancelled, pose>>

(* stop_robot after a failed result or a raised send.                      *)
StopAfterFailure(c) ==
  /\ pc[c] = "stopping"
  /\ StopRobot
  /\ Goto(c, "failing")
  /\ UNCHANGED <<plannerVars, solverVars, job, cancel, verdict, goalActive,
                 pending, cancelled, pose>>

(* The end of _execute_goal: a cancel request takes precedence over what   *)
(* execute() returned.                                                     *)
Report(c) ==
  /\ pc[c] \in {"succeeding", "failing"}
  /\ verdict' = [verdict EXCEPT ![c] =
       IF cancel[c] = "requested" THEN "canceled"
       ELSE IF pc[c] = "succeeding" THEN "succeeded" ELSE "aborted"]
  /\ Goto(c, "ending")
  /\ UNCHANGED <<contextVars, plannerVars, solverVars, job, cancel,
                 goalActive, pending, cancelled, pose>>

(* Mutant: the slot is freed only on the way out of a success.             *)
FreeSlotOnSuccess(c) ==
  /\ pc[c] = "ending"
  /\ goalActive' = (verdict[c] # "succeeded")
  /\ Goto(c, IF verdict[c] = "succeeded" THEN "done" ELSE "ending")
  /\ UNCHANGED <<contextVars, plannerVars, solverVars, job, cancel, verdict,
                 pending, cancelled, pose>>

(* The finally of execute_callback.                                        *)
FreeSlot(c) ==
  /\ pc[c] = "ending"
  /\ goalActive' = FALSE
  /\ Goto(c, "done")
  /\ UNCHANGED <<contextVars, plannerVars, solverVars, job, cancel, verdict,
                 pending, cancelled, pose>>

-----------------------------------------------------------------------------
(* cancel_callback: first the robot is stopped, ...                        *)
CancelStops(c) ==
  /\ Cancels
  /\ pc[c] \notin {"idle", "rejected"} /\ verdict[c] = "none"
  /\ cancel[c] = "none"
  /\ StopRobot
  /\ cancel' = [cancel EXCEPT ![c] = "stopped"]
  /\ UNCHANGED <<plannerVars, solverVars, pc, job, verdict, goalActive,
                 pending, cancelled, pose>>

(* ... then the current planner is told, ...                               *)
CancelFlags(c) ==
  /\ cancel[c] = "stopped"
  /\ cancelled' = [cancelled EXCEPT ![current] = TRUE]
  /\ cancel' = [cancel EXCEPT ![c] = "flagged"]
  /\ UNCHANGED <<contextVars, plannerVars, solverVars, pc, job, verdict,
                 goalActive, pending, pose>>

(* ... and only when the callback has returned does the action server mark *)
(* the goal (is_cancel_requested), unless it has ended meanwhile.          *)
CancelMarks(c) ==
  /\ cancel[c] = "flagged"
  /\ cancel' = [cancel EXCEPT ![c] = IF verdict[c] = "none"
                                     THEN "requested" ELSE "late"]
  /\ UNCHANGED <<contextVars, plannerVars, solverVars, pc, job, verdict,
                 goalActive, pending, cancelled, pose>>

-----------------------------------------------------------------------------
(* set_planner_callback: the check under _goal_lock, ...                   *)
SetPlannerCheck(p) ==
  /\ switching = NoPlanner
  /\ ~goalActive
  /\ p # currentType
  /\ switching' = p
  /\ UNCHANGED <<contextVars, callVars, solverVars, current, currentType,
                 goalActive, pending, cancelled, pose>>

(* ... then, with the lock released, PlannerManager.set_current_planner    *)
(* writes the object and ...                                               *)
SetPlannerObject ==
  /\ switching # NoPlanner /\ current # switching
  /\ current' = switching
  /\ UNCHANGED <<contextVars, callVars, solverVars, currentType, switching,
                 goalActive, pending, cancelled, pose>>

(* ... its type.                                                           *)
SetPlannerType ==
  /\ switching # NoPlanner /\ current = switching
  /\ currentType' = switching
  /\ switching' = NoPlanner
  /\ UNCHANGED <<contextVars, callVars, solverVars, current, goalActive,
                 pending, cancelled, pose>>

SwitchStrategy ==
  /\ \E name \in Strategies : SetRobotStrategy(name)
  /\ UNCHANGED <<plannerVars, callVars, solverVars, goalActive, pending,
                 cancelled, pose>>

-----------------------------------------------------------------------------
(* The controller and the action client's callbacks; the robot moves along *)
(* the trajectory that is being executed.                                  *)
ControllerMoves(g) ==
  \/ /\ Accept(g)
     /\ pose' = IF sent[g].traj = Nothing THEN pose ELSE Midway
  \/ /\ \E v \in Verdicts : Finish(g, v)
     /\ pose' = IF goals'[g].status = "succeeded" /\ sent[g].traj # Nothing
                THEN sent[g].traj.to ELSE pose
  \/ Reject(g) /\ UNCHANGED pose
  \/ HonourCancel(g) /\ UNCHANGED pose

MessageArrives(g) ==
  /\ \/ ResponseArrives(g) \/ ResponseApplied(g)
     \/ ResultArrives(g) \/ ResultApplied(g)
  /\ UNCHANGED pose

ContextStep(g) ==
  /\ \/ ControllerMoves(g)
     \/ MessageArrives(g)
  /\ UNCHANGED <<strategy, buffer, epoch, sent, plannerVars, callVars,
                 solverVars, goalActive, pending, cancelled>>

FeedbackStep(g) ==
  /\ \E f \in Fractions : Feedback(g, f)
  /\ UNCHANGED <<strategy, buffer, epoch, sent, plannerVars, callVars,
                 solverVars, goalActive, pending, cancelled, pose>>

(* The steps of a plan; plan_batch takes them for each of its problems.    *)
PlanStep(c) ==
  PlanBegin(c) \/ PlanFails(c) \/ PlanSolved(c) \/ PlanLoads(c) \/ PlanDone(c)

ExecuteStep(c) ==
  \/ ExecuteStart(c) \/ ReusePending(c) \/ DeclinePending(c)
  \/ ExecuteBegin(c) \/ ExecuteSend(c)
  \/ SeesComplete(c) \/ ExitCancelled(c) \/ ExitCompleted(c)
  \/ StopAfterFailure(c) \/ Report(c) \/ FreeSlot(c)

CancelStep(c) == CancelStops(c) \/ CancelFlags(c) \/ CancelMarks(c)

Next ==
  \/ \E c \in Executes : GoalCallback(c) \/ ExecuteStep(c) \/ CancelStep(c)
  \/ \E c \in Previews : PreviewStart(c) \/ StorePending(c)
  \/ \E c \in Batches : BatchStart(c)
  \/ \E c \in Calls : PlanStep(c) \/ Refuse(c)
  \/ ClearTrajectory
  \/ \E p \in Planners : SetPlannerCheck(p)
  \/ SetPlannerObject \/ SetPlannerType
  \/ SwitchStrategy
  \/ \E g \in GoalIds : ContextStep(g) \/ FeedbackStep(g)

Spec == Init /\ [][Next]_vars

(* Every thread that can go on does; the controller serves its goals.      *)
(* Whether clients send, cancel or switch anything is up to them; nothing  *)
(* is assumed to be refused.                                               *)
Fairness ==
  /\ \A c \in Executes : WF_vars(ExecuteStep(c)) /\ WF_vars(CancelFlags(c))
                         /\ WF_vars(CancelMarks(c))
  /\ \A c \in Previews : WF_vars(StorePending(c))
  /\ \A c \in Calls : SF_vars(PlanBegin(c)) /\ WF_vars(PlanStep(c))
  /\ WF_vars(SetPlannerObject \/ SetPlannerType)
  /\ \A g \in GoalIds : WF_vars(ContextStep(g))

FairSpec == Spec /\ Fairness

-----------------------------------------------------------------------------
PcValues ==
  {"idle", "rejected", "admitted", "setup", "plan", "solving", "solved",
   "loaded", "store", "ready", "sending", "running", "exiting", "stopping",
   "succeeding", "failing", "ending", "done"}

JobRecord ==
  [on : Planners, want : Targets \cup {Nothing}, start : Poses,
   epoch : Nat \cup {NoEpoch}, goal : GoalIds \cup {NoGoal},
   own : BOOLEAN]

TypeOK ==
  /\ ContextTypeOK
  /\ goalActive \in BOOLEAN
  /\ current \in Planners /\ currentType \in Planners
  /\ switching \in Planners \cup {NoPlanner}
  /\ pending \in [type : Planners, plan : Trajectories] \cup {Nothing}
  /\ planned \in [Planners -> Commands]
  /\ cmdEpoch \in [Planners -> Nat \cup {NoEpoch}]
  /\ cancelled \in [Planners -> BOOLEAN]
  /\ gpu \in Calls \cup {Nothing}
  /\ own \in Executes \cup {Nothing}
  /\ pc \in [Calls -> PcValues]
  /\ job \in [Calls -> JobRecord]
  /\ cancel \in [Executes ->
                {"none", "stopped", "flagged", "requested", "late"}]
  /\ verdict \in [Executes -> {"none", "succeeded", "aborted", "canceled"}]
  /\ pose \in Poses

(* An execution goal is between its admission and the end of its callback. *)
InSlot(c) == pc[c] \notin {"idle", "rejected", "done"}

(* The docstring of goal_callback: at most one execute_trajectory goal at  *)
(* a time, so that two execute() loops never both command the robot.       *)
AtMostOneExecution ==
  \A c, d \in Executes : InSlot(c) /\ InSlot(d) => c = d

Slot == INSTANCE ExecutionSlot WITH
  Goals  <- Executes,
  holder <- {c \in Executes : InSlot(c)},
  served <- {c \in Executes : pc[c] \notin {"idle", "rejected"}}

(* The node's slot behaves as the abstract one: no step admits a second    *)
(* goal, frees a slot it does not hold or runs a goal twice.               *)
ImplementsSlot == Slot!SlotSpec

(* Every admitted goal ends and gives the slot back, when the controller   *)
(* completes what it accepts and nobody cancels or switches the strategy.  *)
EverySlotIsFreed == Slot!FairSlotSpec

(* What the epoch a planner object keeps is worth: while it is the epoch   *)
(* of the command buffers, they hold this planner's own trajectory (or     *)
(* were emptied).  Concurrent plans would break it without _plan_lock.     *)
EpochNamesPlan ==
  inst = 1 => \A p \in Planners :
    cmdEpoch[p] = epoch => buffer \in {planned[p], Nothing}

(* What leaves for the robot on behalf of an execution goal is the plan    *)
(* for that goal's request, or the buffers were emptied by a stop - unless *)
(* a preview or a batch, which stand outside the slot, stored or loaded a  *)
(* plan of its own between this goal's plan and its send, or the goal did  *)
(* not plan (see job.own).                                                 *)
ExecutedIsRequested ==
  \A c \in Executes : job[c].own =>
    sent[job[c].goal].traj \in {Wanted(c), Nothing}

(* A goal reported as succeeded sent a trajectory, and the controller      *)
(* completed that very trajectory or had reported its stamped end reached  *)
(* - unless a command overtook a callback between its tag test and its     *)
(* write (see raced in ActionClient).                                      *)
SuccessIsEarned ==
  ~raced => \A c \in Executes : verdict[c] = "succeeded" =>
    /\ job[c].goal # NoGoal
    /\ \/ goals[job[c].goal].status = "succeeded"
       \/ job[c].goal \in reached

(* Nobody commands the robot outside the slot: once the node is ready for  *)
(* another goal, no trajectory is on its way or being executed, but the    *)
(* rest of one whose stamped end was reported reached, and one whose call  *)
(* a cancel ended early (a stop misses a goal that is not accepted yet,    *)
(* and the cancel of one goal may flag its successor's planner).  Unless   *)
(* a command overtook a callback.                                          *)
IdleWhenFree ==
  ~raced /\ ~goalActive =>
    \A g \in GoalIds : goals[g].status \in {"requested", "executing"} =>
      \/ g \in reached
      \/ \E c, d \in Executes : /\ job[c].goal = g /\ verdict[c] # "succeeded"
                               /\ cancel[d] # "none"

(* The docstring of _get_progression: -1.0 on a non-success result "so     *)
(* SinglePlanner.execute() stops and reports the failure".                 *)
FailureEndsExecution ==
  \A c \in Executes :
    pc[c] = "running" /\ Progression = -1 ~> pc[c] # "running"
=============================================================================
