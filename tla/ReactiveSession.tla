-------------------------- MODULE ReactiveSession --------------------------
(***************************************************************************)
(* A reactive session (MPC or retargeting) and the rules that keep CUDA    *)
(* graph captures apart from all other GPU work: gpu_lock, the graph owner *)
(* and the capture-pending flag of core/unified_planner_node.py, used by   *)
(* the servo loop of planners/reactive_controller.py.                      *)
(*                                                                         *)
(* Threads: "exec" runs the goal of execute_trajectory, "preview" serves   *)
(* generate_trajectory, "switch" serves set_planner, "service" the node's  *)
(* default callback group, "camera" is a depth or laser integration or a   *)
(* visualisation timer, which acquires gpu_lock without blocking.  GPU     *)
(* work begins in one action and ends in another, so that it can overlap.  *)
(* Tensors are also moved between host and device, start states, commands  *)
(* and feedback, with no lock: such a "copy" begins with one action of the *)
(* thread and lasts until its next.                                        *)
(*                                                                         *)
(* "motion" is the MotionPlanner of all open-loop planners; CUDA graphs    *)
(* are on.  Goals are numbered in the order they are given to the node.    *)
(***************************************************************************)
EXTENDS Integers

CONSTANTS
  Reactive,      \* the reactive controllers
  FirstPlanner,  \* planner_type at launch
  MaxGoals,      \* bound: goals given
  MaxServices,   \* bound: set_planner, cache and configuration requests
  Nothing

Planners == {"motion"} \cup Reactive
Threads  == {"exec", "preview", "switch", "service", "camera"}

ASSUME ReactiveAssumption ==
  /\ "motion" \notin Reactive /\ FirstPlanner \in Planners
  /\ Nothing \notin Planners \cup Threads
  /\ MaxGoals \in Nat /\ MaxServices \in Nat

VARIABLES
  gpu,      \* the thread that holds gpu_lock
  work,     \* each thread's GPU work: "none", "copy", "cuda", "replay", "capture"
  owner,    \* _active_graph_owner
  pending,  \* _graph_capture_pending
  live,     \* the planners whose solver holds a captured graph
  exists,   \* the planners whose solver was built
  dropped,  \* those whose solver a rebuild has taken away
  current,  \* PlannerManager's current planner
  pc, call, request,  \* of each thread: where it stands, its planner, its goal
  slot, cancel,       \* _goal_active; where cancellation stands
  moving,   \* what commands may move the robot (see Motion below)
  active,   \* is_goal_active of each controller
  mailbox,  \* _latest_goal of each controller while it is fresh, or 0
  target,   \* the goal each solver tracks, or 0
  taken, guarded,     \* locals of the servo loop: live goal, lock this step
  asked, served,      \* goals given, services called
  escape    \* history: the capture discipline was left (see Escapes below)

lockVars    == <<gpu, work>>
graphVars   == <<owner, pending, live, exists, dropped>>
goalVars    == <<slot, cancel, moving>>
mailVars    == <<active, mailbox, target>>
loopVars    == <<taken, guarded>>
countVars   == <<asked, served>>
callVars    == <<call, request>>
vars == <<lockVars, graphVars, goalVars, mailVars, loopVars, countVars,
          callVars, current, pc, escape>>

Init ==
  /\ gpu = Nothing /\ work = [t \in Threads |-> "none"]
  /\ owner = FirstPlanner /\ pending = TRUE
  /\ exists = {FirstPlanner} /\ dropped = {} /\ live = exists \cap {"motion"}
  /\ current = FirstPlanner
  /\ pc = [t \in Threads |-> "idle"]
  /\ call = [t \in Threads |-> FirstPlanner]
  /\ request = [t \in Threads |-> 0]
  /\ slot = FALSE /\ cancel = "no" /\ moving = "rest"
  /\ active = [c \in Reactive |-> FALSE]
  /\ mailbox = [c \in Reactive |-> 0] /\ target = [c \in Reactive |-> 0]
  /\ taken = 0 /\ guarded = FALSE
  /\ asked = 0 /\ served = 0 /\ escape = FALSE

Goto(t, l) == pc' = [pc EXCEPT ![t] = l]
Lock(t, w) == /\ gpu = Nothing /\ gpu' = t
              /\ work' = [work EXCEPT ![t] = w]

(* GPU work ends, and with it the hold of the lock, if there is one; other *)
(* work may follow without it.                                             *)
Leave(t, w) == /\ gpu' = IF gpu = t THEN Nothing ELSE gpu
               /\ work' = [work EXCEPT ![t] = w]
Unlock(t)   == Leave(t, "none")
Working(t, w) == UNCHANGED gpu /\ work' = [work EXCEPT ![t] = w]

Ready(p) == p \in exists \ dropped
InSession == pc["exec"] \notin {"idle", "setup"}
GiveUp(t) == Goto(t, IF t = "switch" THEN "idle" ELSE "report")

(* Motion: a command was sent since the last stop ("sent"), or a stop came *)
(* before the controller answered and left a command running ("loose").    *)
Motion == {"rest", "sent", "loose"}

-----------------------------------------------------------------------------
(* Requests.                                                               *)

Ask(t) == /\ asked < MaxGoals /\ asked' = asked + 1
          /\ call' = [call EXCEPT ![t] = current]
          /\ request' = [request EXCEPT ![t] = asked + 1]
          /\ Working(t, "copy") /\ Goto(t, "setup")

(* A goal is admitted and its callback picks the current planner; the      *)
(* start state goes to the device.                                         *)
ExecStart ==
  /\ ~slot /\ Ask("exec")
  /\ slot' = TRUE /\ cancel' = "no"
  /\ UNCHANGED <<graphVars, mailVars, loopVars, served, current,
                 moving, escape>>

PreviewStart ==
  /\ pc["preview"] = "idle" /\ Ask("preview")
  /\ UNCHANGED <<graphVars, goalVars, mailVars, loopVars, served, current,
                 escape>>

Serve(t, l) == /\ pc[t] = "idle" /\ served < MaxServices
               /\ served' = served + 1 /\ Goto(t, l)

(* set_planner and set_collision_cache are refused while a goal is active; *)
(* the test and what follows it are not one critical section.              *)
SetPlannerCheck(p) ==
  /\ ~slot /\ Serve("switch", "switching")
  /\ call' = [call EXCEPT !["switch"] = p]
  /\ UNCHANGED <<lockVars, graphVars, goalVars, mailVars, loopVars, asked,
                 request, current, escape>>

SetPlanner ==
  /\ pc["switch"] = "switching"
  /\ current' = call["switch"] /\ Goto("switch", "setup")
  /\ UNCHANGED <<lockVars, graphVars, goalVars, mailVars, loopVars, countVars,
                 callVars, escape>>

SetCollisionCache ==
  /\ ~slot /\ Serve("service", "rebuild")
  /\ UNCHANGED <<lockVars, graphVars, goalVars, mailVars, loopVars, asked,
                 callVars, current, escape>>

UpdateMotionGenConfig ==
  /\ Serve("service", "reconfigure")
  /\ UNCHANGED <<lockVars, graphVars, goalVars, mailVars, loopVars, asked,
                 callVars, current, escape>>

(* mpc_goal_callback: the live goal goes to the current planner.           *)
LiveGoal ==
  /\ current \in Reactive /\ asked < MaxGoals
  /\ asked' = asked + 1
  /\ mailbox' = [mailbox EXCEPT ![current] = asked + 1]
  /\ UNCHANGED <<lockVars, graphVars, goalVars, active, target, loopVars,
                 served, callVars, current, pc, escape>>

-----------------------------------------------------------------------------
(* _setup_planner, refresh_perception_world and plan.                      *)

(* _ensure_exclusive_graph: a new owner's first call finds no graph left.  *)
ReleaseGraphs(p) ==
  IF p = owner THEN UNCHANGED <<owner, pending, live>>
               ELSE owner' = p /\ pending' = TRUE /\ live' = {}

(* Mutant: _setup_planner as it was before it took gpu_lock.               *)
SetupUnlocked(t) ==
  /\ pc[t] = "setup" /\ Goto(t, "building")
  /\ work' = [work EXCEPT ![t] = "capture"]
  /\ ReleaseGraphs(call[t])
  /\ escape' = (escape \/ (t # "exec" /\ call[t] # owner /\ InSession))
  /\ UNCHANGED <<gpu, exists, dropped, goalVars, mailVars, loopVars, countVars,
                 callVars, current>>

Setup(t) ==
  /\ pc[t] = "setup" /\ Goto(t, "building")
  /\ Lock(t, "capture")
  /\ ReleaseGraphs(call[t])
  /\ escape' = (escape \/ (t # "exec" /\ call[t] # owner /\ InSession))
  /\ UNCHANGED <<exists, dropped, goalVars, mailVars, loopVars, countVars, callVars,
                 current>>

(* The solver exists: the MotionPlanner was warmed up if it had to be      *)
(* built, which captures its graph; a reactive solver captures on use.     *)
SetupDone(t) ==
  /\ pc[t] = "building" /\ Unlock(t)
  /\ Goto(t, IF t = "switch" THEN "idle" ELSE "refresh")
  /\ exists' = exists \cup {call[t]} /\ dropped' = dropped \ {call[t]}
  /\ live' = live \cup ({"motion"} \cap (exists' \ exists))
  /\ UNCHANGED <<owner, pending, goalVars, mailVars, loopVars, countVars,
                 callVars, current, escape>>

SetupFails(t) ==
  /\ pc[t] = "building" /\ call[t] \notin exists
  /\ Unlock(t) /\ GiveUp(t)
  /\ UNCHANGED <<graphVars, goalVars, mailVars, loopVars, countVars, callVars,
                 current, escape>>

(* Before a plan, and every perception_refresh_period steps of a session.  *)
Refresh(t) ==
  /\ pc[t] \in {"refresh", "reread"} /\ Lock(t, "cuda")
  /\ Goto(t, IF pc[t] = "refresh" THEN "refreshing" ELSE "rereading")
  /\ UNCHANGED <<graphVars, goalVars, mailVars, loopVars, countVars, callVars,
                 current, escape>>

Refreshed(t) ==
  /\ pc[t] \in {"refreshing", "rereading"} /\ Unlock(t)
  /\ Goto(t, IF pc[t] = "refreshing" THEN "plan" ELSE "take")
  /\ UNCHANGED <<graphVars, goalVars, mailVars, loopVars, countVars, callVars,
                 current, escape>>

(* An open-loop plan, or setting the goal of a reactive solver.            *)
Plan(t) ==
  /\ pc[t] = "plan" /\ Ready(call[t])
  /\ Lock(t, "capture") /\ Goto(t, "planning")
  /\ UNCHANGED <<graphVars, goalVars, mailVars, loopVars, countVars, callVars,
                 current, escape>>

(* A rebuild took the solver away meanwhile: ensure_solver builds another, *)
(* without the lock.                                                       *)
PlanBuilds(t) ==
  /\ pc[t] = "plan" /\ ~Ready(call[t])
  /\ work' = [work EXCEPT ![t] = "cuda"] /\ Goto(t, "building")
  /\ escape' = TRUE
  /\ UNCHANGED <<gpu, graphVars, goalVars, mailVars, loopVars, countVars,
                 callVars, current>>

(* The answer is read back from the device, whatever it is.                *)
PlanFails(t) ==
  /\ pc[t] = "planning" /\ Leave(t, "copy") /\ GiveUp(t)
  /\ UNCHANGED <<graphVars, goalVars, mailVars, loopVars, countVars, callVars,
                 current, escape>>

OpenLoopPlanned(t) ==
  /\ pc[t] = "planning" /\ call[t] = "motion" /\ Leave(t, "copy")
  /\ live' = live \cup {"motion"} /\ GiveUp(t)
  /\ UNCHANGED <<owner, pending, exists, dropped, goalVars, mailVars, loopVars,
                 countVars, callVars, current, escape>>

GoalSet(t) ==
  /\ pc[t] = "planning" /\ call[t] \in Reactive /\ Unlock(t)
  /\ target' = [target EXCEPT ![call[t]] = request[t]]
  /\ Goto(t, "discard")
  /\ UNCHANGED <<graphVars, goalVars, active, mailbox, loopVars, countVars,
                 callVars, current, escape>>

(* Mutant: a live goal left over from before is kept.                      *)
DiscardNothing(t) ==
  /\ pc[t] = "discard" /\ Working(t, "copy")
  /\ active' = [active EXCEPT ![call[t]] = TRUE]
  /\ Goto(t, IF t = "exec" THEN "enter" ELSE "report")
  /\ UNCHANGED <<graphVars, goalVars, mailbox, target, loopVars,
                 countVars, callVars, current, escape>>

(* Any live goal of before is discarded, the goal becomes active and the   *)
(* start configuration is read back and loaded, not sent.                  *)
Discard(t) ==
  /\ pc[t] = "discard" /\ Working(t, "copy")
  /\ mailbox' = [mailbox EXCEPT ![call[t]] = 0]
  /\ active' = [active EXCEPT ![call[t]] = TRUE]
  /\ Goto(t, IF t = "exec" THEN "enter" ELSE "report")
  /\ UNCHANGED <<graphVars, goalVars, target, loopVars, countVars, callVars,
                 current, escape>>

(* The callback returns, and an execution frees the slot.  Cancel takes    *)
(* precedence over the controller's verdict; a goal that never came to     *)
(* servo aborts.                                                           *)
Report(t) ==
  /\ pc[t] = "report" /\ Unlock(t) /\ Goto(t, "idle")
  /\ slot' = (slot /\ t # "exec")
  /\ UNCHANGED <<graphVars, cancel, moving, mailVars, loopVars, countVars,
                 callVars, current, escape>>

-----------------------------------------------------------------------------
(* The servo loop, immediate or paced: the wait for a window to execute    *)
(* always ends, by completion or timeout, and changes nothing here.        *)

Me == call["exec"]
At(l) == pc["exec"] = l

(* The robot's state goes to the device before the first step.             *)
Enter ==
  /\ At("enter")
  /\ \/ /\ active[Me] /\ Ready(Me)
        /\ Goto("exec", "top") /\ Working("exec", "copy")
     \/ /\ ~(active[Me] /\ Ready(Me))
        /\ Goto("exec", "report") /\ Unlock("exec")
  /\ UNCHANGED <<graphVars, goalVars, mailVars, loopVars, countVars, callVars,
                 current, escape>>

(* Mutant: only is_goal_active ends the loop.                              *)
TopIgnoresCancel ==
  /\ At("top") /\ Unlock("exec")
  /\ IF ~active[Me] THEN Goto("exec", "stop")
     ELSE Goto("exec", "reread") \/ Goto("exec", "take")
  /\ UNCHANGED <<graphVars, goalVars, mailVars, loopVars, countVars, callVars,
                 current, escape>>

Top ==
  /\ At("top") /\ Unlock("exec")
  /\ IF ~active[Me] \/ cancel = "marked" THEN Goto("exec", "stop")
     ELSE Goto("exec", "reread") \/ Goto("exec", "take")
  /\ UNCHANGED <<graphVars, goalVars, mailVars, loopVars, countVars, callVars,
                 current, escape>>

(* Mutant: the live goal is read and stays fresh.                          *)
TakeKeepsFresh ==
  /\ At("take")
  /\ taken' = mailbox[Me] /\ UNCHANGED mailbox
  /\ Goto("exec", IF mailbox[Me] = 0 THEN "guard" ELSE "apply")
  /\ UNCHANGED <<lockVars, graphVars, goalVars, active, target, guarded,
                 countVars, callVars, current, escape>>

TakeLiveGoal ==
  /\ At("take")
  /\ taken' = mailbox[Me] /\ mailbox' = [mailbox EXCEPT ![Me] = 0]
  /\ Goto("exec", IF mailbox[Me] = 0 THEN "guard" ELSE "apply")
  /\ UNCHANGED <<lockVars, graphVars, goalVars, active, target, guarded,
                 countVars, callVars, current, escape>>

ApplyLiveGoal ==
  /\ At("apply") /\ Lock("exec", "capture") /\ Goto("exec", "applying")
  /\ UNCHANGED <<graphVars, goalVars, mailVars, loopVars, countVars, callVars,
                 current, escape>>

(* A live goal that raises is rejected: the previous one is kept.          *)
LiveGoalApplied ==
  /\ At("applying") /\ Unlock("exec") /\ Goto("exec", "guard")
  /\ \/ target' = [target EXCEPT ![Me] = taken]
     \/ UNCHANGED target
  /\ taken' = 0
  /\ UNCHANGED <<graphVars, goalVars, active, mailbox, guarded, countVars,
                 callVars, current, escape>>

(* _step_guard takes and clears the capture-pending flag.                  *)
StepGuard ==
  /\ At("guard") /\ Goto("exec", "step")
  /\ guarded' = pending /\ pending' = FALSE
  /\ UNCHANGED <<lockVars, owner, live, exists, dropped, goalVars, mailVars, taken,
                 countVars, callVars, current, escape>>

StepKind == IF Me \in live THEN "replay" ELSE "capture"

Step ==
  /\ At("step") /\ Ready(Me) /\ Goto("exec", "stepping")
  /\ IF guarded THEN Lock("exec", StepKind)
     ELSE Working("exec", StepKind)
  /\ UNCHANGED <<graphVars, goalVars, mailVars, loopVars, countVars, callVars,
                 current, escape>>

(* The lock is left, and the command is read back from the device.         *)
Stepped ==
  /\ At("stepping") /\ Leave("exec", "copy") /\ Goto("exec", "send")
  /\ live' = IF work["exec"] = "capture" THEN live \cup {Me} ELSE live
  /\ guarded' = FALSE
  /\ UNCHANGED <<owner, pending, exists, dropped, goalVars, mailVars, taken,
                 countVars, callVars, current, escape>>

(* The command leaves; then the feedback goes to the device and back.  The *)
(* handle of the command before is forgotten.                              *)
Send ==
  /\ At("send") /\ Goto("exec", "top") /\ moving' = "sent"
  /\ UNCHANGED <<lockVars, graphVars, slot, cancel, mailVars, loopVars,
                 countVars, callVars, current, escape>>

(* A refresh, a step, a send or the reading of the robot's state raises; a *)
(* step with no solver always does.                                        *)
LoopRaises ==
  /\ \/ At("rereading") \/ At("stepping") \/ At("send") \/ At("top")
     \/ At("step") /\ ~Ready(Me)
  /\ Unlock("exec") /\ Goto("exec", "failed")
  /\ escape' = (escape \/ work["exec"] = "capture")
  /\ guarded' = FALSE
  /\ UNCHANGED <<graphVars, goalVars, mailVars, taken, countVars, callVars,
                 current>>

(* stop_robot cancels the goal it has a handle of: the last command, when  *)
(* the controller has accepted it by now.  One that was not answered goes  *)
(* on, and so does what ran before one that was refused.                   *)
Halt == moving' \in IF moving = "sent" THEN {"rest", "loose"} ELSE {moving}

(* Mutant: the error path returns without stopping the robot.              *)
StopWhenDone ==
  /\ At("stop") \/ At("failed")
  /\ IF At("stop") THEN Halt ELSE UNCHANGED moving
  /\ Goto("exec", "report")
  /\ UNCHANGED <<lockVars, graphVars, slot, cancel, mailVars, loopVars,
                 countVars, callVars, current, escape>>

StopRobot ==
  /\ (At("stop") \/ At("failed")) /\ Halt
  /\ Goto("exec", "report")
  /\ UNCHANGED <<lockVars, graphVars, slot, cancel, mailVars, loopVars,
                 countVars, callVars, current, escape>>

(* cancel_callback stops the robot, then cancels the current planner; the  *)
(* action server marks the goal when the callback returned.                *)
CancelStops ==
  /\ slot /\ cancel = "no"
  /\ cancel' = "stopped" /\ Halt
  /\ UNCHANGED <<lockVars, graphVars, slot, mailVars, loopVars,
                 countVars, callVars, current, pc, escape>>

CancelFlags ==
  /\ cancel = "stopped" /\ cancel' = "flagged"
  /\ active' = [c \in Reactive |-> active[c] /\ c # current]
  /\ UNCHANGED <<lockVars, graphVars, slot, moving, mailbox, target,
                 loopVars, countVars, callVars, current, pc, escape>>

CancelMarks ==
  /\ cancel = "flagged" /\ cancel' = "marked"
  /\ UNCHANGED <<lockVars, graphVars, slot, moving, mailVars, loopVars,
                 countVars, callVars, current, pc, escape>>

-----------------------------------------------------------------------------
(* Rebuilds, and the non-blocking users of gpu_lock.                       *)

(* The MotionPlanner is built and warmed up in one hold of the lock.       *)
RebuildBegin ==
  /\ pc["service"] \in {"rebuild", "reconfigure"} /\ Lock("service", "capture")
  /\ Goto("service", IF pc["service"] = "rebuild" THEN "motion" ELSE "warmup")
  /\ UNCHANGED <<graphVars, goalVars, mailVars, loopVars, countVars, callVars,
                 current, escape>>

(* The reactive solvers follow: each is dropped, then built.               *)
RebuildReactive ==
  /\ pc["service"] = "motion" /\ Goto("service", "last")
  /\ live' = (live \cup exists) \cap {"motion"}
  /\ dropped' = exists \cap Reactive
  /\ escape' = (escape \/ InSession)
  /\ UNCHANGED <<lockVars, owner, pending, exists, goalVars, mailVars,
                 loopVars, countVars, callVars, current>>

(* Mutant: the capture of a rebuilt solver is not announced.               *)
RebuildSilently ==
  /\ pc["service"] = "last" /\ Unlock("service") /\ Goto("service", "idle")
  /\ dropped' = {}
  /\ target' = [c \in Reactive |-> IF c \in dropped THEN 0 ELSE target[c]]
  /\ live' = live \cup (exists \cap {"motion"})
  /\ UNCHANGED <<owner, pending, exists, goalVars, active, mailbox, loopVars,
                 countVars, callVars, current, escape>>

(* The new solvers have no graph and no goal: the capture is announced.    *)
RebuildEnd ==
  /\ pc["service"] = "last" /\ Unlock("service") /\ Goto("service", "idle")
  /\ dropped' = {}
  /\ target' = [c \in Reactive |-> IF c \in dropped THEN 0 ELSE target[c]]
  /\ live' = live \cup (exists \cap {"motion"})
  /\ pending' = TRUE
  /\ UNCHANGED <<owner, exists, goalVars, active, mailbox, loopVars, countVars,
                 callVars, current, escape>>

(* update_motion_gen_config: the MotionPlanner alone, built and captured.  *)
ReconfigureEnd ==
  /\ pc["service"] = "warmup" /\ Unlock("service") /\ Goto("service", "idle")
  /\ exists' = exists \cup {"motion"} /\ live' = live \cup {"motion"}
  /\ UNCHANGED <<owner, pending, dropped, goalVars, mailVars, loopVars,
                 countVars, callVars, current, escape>>

(* The integration of a camera or laser frame, or a visualisation timer:   *)
(* dropped when the lock is held.                                          *)
Integrate ==
  /\ pc["camera"] = "idle" /\ Lock("camera", "cuda") /\ Goto("camera", "busy")
  /\ UNCHANGED <<graphVars, goalVars, mailVars, loopVars, countVars, callVars,
                 current, escape>>

Integrated ==
  /\ pc["camera"] = "busy" /\ Unlock("camera") /\ Goto("camera", "idle")
  /\ UNCHANGED <<graphVars, goalVars, mailVars, loopVars, countVars, callVars,
                 current, escape>>

-----------------------------------------------------------------------------
Finish(t) == \/ SetupDone(t) \/ SetupFails(t) \/ Refreshed(t) \/ PlanFails(t)
             \/ OpenLoopPlanned(t) \/ GoalSet(t) \/ Discard(t) \/ Report(t)
Begin(t)  == Setup(t) \/ Refresh(t) \/ Plan(t) \/ PlanBuilds(t)

LoopStep == \/ Enter \/ Top \/ TakeLiveGoal \/ ApplyLiveGoal \/ LiveGoalApplied
            \/ StepGuard \/ Step \/ Stepped \/ Send \/ LoopRaises
            \/ StopRobot
CancelStep == CancelStops \/ CancelFlags \/ CancelMarks
ServiceStep == \/ RebuildBegin \/ RebuildReactive \/ RebuildEnd
               \/ ReconfigureEnd
Requests == \/ ExecStart \/ PreviewStart \/ SetCollisionCache
            \/ UpdateMotionGenConfig \/ LiveGoal
            \/ \E p \in Planners : SetPlannerCheck(p)

Next ==
  \/ Requests \/ SetPlanner
  \/ \E t \in {"exec", "preview", "switch"} : Begin(t) \/ Finish(t)
  \/ LoopStep \/ CancelStep \/ ServiceStep
  \/ Integrate \/ Integrated

(* Threads run; whoever holds gpu_lock lets go of it; the execution thread *)
(* is not starved of a lock that becomes free again and again.             *)
Fairness ==
  /\ \A t \in {"preview", "switch"} : WF_vars(Finish(t))
  /\ WF_vars(ServiceStep) /\ WF_vars(Integrated)
  /\ WF_vars(CancelFlags \/ CancelMarks)
  /\ SF_vars(Begin("exec") \/ Finish("exec") \/ LoopStep)

Spec == Init /\ [][Next]_vars
FairSpec == Spec /\ Fairness

-----------------------------------------------------------------------------
(* Properties.                                                             *)
(*                                                                         *)
(* Escapes: the discipline below is left, and not promised any more, once  *)
(* a step that took the flag raised before its capture, graphs were        *)
(* released or rebuilt under a session (by a request that passed its test  *)
(* before the goal was admitted), or plan() built a solver by itself.      *)

Labels == {"idle", "setup", "building", "refresh", "refreshing", "plan",
           "planning", "discard", "enter", "top", "reread", "rereading", "take",
           "apply", "applying", "guard", "step", "stepping", "send", "stop",
           "failed", "report", "switching", "rebuild", "reconfigure", "motion",
           "last", "warmup", "busy"}

(* The state has its types, and a thread at GPU work under the lock is the *)
(* lock's holder.                                                          *)
ReactiveTypeOK ==
  /\ gpu \in Threads \cup {Nothing}
  /\ work \in [Threads -> {"none", "copy", "cuda", "replay", "capture"}]
  /\ owner \in Planners /\ pending \in BOOLEAN
  /\ exists \subseteq Planners /\ live \subseteq exists
  /\ dropped \subseteq Reactive
  /\ current \in Planners
  /\ pc \in [Threads -> Labels] /\ call \in [Threads -> Planners]
  /\ request \in [Threads -> 0..MaxGoals]
  /\ slot \in BOOLEAN /\ cancel \in {"no", "stopped", "flagged", "marked"}
  /\ moving \in Motion
  /\ active \in [Reactive -> BOOLEAN]
  /\ mailbox \in [Reactive -> 0..MaxGoals]
  /\ target \in [Reactive -> 0..MaxGoals]
  /\ taken \in 0..MaxGoals /\ guarded \in BOOLEAN
  /\ asked \in 0..MaxGoals /\ served \in 0..MaxServices
  /\ escape \in BOOLEAN
  /\ gpu # Nothing => work[gpu] # "none"

(* No graph is captured beside the GPU work of another thread, save what   *)
(* the code does without gpu_lock: the replay of a session's own graph and *)
(* the copies of start states, commands and feedback.                      *)
CapturesRunAlone ==
  ~escape => \A t, u \in Threads :
    t # u /\ work[t] = "capture" => work[u] \in {"none", "replay", "copy"}

(* A servo step that captures holds gpu_lock: the flag announces every     *)
(* capture, and no step clears it without capturing.                       *)
CapturesAreGuarded ==
  ~escape /\ work["exec"] = "capture" => gpu = "exec"

(* When the slot is free, every way out of the session, by cancel, error   *)
(* or refusal, has stopped the robot after its last command: all that may  *)
(* still run is what that stop, or one before it, had no handle of.        *)
StoppedWhenFree == ~slot => moving # "sent"

(* A session never goes back to an older goal: a live goal it applies was  *)
(* given after what its solver tracks, unless a preview was asked for      *)
(* since, which may have set that.                                         *)
GoalsAdvance ==
  [][At("applying") /\ target'[Me] # target[Me] =>
       target'[Me] > target[Me] \/ target[Me] <= request["preview"]]_vars

(* A live goal given to the session's controller is taken, replaced or     *)
(* discarded, or the session ends: it never waits for ever.                *)
LiveGoalTaken ==
  \A c \in Reactive, n \in 1..MaxGoals :
    (mailbox[c] = n /\ slot /\ Me = c) ~> (mailbox[c] # n \/ ~slot \/ Me # c)

(* A cancel that was accepted ends the session.                            *)
CancelFreesSlot == (cancel = "marked" /\ slot) ~> ~slot
=============================================================================
