---------------------------- MODULE RobotContext ----------------------------
(***************************************************************************)
(* robot/robot_context.py: the single gate between the planners and the    *)
(* control strategy.  Every method takes strategy_lock for its whole body, *)
(* so each is one action; the callbacks of ActionClient run beside them.   *)
(*                                                                         *)
(* A producer that plans and executes in separate calls loads the command  *)
(* buffers with set_command, keeps the epoch it was given, and later sends *)
(* with expect_epoch.  A reactive controller loads and sends at once with  *)
(* set_and_send_command.                                                   *)
(*                                                                         *)
(* The strategies are the ones that execute through the action             *)
(* (joint_pose_strategy.py, joint_speed_strategy.py).  The module is open: *)
(* CommandProducers and UnifiedPlanner compose it with its callers.        *)
(***************************************************************************)
EXTENDS ActionClient

CONSTANTS
  Trajectories,  \* command contents, opaque
  Nothing,       \* empty command buffers
  Strategies,    \* registered strategy names
  FirstStrategy  \* the control_strategy parameter at start

ASSUME ContextAssumption ==
  /\ Nothing \notin Trajectories
  /\ FirstStrategy \in Strategies

VARIABLES
  strategy,  \* current_strategy_name
  buffer,    \* position/vel/accel_command of the installed strategy
  epoch,     \* its _buffer_epoch
  sent       \* history: per goal, the trajectory that left and the one its
             \* sender meant to send

contextVars == <<clientVars, strategy, buffer, epoch, sent>>

NoEpoch == -1
Commands == Trajectories \cup {Nothing}

ContextInit ==
  /\ ClientInit
  /\ strategy = FirstStrategy
  /\ buffer = Nothing
  /\ epoch = 0
  /\ sent = [g \in GoalIds |-> [traj |-> Nothing, intended |-> Nothing]]

-----------------------------------------------------------------------------
(* set_command: new buffers, new epoch, which the caller gets back.        *)
SetCommand(t) ==
  /\ buffer' = t
  /\ epoch' = epoch + 1
  /\ UNCHANGED <<clientVars, strategy, sent>>

(* stop_robot: the buffers are cleared and the action canceled.  The epoch *)
(* of an action strategy does not move.                                    *)
StopRobot ==
  /\ buffer' = Nothing
  /\ CancelAction
  /\ UNCHANGED <<strategy, epoch, sent>>

(* The strategy's send_trajectrory: the buffers become the goal and are    *)
(* emptied, whether or not the action server can be reached.               *)
SendBuffer(t, intended) ==
  /\ buffer' = Nothing
  /\ SendGoal
  /\ sent' = [sent EXCEPT ![sends + 1] = [traj |-> t, intended |-> intended]]

SendLost ==
  /\ buffer' = Nothing
  /\ SendUnavailable
  /\ UNCHANGED sent

(* Mutant: the guard is gone.                                              *)
EpochUnchecked(expect) == expect \in Int

(* The guard of send_trajectrory: without an expected epoch it lets        *)
(* everything pass.                                                        *)
EpochMatches(expect) == expect = NoEpoch \/ expect = epoch

(* send_trajectrory(expect_epoch) when the guard passes.                   *)
SendTrajectory(expect, intended) ==
  /\ EpochMatches(expect)
  /\ SendBuffer(buffer, intended)
  /\ UNCHANGED <<strategy, epoch>>

(* The same, when the action server cannot be reached: it raises.          *)
SendTrajectoryRaises(expect) ==
  /\ EpochMatches(expect)
  /\ SendLost
  /\ UNCHANGED <<strategy, epoch>>

(* set_and_send_command: both under one hold of strategy_lock.             *)
SetAndSendCommand(t) ==
  /\ epoch' = epoch + 1
  /\ SendBuffer(t, t) \/ SendLost
  /\ UNCHANGED strategy

(* set_robot_strategy: a no-op for the current name; otherwise stop the    *)
(* old strategy and install a new object, whose epoch starts from 0.       *)
SetRobotStrategy(name) ==
  /\ name # strategy
  /\ strategy' = name
  /\ buffer' = Nothing
  /\ epoch' = 0
  /\ ReplaceClient
  /\ UNCHANGED sent

-----------------------------------------------------------------------------
ContextTypeOK ==
  /\ ClientTypeOK
  /\ strategy \in Strategies
  /\ buffer \in Commands
  /\ epoch \in Nat
  /\ sent \in [GoalIds -> [traj : Commands, intended : Commands]]
=============================================================================
