# A TLA+ model of isaac_ros_cumotion

This directory holds a formal model of the motion-planning node in
`src/isaac_ros_cumotion` and of the packages around it: TLA+ modules, TLC
configurations that check them on small instances, and proofs checked by TLAPS.
Paths below are relative to the repository; `P/` stands for
`src/isaac_ros_cumotion/isaac_ros_cumotion/`.

1. [The system](#1-the-system)
2. [Components: state, operations, hazards](#2-components)
3. [Modules and how they correspond to the code](#3-modules)
4. [What is checked: runs, bounds, fairness](#4-runs)
5. [Where the code and its documentation disagree](#5-disagreements)
6. [What is proved](#6-proofs)
7. [What is not modelled, and assumptions](#7-limits)
8. [Plan](#8-plan)

## 1. The system

A single ROS 2 node (`P/core/unified_planner_node.py`) plans robot motions on a
GPU solver and executes them through a trajectory controller. Clients see

* the action `execute_trajectory`: plan (or reuse a previewed plan), then execute;
* the services `generate_trajectory` (preview), `trajectory_generation_batch`,
  `set_planner`, `clear_trajectory`, `set_robot_strategy`, and the kinematics,
  scene and attachment services.

The node is spun by a `MultiThreadedExecutor` with eight threads. The action
server lives in a reentrant callback group; each planning service has a mutually
exclusive group of its own, and the obstacle, attachment, kinematics and cache
services share the node's default group. Requests of one group never overlap;
requests of different groups do, and all of them overlap with an execution.
Done callbacks of futures (the controller's answers) are executor tasks like any
other and are serialized by nobody.

    client --goal--> goal_callback / execute_callback --plan()--> planner object
                        |                                     | set_command
                        | execute()                           v
                        +--send_trajectrory(expect_epoch)--> RobotContext
                                                              | strategy_lock
                                                              v
      controller <--FollowJointTrajectory-- strategy object (buffer_lock)
           |                                          ^
           +-- response, feedback, result ------------+ callbacks, tag _action_seq

      task constructor node --services, action--> planner node
      MoveIt plugin (one client per planning group) --services--> planner node

The task constructor (`src/curobo_task_constructor`) and the MoveIt plugin
(`src/isaac_ros_cumotion_moveit`) are clients: each mirrors a part of the server's
state (obstacles, the carried object, the current planner) and has to live with
calls that fail, time out, or are executed after their caller gave up.

Three locks are ordered `gpu_lock > strategy_lock > buffer_lock`
(`P/robot/robot_context.py:14-44`); `_goal_lock` guards one flag and is a leaf.

## 2. Components

For each component: what it keeps, what it does, what is hard, and what makes it
correct. Section 3 says which module models it.

**Execution action tracking** - `P/robot/joint_control_strategy.py`.
Keeps `_action_seq` (a tag), the goal handle, the last result, the last feedback
fraction. Operations: `_send_as_action`, `_cancel_action`, the callbacks
`_action_goal_response`, `_action_feedback`, `_action_result_done`, and
`_get_progression`. Hard: callbacks test the tag outside `buffer_lock` and write
later; a stop may come before the goal is accepted; responses and results of
older goals arrive late. Correct when what it records is about the active send,
when a stop leaves no goal executing, and when every send gets a verdict.

**Robot context** - `P/robot/robot_context.py`. Keeps the installed strategy
object and its name. Operations: `set_command`, `set_and_send_command`,
`send_trajectrory(expect_epoch)`, `stop_robot`, `set_robot_strategy`,
`get_progression`, all under `strategy_lock`. Hard: producers load and send in
two calls; the strategy may be switched or stopped in between. Correct when
nobody ever sends what another producer loaded.

**Real-robot strategies** - `P/robot/joint_pose_strategy.py`,
`joint_speed_strategy.py`. Command buffers and `_buffer_epoch`; the buffers are
emptied by a send and by a stop. The speed strategy also tapers and clamps.

**Emulator and ghost** - `P/robot/emulator_strategy.py`, `ghost_strategy.py`. A
playback thread moves simulated joints; a newer command preempts it by epoch and
joins it outside the lock. Correct when a superseded thread never writes after
the newer command.

**Planner node** - `P/core/unified_planner_node.py`. Keeps `_goal_active`, the
pending (previewed) plan, the CUDA graph owner and the capture-pending flag.
Operations: the surfaces above, plus `goal_callback`, `cancel_callback`,
`set_planner_callback`, `_setup_planner`, `update_all_solvers_world`. Hard: four
surfaces share one planner object; checks are made under a lock that is then
released; a cancel may come at any point of an execution. Correct when one goal
executes at a time, every goal ends and frees the slot, what executes is what was
asked for, and success means that the controller completed that trajectory.

**Open-loop planners** - `P/planners/single_planner.py` and its children.
Keep `planned_trajectory`, `_command_epoch`, `_cancelled` per object (not per
request). Operations: `plan`, `plan_batch`, `execute`, `cancel`.

**Planner factory and manager** - `P/planners/planner_factory.py`. The current
planner object and its type are two fields written one after the other.

**Reactive controllers** - `P/planners/reactive_controller.py`, `mpc_planner.py`,
`retarget_controller.py`. A servo loop that steps a solver and streams commands,
a one-place mailbox for live goals, a step guard that takes `gpu_lock` when the
next step may capture a CUDA graph. Hard: the loop runs beside previews, rebuilds
and planner switches that touch the same solver. Correct when sessions never go
back to an older goal, every live goal is taken, and each way out stops the robot.

**CUDA graphs and `gpu_lock`** - node, reactive controllers, camera and laser
callbacks. Correct when no GPU work runs beside a capture and every capture of the
servo loop holds the lock.

**Obstacle manager** - `P/core/obstacle_manager.py`. The scene's buckets per
type, the set of names, the exclusions, the collision cache. Hard: the Scene changes
with no lock, and is pushed to five solvers while other threads push camera maps.
Correct when, with no request half way, every solver collides with exactly the Scene.

**Attachment services** - `P/core/attachment_services.py`. The attached object, its
exclusion from the rasterized world, the obstacles it disables in the solvers.
Correct when the arm never collides with the static copy of what it carries.

**Kinematics services, collision distance, reachability** - `P/core/ik_services.py`,
`fk_services.py`, `reachability_services.py`, `collision_distance.py`. Solvers built
on demand or for another batch size, each with a world of its own.

**Camera and laser pipelines** - `P/cameras/`, `P/lasers/`, their system managers.
Frames are dropped when `gpu_lock` is taken; segmentation matches joint poses to
image times.

**Configuration** - `P/core/config_*.py`, `robot_model_manager.py`,
`P/robot/robot_description.py`: loading, construction and rebuild of the solvers.

**Task constructor core** - `src/curobo_task_constructor/.../core`. Stages in serial
and parallel containers propagate interface states and collect solutions. Hard:
input arrives on both sides in any order, containers commit, failures are data.
Correct when every solution is an executable chain, and planning gives up only when
there is none.

**Task constructor executor, node and backend** - `executor.py`, `node.py`,
`robot/curobo.py`. An action server with one worker thread per goal, a playback of
scene operations and drives, and an adapter that asks the planner node with a
deadline. Hard: the server may act on a request after the adapter gave up. Correct
when a plan leaves the links' collision spheres as it found them, motions begin in
the scene they were planned in, and every task is answered.

**MoveIt plugin** - `src/isaac_ros_cumotion_moveit`. Before every plan a client per
planning group mirrors MoveIt's scene to the server and back, remembering what it
has mirrored. Hard: calls fail or are executed late, groups do not know of each
other. Correct when what a client skips as unchanged really is on the server, and
the plan sees the scene.

**RViz panels, diagnostics, plots, benchmarks** - user interface and tools.

## 3. Modules

| module | stands for | extends |
|---|---|---|
| `ActionClient` | `joint_control_strategy.py`: tracking of FollowJointTrajectory goals, with the controller as an external part | |
| `RobotContext` | `robot_context.py` over the real-robot strategies | `ActionClient` |
| `CommandProducers` | every caller of the context, in every order | `RobotContext` |
| `ExecutionSlot` | abstract: what `execute_trajectory` promises | |
| `UnifiedPlanner` | the planning and execution surfaces of the node and its open-loop planners | `RobotContext` |
| `MCUnifiedPlanner` | its instances for TLC | `UnifiedPlanner` |
| `EmulatorPlayback` | the simulated robot: its playback thread against commands and stops | |
| `ReactiveSession` | a reactive session and the rules that keep CUDA graph captures apart | |
| `SceneWorld` | obstacles, attachment, and the worlds of all solvers | |
| `MCSceneWorld` | its symmetry for TLC | `SceneWorld` |
| `TaskGraph` | stages, containers and the planning loop of the task constructor | |
| `MCTaskGraph` | thirteen task trees for TLC | `TaskGraph` |
| `TaskServer` | the task constructor's action server, playback and adapter, with the planner node as its server | |
| `MCTaskServer` | three tasks for TLC | `TaskServer` |
| `MoveItMirror` | the MoveIt plugin's scene mirror | |
| `MCMoveItMirror` | its shapes and their conversion for TLC, and the bound of the run | `MoveItMirror` |
| `ActionClientProofs` (with `CommandProducers`), `UnifiedPlannerProofs`, `SceneWorldProofs`, `ReactiveSessionProofs`, `TaskGraphProofs`, `TaskServerProofs`, `MoveItMirrorProofs`, `EmulatorPlaybackProofs` | theorems, section 6 | the module they are about |

**One action is the code between two points where another thread can be told
apart.** Everything under one hold of `strategy_lock` is one action; a callback
that tests before it locks is two; GPU work begins in one action and ends in another,
so that it can overlap.

*ActionClient.* `seq`, `handle`, `result`, `progress` are `_action_seq`,
`_action_goal_handle`, `_action_result`, `_action_last_progress`. A goal is known
by the order of its send and carries the object that sent it, the tag its
callbacks captured, its state in the controller and how far the response and the
result callbacks got: `pending`/`awaited` (the future is not done), `checked`
(the tag test passed, nothing is written), `handled`. `SendGoal` and
`SendUnavailable` are `_send_as_action` with and without a reachable server,
`CancelAction` is `_cancel_action`, `ReplaceClient` is what a strategy switch does
to the tracking state. A replaced object still hears its own callbacks; nobody
reads its fields, so they are not kept. Two history variables: `raced`, a send or a stop
happened while a callback of the installed object was `checked`; and `reached`, the goals
whose feedback reported their stamped end while they were the active send, which
`_get_progression` takes for completion (lines 430-432).

*RobotContext.* `buffer` stands for the three command lists (an opaque trajectory,
or `Nothing`), `epoch` for `_buffer_epoch`, `sent` is history: what left with each
goal and what its sender meant to send. `SendTrajectory` with an `expect_epoch` of
`NoEpoch` is the call without an expectation. The module has no next-state
relation of its own.

*UnifiedPlanner.* `pc` is where each call stands, `job` its locals (planner object,
target, resolved start, epoch, controller goal). `planned`, `cmdEpoch`, `cancelled`
are fields of the planner *objects*, shared by all calls. `own` and `job.own` are history:
whether a call's plan was still the last one stored or loaded when it was sent. The actions follow the
code: `GoalCallback`; `ExecuteStart` .. `DeclinePending` (head of `_execute_goal`);
`Refuse` (a refused request or an exception before the plan); `PreviewStart`,
`BatchStart` (the heads of the services, one request of each at a time); `PlanBegin`,
`PlanFails`, `PlanSolved`, `PlanLoads`, `PlanDone` (`plan` and
`_finalize_plan_result`, under `_plan_lock`); `StorePending`, `ClearTrajectory`
(the preview cache); `ExecuteBegin` .. `StopAfterFailure` (`execute`); `Report`,
`FreeSlot` (end of the callback); `CancelStops`, `CancelFlags`, `CancelMarks` (the
three effects of a cancel, the last one by rclpy); `SetPlannerCheck`,
`SetPlannerObject`, `SetPlannerType`; `SwitchStrategy`; and the controller's and
callbacks' steps, with the measured pose following the executed trajectory.

*EmulatorPlayback.* `epoch`, `length`, `pose`, `progress`, `state`, `stop` are
`_buffer_epoch`, the number of loaded points, `current_joint_positions`,
`trajectory_progression`, `robot_state` and the event `stop_execution`; a point is known
by the epoch of its command and its number. `thread` is the one playback thread there
can be, with its snapshot; `TestStop`, `WritePoint`, `PublishPoint` are one round of its
loop, `FinishPlayback` and `FailPlayback` its ends. `Send` and `SetAndSend` choose between
an empty buffer, a playback (`StartPlayback`) and the last point at once
(`StartImmediate`, `Apply`); a stop is the event (`BeginStop`) and then the buffers and the
epoch (`Halt`). `sent` and `resent` are history.

*ReactiveSession.* Five threads (`exec`, `preview`, `switch`, `service`, `camera`),
each with a program counter, the planner its call uses and the goal it carries.
`gpu` is the holder of `gpu_lock`, `work` what each thread does on the GPU: a capture, a
replay, other CUDA work, or a *copy*, the tensors of start states, commands and feedback that
move between host and device with no lock (`_resolve_start_state`, `_read_state`,
`_close_state_loop`, `_init_robot_at_start`, `_send_command`), from one action of the thread to its
next. `moving` says whether a command was sent since the last stop (`sent`), or a stop left one
running because the controller had not accepted it yet (`loose`): `Halt` is `stop_robot`, which
cancels the goal it has a handle of and no other. `owner`
`_active_graph_owner`, `pending` `_graph_capture_pending`, `live` the planners whose
solver holds a captured graph, `dropped` those a rebuild has taken away. A session
is `ExecStart`, `Setup`, `Refresh`, `Plan`, `Discard` (the live goals of the time
before), `Enter`, then the loop: `Top` (cancel and errors), `TakeLiveGoal`,
`ApplyLiveGoal`, `StepGuard` (lock when a capture is announced), `Step`, `Send`;
every way out goes through `StopRobot` and `Report`. `SetPlanner`,
`SetCollisionCache`, `UpdateMotionGenConfig` test that no goal is active and act
later, as the code does. `escape` is history: see *conditions* in section 4.

*SceneWorld.* `scene` counts the obstacles of each name in the buckets, `names`
and `excluded` are the two registries, `staged` the camera map of the Scene (the
number of its scan), `world[s]` what solver `s` was last given: copies, disabled
names, map, and whether its cache can hold a map. A service changes the Scene in
one action and pushes it in two: `NotifyWorldChanged` takes `gpu_lock` and reads the
Scene, `FinishPush` writes the solvers and releases the lock. Planners do the same with
a new camera map (`RefreshPerception`). `Reached` is the subset of solvers a push gets
to before one of them raises. Solvers are built by `RebuildSolvers` (after a change of
the cache; a constructor that raises leaves those after it as they were),
`UpdateMotionGenConfig`, `WarmupOnDemand` (the planner that is set has no solver yet),
`WarmupIK`, `IkRequest` and `GenerateRM` (another batch size or seed count), `WarmupFK`.
A new MotionPlanner whose warmup raises, and an FK validator that does not load, leave no
solver (`Lose`). Each is constructed with the primitives only, so a camera map is
missing from it until the next push; the retargeter is given the whole Scene, excluded
obstacles included (section 5). `AttachFind`, `AttachFit`, `AttachFails`, `Detach` are the
attachment services; `Validated` and `VoxelGrid` are what the FK services and the voxel
grid show of the world.

*TaskGraph.* The planner is one thread and what is left open is what the solver
returns. An interface state is `[key, id]`: pushes and emissions are deduplicated by
key, chains are threaded by the object `id`. `stack` holds the calls of `compute`
in progress, `queue` the emissions waiting to be lifted, depth first, as the
`on_solution` hooks do. `InitTask` is `TaskExecutor.init` (resolution and its
validation), `Pass`/`Conclude` the planning loop, `Enter`, `Call`, `Skip`,
`Propagate`, `Leave` the containers, `Generate`, `Forward`, `Backward`, `Join`,
`Flush`, `IkCandidates` the leaves, `Emit`, `Lift`, `Traces`, `Composed`, `Lifted` the
composition of solutions: `Links` are the solutions of a serial container's children
that meet at an object, `Traces` the paths along them. Everything that walks the tree
or a path is a recursive function over a finite set (`Border`, `Expected`, `Can`, `Line`, `Received`,
`Abandoned`, the `paths` of `Traces`), so that theorems can be about the module.
`TaskAssumption` says what a task is: a tree of objects, each with one parent, numbered
from the root down. A task of a single stage, which `build_tree` admits, is not modelled.

*TaskServer.* A task is a chain of segments (`Segments`: scene operations, `SceneOps`, then
maybe a motion with the planner, the batch and the links of its request) whose shape is
given: finding it is `TaskGraph`'s matter. The adapter's request is in
`outbox` until the server handles it; `GiveUp` is the deadline and may leave the
request there. `mirror`, `active` are what the adapter believes, `scene`, `planner`,
`off` what the server holds. `Segment` .. `NextSegment` plan one motion (switch the
planner, take the allowed links out of collision, solve, restore), `StartPlayback` ..
`DriveHeard` play the chain, `Report` answers the client. A scene operation is served
(`Serves`: done, or reported impossible) or fails (`Fails`): an object or a load is refused that
could have been taken, an attach has taken effect before it raises, a detach raises with the load
held or let go. The playback looks at none of these answers and goes on (`OpApplied`). `doubt` is
history: the kinds of request given up or answered wrongly, and `refused` and `load` for a refused
operation and for an object taken up or set down while another was held. `PlaybackAfter`, the scene
that a chain's operations lead to, is made of recursive functions: a theorem is about it.

*MoveItMirror.* One planning request at a time, in the steps of
`CumotionInterface::solve`: `Prune` and `RemoveMember`, `Mirror` (`MirrorOne` is
its effect on one member), `AttachBody`, `DetachBody`, `GetObstacles`, `MirrorBack`,
`Plan`. `known[g]` and `groups[g]` are the signatures and the groups a client
remembers, `server` the node's obstacles. `Call` may fail and leave its request
`late`. A shape with its pose is one value; `Unsupported` are those `fillRequestFromShape`
has no request for, which `MirrorOne` passes over, and `Converted` says what a mirrored shape is in MoveIt's
world once `MirrorBack` has replayed its request. Any number of bodies may be carried
(`PickUp`); the server holds one. `mixed` and `several` are history (section 4). The user's edits of MoveIt's scene are guarded by `Free`: the forward sync
works on the scene it was handed (`solve.seen`), so an edit made during it commutes
to the moment before the mirror back.

Operators whose comment begins with *Mutant* are wrong variants of the next
definition. The modules never use them: they say which plausible mistake each
property is able to notice.

## 4. Runs

Each `.cfg` is one run of the module it is named after; `CHECK_DEADLOCK FALSE` where
clients may stop asking and every bound ends the behaviour (`MoveItMirror` has no such
end: its run checks deadlock).

| run | result | what it checks |
|---|---|---|
| `CommandProducers_fair` | holds | 2 producers, one-shot senders, stops, one switch, 2 goals with rejections, aborts and a fair controller: `NeverAnothersTrajectory`, `TrackingIsCurrent`, `StopMissesOnlyUnacknowledged`, `ActiveSendGetsVerdict` |
| `EmulatorPlayback_plays` | holds | 5 epochs of commands of up to 3 points, sends, streamed commands, stops, publishing that may raise: `CompletionIsReached`, `RobotFollowsCommands`, `PlaybackEnds` |
| `MCUnifiedPlanner_executes` | holds | 2 execution goals, cancels, aborts, rejections, lost server, feedback at the stamped end: `SuccessIsEarned`, `IdleWhenFree`, `ImplementsSlot` |
| `MCUnifiedPlanner_surfaces` | holds | execution, preview and batch together, 2 planners, 2 strategies, feedback: `EpochNamesPlan` |
| `MCUnifiedPlanner_live` | holds | 2 execution goals and a preview with 2 targets, lost server, feedback: `ExecutedIsRequested`, and `EverySlotIsFreed`, the fair abstract slot |
| `MCUnifiedPlanner_failure` | violated | `FailureEndsExecution`, section 5 |
| `ReactiveSession_servo` | holds | a session of one reactive controller beside previews, planner switches, one rebuild or reconfiguration, a camera, live goals and cancels: `CapturesRunAlone`, `CapturesAreGuarded`, `StoppedWhenFree`, `GoalsAdvance`, `LiveGoalTaken`, `CancelFreesSlot` |
| `SceneWorld_sync` | holds | 2 obstacles of the world file, the open-loop, IK and FK solvers, 2 camera maps, cache switched on and off, rebuilds that stop half way, attach and detach, pushes that raise: `WorldInSync`, `PayloadIsInert`, `NoOutdatedMap` |
| `TaskGraph_plan` | holds | thirteen trees, two keys, every answer of the solver: `TaskTypeOK`, `SolutionsAreChains`, `FallbacksCommits`, `NothingWithheld`, `FailureIsReal`, `PlanEndsUnlessStarved` |
| `TaskServer_tasks` | holds | two tasks of two segments, one motion in a mixed batch, a server that refuses, fails after the effect, answers late or never: `TaskServerTypeOK`, `ContactsAreRestored`, `SolvedAsAsked`, `SuccessIsDriven`, `MotionSeesScene`, `MirrorIsTrue`, `TasksSettle` |
| `TaskServer_regrasp` | violated | one task that picks an object up, sets it down and picks it up again: `MotionSeesPlannedScene`, section 5 |
| `MoveItMirror_sync` | holds | two groups, two objects that move, get a shape no request carries, go, are carried, both too, and put down, and come back converted, two calls that fail or are executed late: `KnownIsServed`, `PlanSeesScene`, `AttachedIsHeld`, `MirrorBackIsIdle`, `ObstaclesGetThrough` |

**Bounds.** `MaxSends` bounds the controller goals, `MaxTags` the sends and stops (each
takes a tag), `MaxEpoch` the loads, `MaxClients` the strategy objects. Two goals are
enough for a late callback to meet a newer send, and a third tag lets a stop fall
before, between or after them. Two producers are enough to overwrite each other, and an
epoch of 2 lets either load after the other has. `EmulatorPlayback`: three points make a
first, a middle and a last one, and five epochs let a thread be superseded by a stop, a
load and a further send. In `UnifiedPlanner`
two execution goals compete for the slot, and one call on each surface is enough for
any two to overlap; two targets make a foreign plan visible (`live`), and with a single target
(`executes`, `surfaces`) the pose distinguishes plans made before and after a motion.
Symmetry is declared for calls of one surface and for targets, in runs without
liveness, and for the obstacles of `SceneWorld`. `ReactiveSession`: `MaxGoals` counts goals over all surfaces (two: a live goal,
a preview or a second session beside the first), `MaxServices` the administrative
requests (one: each can meet a session at any point). `SceneWorld`: `MaxScans` is two
(a map is replaced), `MaxCopies` one (an obstacle of a name that is already there, as
`add_object` refuses); the reactive controllers' solvers are left to the theorems, which
hold for every set of them. `TaskGraph`: two keys make a state that connects and one that
does not; `MaxOutputs` is the number of solutions of a relative move from one state.
`TaskServer`: `MaxLate` is how many requests given up stay with the server. `MoveItMirror`:
`MaxFaults` is the number of calls that fail, `MaxShapes` the number of an object's shapes
(one in the run; the theorems are about any number). Each of them is a constant; the theorems of section 6 hold for
every value. Two runs have a `CONSTRAINT` beside them. `Unraced` (`MCUnifiedPlanner_executes`): states in
which a command has overtaken a callback are not followed; the two invariants say nothing
of them, and the slot is independent of what a callback writes. `Bounded` (`MoveItMirror_sync`): scenes with a
second object are those of one group and no failed call; scenes of one object have two groups and failures.

**Conditions of properties.** Several properties promise what the code promises only
while something did not happen; the condition is a history variable, and the runs do
reach states on both sides of it.

* `~raced`: no command fell between a callback's tag test and its write
  (`TrackingIsCurrent`, `SuccessIsEarned`, `StopMissesOnlyUnacknowledged`): inside that
  window a late result *is* written over the newer send's state
  (`_action_result_done` tests at line 270 and locks at 276).
* `inst = 1`: the first strategy object (`NeverAnothersTrajectory`, `EpochNamesPlan`): a new object counts its epoch from 0, so an old epoch may match again.
* `reached` (`SuccessIsEarned`, `IdleWhenFree`): feedback reported the stamped end of the goal's
  trajectory. `_get_progression` counts it as completion before the controller has decided; the
  goal's rest may then execute while the slot is free, and may still be aborted.
* `IdleWhenFree` excepts a goal whose call did not succeed once a cancel was asked for: a stop misses a
  goal that is not accepted yet, and the flag of a cancel is on the planner object, where it may end
  the next goal's call. Without cancels, only `reached` is left.
* `job.own` (`ExecutedIsRequested`): no other call stored or loaded a plan between this goal's plan
  and its send, and it planned (a reused preview is not its own plan).
* `CapturesRunAlone` excepts replays and copies, which the code runs with no lock beside a
  capture (section 5). `StoppedWhenFree` is about the stop: what it had no handle of is `loose`.
* `StopMissesOnlyUnacknowledged` is for a controller whose action server can be reached
  (`ServerLoss`): a send that finds none drops the previous handle without a cancel
  (`SendUnavailable`), and the goal it named executes on.
* `~escape` (`ReactiveSession`): a step that had taken the capture flag raised before its
  capture; graphs were released or rebuilt under a session by a request that had passed its
  test before the goal was admitted; or `plan()` built a missing solver by itself.
* `resent` (`EmulatorPlayback`): a command was sent twice. `PlaybackEnds` excepts it: the second
  send of a loaded command resets the progression, and its thread may be stopped by
  an immediate application of the same command.
* `~failed` (`SceneWorld`): the last push did not raise in some solver. `Exact`: while an
  obstacle is excluded, a retargeter is not counted (section 5).
* `Sound(kinds)` (`TaskServer`): no request of those kinds was given up or misreported,
  and tasks did not overlap. A request given up may still be executed, and one that is answered with failure
  may have taken effect: nothing that is believed about the server holds after that. `MotionSeesScene`
  needs that no operation was refused either (`refused`); the objects and the load of
  `MirrorIsTrue` do not, and only its last part (no other load) needs that nothing was taken up or set down
  while another object was held (`load`). Of a mixed batch `SolvedAsAsked` says that the
  solve is made by one of the planners named: section 5.
* `Sound` (`MoveItMirror`): no call failed, one group's client is at work, and no sync met an object that
  no longer has a shape it was mirrored by (`mixed`: another number of shapes, or one no request carries).
  The properties are about the shapes a request can carry. `several`: a sync met two bodies, carried
  or still attached; until then what the server holds is the only one the client believes attached.
  `KnownIsServed` and `ObstaclesGetThrough` need no condition.
* `NothingWithheld` does not count what a batched `Alternatives` wrote, and `FailureIsReal`
  counts two objects with one key as one state only while no child of the root has written
  two objects with one key, a solution leading to one of them (`Merged`): section 5.
* `Starved` (`TaskGraph`): a container that is committed (a solution, a cap, a variant it has
  left) holds input nobody will take. `can_compute` then stays true and the loop of
  `TaskExecutor.plan` does not end (`executor.py:126`).

**Fairness.** `ClientFairness`: weak fairness of every callback step (the executor
serves ready tasks; there is no cancellation of a future) and of every controller
step (it answers requests and ends goals). No command is fair. `Fairness` of
`UnifiedPlanner`: weak fairness of every step of an admitted call, of the rest of a
cancel or a switch once begun, and of callbacks and controller; strong fairness of
`PlanBegin` only, since `gpu_lock` is free again and again and a blocked thread of
the executor gets it at some point. Clients' requests are not fair, and nothing is
assumed to be refused. `EverySlotIsFreed` is checked for a controller that completes
what it accepts: with an abort it does not hold, and that is the finding of
`MCUnifiedPlanner_failure`. `EmulatorPlayback`: a call that has begun goes on, and the
playback thread runs. `ReactiveSession`: GPU work that has begun ends, the rest of
a service or a cancel runs, and the execution thread is not starved of the lock
(strong). `TaskGraph`: the planner's one thread runs; the solver returns because every
service call has a deadline. `TaskServer`: a task's thread runs and its deadlines pass;
nothing at all is assumed of the server. `MoveItMirror`: each call returns, `move_group`
keeps planning for every group, and the server works off what it received.

## 5. Disagreements

`MCUnifiedPlanner_failure`: a failed result is `-1.0` "so SinglePlanner.execute() stops
and reports the failure" (`P/robot/joint_control_strategy.py:418-420`); the loop runs
while the progression is below 1.0, so a failure keeps it running until a client
cancels, and the slot stays taken. The check after the loop can only see a failure
that follows a sampled completion.

`TaskServer_regrasp`: playback is to "materialize each segment's scene delta on the curobo
server in chain order" (`src/curobo_task_constructor/curobo_task_constructor/executor.py:176-177`).
`_apply_op` skips an operation of a kind and name it has applied before (lines 190-194), so
that a chain of attach, detach, attach ends with the object lying there, and the last
motion is driven as planned, with the object in the hand. `MotionSeesScene` (and `MotionInScene`, which proves
it) counts each operation once, as the playback does; `MotionSeesPlannedScene` counts the
repetitions too, as the stages did when they planned.

The models have further behaviours that a comment of the code speaks against, and that
no correct property can exclude. They are in the modules as the code has them:

* `_cancel_action` says it cancels an in-flight goal (`joint_control_strategy.py:288`).
  Between the send and the acceptance no handle is known; the acceptance is then stale
  and dropped, and the goal executes (the exception in `StopMissesOnlyUnacknowledged`).
* The epoch is "bumped by every set_command()/stop_robot() call" (lines 60-62).
  `stop_robot` of the real-robot strategies does not bump it, so a producer waiting to
  send passes the guard and sends empty buffers (the `Nothing` in `NeverAnothersTrajectory`).
* The pending plan "targets the same goal/start" (`unified_planner_node.py:2114`), but the
  batch service replaces the trajectory the planner object holds without touching the
  cache (`StorePending`, a batch, `ReusePending`).
* The epoch "guards against another set_command() landing between plan() and this call"
  (`single_planner.py:1230-1232`); it is kept on the planner object, so a preview that
  plans in between moves it too.
* `cancel()` "sets a flag that breaks the execution loop" (`single_planner.py:609`);
  `execute()` resets the flag when it starts, which erases a cancel that came while the
  goal was being planned (`CancelFlags`, then `ExecuteBegin`).
* In the emulator "every write to shared state happens under a short buffer_lock hold that
  also re-checks" the epoch (`emulator_strategy.py:173-175`); the point is published, and
  recorded in the feedback buffer, after the lock is released (line 198), so a
  superseded thread may still announce its last point after the newer command.
* The immediate path is for "a signature open-loop callers never produce" (lines 117-121).
  A stop leaves the thread alive until it wakes (`sleep`), and an open-loop command sent
  meanwhile jumps to its last point and counts as complete (`Halt`,
  `Load`, `Send`, `StartImmediate`).
* `set_planner` tests `_goal_active` and switches after releasing `_goal_lock`, so a goal
  admitted in between runs while the current planner changes; in a reactive session the
  switch releases the graphs under it (`escape`). `set_collision_cache` does the same with
  a rebuild.
* The scene of the primitives "is also what a solver must be *constructed* with"
  (`P/core/obstacle_manager.py:1197`); the retargeter is constructed with the Scene as it is
  (`P/planners/retarget_controller.py:63`). Built while an object is carried, it collides with
  the object's static copy until the next push (`ConstructedWith`, `Exact`).
* "ANY CUDA op from ANY thread" fails beside a capture (`unified_planner_node.py:1862-1871`; also
  `P/planners/reactive_controller.py:397-402`), and "every CUDA op - including the host syncs that
  materialize results - must run under the same lock" (`P/core/ros_service_manager.py:433-443`). A
  session converts the robot's state, its commands and the feedback, and the node the start
  state of every request, with no lock (`reactive_controller.py:685`, `750`, `758`, `792-801`,
  `unified_planner_node.py:2096`): a preview's plan, a set-up or a rebuild may be capturing. These are the
  copies that `CapturesRunAlone` excepts, beside the replay of a graph (line 283).
* "Names currently attached in cuRobo" (`cumotion_service_client.hpp:135`): the client attaches every
  carried body (`cumotion_service_client.cpp:602-630`) and the server holds one, the last. Nor does
  `/detach_object` name what it detaches (`P/core/attachment_services.py:362-380`): when one body was put
  down and another picked up between two plans, the new one is attached first and then detached in the
  old one's place (`several`).
* The mirror back is "Idempotent" (`cumotion_service_client.cpp:757-759`). It gives the request's pose to the object
  (684) and to the shape in it (695, 704, 714, 745), and MoveIt composes the two: an object off the origin moves.
  A cylinder's radius and height come back exchanged (711-712; a SolidPrimitive has its
  height first). `Converted` stands for both, and the next sync takes the object as changed.
* A shape no request can carry is "skipped, not fatal" (line 133). It is never an obstacle, and when an object that was
  mirrored gets such a shape, its old obstacle stays on the server (571-575) and the mirror back puts it over
  MoveIt's object (`mixed`).
* The playback goes on after an operation that was refused: `_apply_op` does not look at the answer
  (`executor.py:190-204`), although each delta is to be materialized (176-177), and drives the next motion in a
  scene that lacks it. The adapter itself pads missing dimensions with 0.0 (`robot/curobo.py:460-463`), which
  `add_object` refuses (`P/core/obstacle_manager.py:763-766`).
* An attach that fails has attached: the name, the exclusion and the spheres are set before the world push that may raise
  (`P/core/attachment_services.py:163-176`, `395-397`); a detach that raises (366-378) may keep its
  load, which the adapter takes as gone (`robot/curobo.py:500-506`). The mirror is then wrong (`Fails`).
* A batch of requests for several planners is solved by the last one switched to
  (`robot/curobo.py:410-412`), although batching is "a pure optimization"
  (`core/container.py:12-13`) that "must not change semantics" (`tests/test_containers.py:117`). That `off` is what the solve
  sees ("(spheres OFF) for the duration of the solve", `robot/curobo.py:390-391`) is not promised either:
  `set_link_collision` changes the node's own kinematic model (`P/core/robot_model_manager.py:166-180`),
  and the attached spheres live on the MotionPlanner's (138-140).
* The planning loop "terminates on its own; `max_iterations` is only a belt-and-braces guard"
  (`executor.py:12-17`). It does not when a committed container holds input nobody takes (`Starved`).
* "Batching is an optimization that must not change semantics"
  (`src/curobo_task_constructor/tests/test_containers.py:117`, `core/container.py:16-17`).
  `Alternatives.compute` propagates each child inside the loop and solves the batch in the
  `finally` after it (lines 494-506): the ends that `commit_result` writes (`core/stage.py:562-573`)
  reach neither the container nor the stage after it, which starves (the tree `Starving`). A
  batch at the end of a serial container is not affected: its solutions are lifted.
* The key of an interface state is its "semantic identity for dedup", by which "numerically-identical
  solves converge" (`core/state.py:170-177`). Interfaces keep the first object of a key
  (`core/stage.py:232-236`), but chains are threaded by object (`core/container.py:243-249`, `386-409`): a
  chain through the dropped object is cut, and a task may fail although states with the same keys
  connect its ends (`Merged`; the tree `Home`).

## 6. Proofs

A run decides a small instance. The theorems below hold for every value of the
constants, under the assumptions each module names beside them. Each module's
header says what it proves; a property that both a run and a theorem are about has the
same definition in both.

**`ActionClientProofs`.** `ClientTypes` is the type invariant, and `TrackingCurrent` says
that the recorded handle, result and fraction belong to the active send unless a command
raced a callback. The latter is not inductive: a callback that has tested its tag
writes later, whatever the tag is then. `TrackingInv` adds what makes it so: tags of
known goals never exceed the current one and differ from each other (`TagsOK`), a goal
not yet answered has no callback past its response (`MessagesOK`), and a
callback that is `checked` while nothing has raced still carries the current tag
(`WindowOK`). One lemma per part, one step per action. `StopMissesUnacknowledged` adds
`AcknowledgedOK`: an executing goal whose acceptance was handled is the one the handle names, has
a cancel on its way, or has a successor that the controller has not accepted. It supposes
that the action server can be reached (`~ServerLoss`).

**The same module, about `CommandProducers`.** `NeverAnothers` and `MatchingEpoch` follow from `ClaimInv`:
an epoch handed out names one load, and while it is current the buffer is what that
load left or empty. `ProducersDriveClient` shows that the producers over the context
implement `ClientSpec` (by the identity on the client's variables, each
`SendTrajectory` being a `SendGoal`, a `SendUnavailable` or a step that leaves the
client alone), so `ProducersTrackCurrent` inherits `TrackingCurrent`
and `ProducersStopMisses` inherits `StopMissesUnacknowledged`.

**`UnifiedPlannerProofs`.** `OneExecution`, and `SlotImplemented`: the node implements
`ExecutionSlot` under the mapping of `UnifiedPlanner` (`Slot`). `SlotInv` says that
`active` is true exactly while some execution call is between `GoalCallback` and
`FreeSlot`, and that there is one such call; the steps that touch neither are shown to
stutter (`Quiet`).

`PlannerStepDrives`: every step of the node is a step of
`ClientSpec` or leaves the client alone, whence `PlannerTracksCurrent`. `PlannerTypes` is the type
invariant, strengthened by what a call's locals are once it plans or executes
(`WantOK`). `EpochNames` proves `EpochNamesPlan` with CUDA graphs on
(`UseCudaGraph`): it is inductive only together with `PlanLock`, which says that at most
one call is between `PlanBegin` and `PlanDone`. Without the lock a second plan overwrites
the planner object's plan between the load and the record of its epoch. Three theorems are
about what an execution does and what it is worth:

* `SuccessEarned`: a reported success was earned, by the controller's result or by feedback at the
  stamped end. What `SeesComplete` reads is the active send's (`TrackingInv`), the active send can only
  be the last one (`LastOK`), the last send is this call's, because nobody else sends while it is in the
  slot (`OthersLeaveAlone`, `EarnedAt`), and what was earned stays so (`EarnedStays`).
* `IdleFree`: a goal that is under way has its call waiting for it, unless it was reached or its call was
  ended by a cancel (`IdleInv`). `LeftAt` says of each call what it may have left behind, and
  `FlagsOK` that a planner's flag is up only if some goal was cancelled, which stays on record
  (`CancelsStay`).
* `ExecutedRequested`: while a call's plan is the last one stored or loaded, the planner object and
  the buffers hold what it asked for, or the buffers were emptied (`KeptAt`), and so does what it sent under that
  mark (`MarkedAt`). Other calls can only empty the buffers without taking the mark away
  (`OthersOnlyEmpty`).

None of the three has a hypothesis about which calls, cancels or feedback there are: the exceptions are in
the properties.

**`SceneWorldProofs`.** `SolversInSync`, `CarriedIsInert` and `MapIsCurrent` come from one
`SceneInv`. Its core is `SnapshotOK`: a push under way carries the Scene as it is, unless
the Scene has changed since, and then the service or planner that changed it still
has its own push to make (`SolversOK`, with `InStep` for one solver). A solver that is built
in between is in step by its constructor (`BuildStep`, `RebuildStep`), one that is lost is
no longer asked (`LostStep`).

**`ReactiveSessionProofs`.** `RobotStopped` (from `RestInv`: a session that has commanded
the robot since its last stop is in its loop, which is left through one), and `CapturesGuarded`, `CapturesAlone` from
`DisciplineInv`: which threads can be inside a planner's solver (`ThreadsOK`), what a
rebuild may leave live (`RebuildOK`), that a planner without a captured graph has its
capture announced or its lock taken (`FlagOK`), and that GPU work has the lock, but for replays and copies
(`LockOK`). `GoalsOnlyAdvance` proves the action property `GoalsAdvance`: what a session
finds in its mailbox, and what it has taken, is newer than what its solver tracks, unless a
preview was asked for since (`OrderOK`); a goal is set under `gpu_lock`, so nothing
comes between (`SettersOK`).

**`TaskServerProofs`.** Its `Core` says which state of a task's row goes with which call
(`Typed`), that whatever the server still has of a task is either what that task waits for
or lost to it (`RequestsOK`), and that `_solve_in_progress` is true exactly while some task
works, as long as it let one in at a time (`OneTask`). `RaisedDoubts`: a call given
up is on record. On these stand the parts, each about one kind of request and each under
the condition of its property, `Sound(kinds)`:

* `ContactsRestored` (`LinksOK`): the links that are off are those the plan under way has
  turned off, and none is when no plan is under way.
* `PlansSolvedAsAsked` (`PlannerOK`): the server's planner is the one last switched to, and when a call solves it is
  one of those its request or its batch names (`PlannerAt`), which stays true of the solve (`SolvedBy`).
* `SuccessDriven` (`DrivenOK`): the motions driven are those of the chain up to where
  the playback stands, unless a result says otherwise. It needs no condition.
* `MirrorTrue` (`MirrorOK`): what the adapter will have recorded once it hears an answer is
  the server's scene (`Shows`): the objects, and among what it believes attached the load.
* `MotionInScene` (`SeenOK`, `SceneOK`): the scene while planning is that the task began
  with, and during playback what the operations so far lead to, each taken once: what the executor
  believes applied is exactly what the replay of the chain up to its place has seen, whatever
  repeats (`SeenAt`). `Replay` and `PlaybackAfter` are recursive functions: that they exist and take
  each step as written follows from a least counterexample over the naturals (`SmallestOf`,
  `IterationExists`, `ReplayFacts`, `ChainReplayFacts`).

No theorem supposes anything of the chains.

**`MoveItMirrorProofs`.** `SkippedIsServed`: an object a client skips as unchanged is on the
server, whatever calls failed. `MirrorInv` adds the shape of the records (`FormOK`), who may
remember an object (`OwnersOK`), and that the lists of a sync under way cover what is
remembered (`ListsOK`). `MirrorTyped` is the type invariant. Under `Sound` more is true, and
`FaithInv` says it for each phase of the sync: what the one client knows is what the server
has and is in one of its lists (`Exact`, `Listed`); during `Prune` what the server has is of
the scene, of a carried body, or still to be removed (`PruneOK`); during `Mirror` what the
scene has and a request can carry is served or still to be mirrored (`MirrorOK`); after it both hold with nothing left
to do (`AfterOK`). `SkipFaith` is the step that passes over a shape no request carries. `PlansSeeTheScene`
follows. The action property, `MirrorBackIdle`, needs `BackInv` too: an object that was mirrored back is still remembered, or is in the
middle of being dealt with, or has left the scene (`Backed`), so that none of the scene is taken for gone.
`AttachedAgrees` needs `HoldInv` beside it: between the phases what the server holds is among what the
client attached, and during `attach` and `detach` among what it keeps with what is done so far
(`Carries`); while no sync met two bodies there is no other (`CarriesOne`).

**`TaskGraphProofs`.** The trees are arbitrary (`TaskAssumption`), so everything that walks
one needs its recursive function first: `RecursionExists` says that a definition by recursion
along a rank has a solution, from a least counterexample (`Smallest`), and lemmas such as
`LineFacts`, `TracesFacts`, `BorderFacts` and `ReachFacts` unfold the functions of the module once.
On these stand four invariants.

* `TaskInv` gives `TaskTypes`. It is the types (`Typed`); one state per key on the interfaces, of
  which no more is counted as handed down than there is (`Kept`); the requests of an open
  batch belong to children of the container that runs (`Open`); the index of Fallbacks is
  a child's or one past the last (`Placed`); ComputeIK has taken no more candidates than its
  child has solutions (`Taken`); calls and emissions are under way only while planning (`Busy`).
* `CommitInv` gives `FallbacksCommit`. The index of the variant being tried agrees with the calls
  in progress (`Frames`) and with the emissions still waiting (`Queued`): nothing beyond the
  index has been attempted (`Beyond`), nothing before it has a solution (`Behind`), and a
  solution of a variant is passed on to the container (`Passed`), which is
  entered only while it has none (`Unsolved`). The nesting is what makes it hard: a solution
  of a variant appears in the middle of a lift, below frames that have not moved yet.
* `LinkInv` gives `SolutionsLinked`: each emitted or queued solution is a sequence of segments
  that meet, from its start to its end, the children in order. A lift composes paths of
  earlier solutions on both sides of the new one; `LinkedUpTo` carries linking along a path
  (`LinkedNext`, `LinkedChain`) and across the new solution (`LinkedJoin`).
* `FailInv` gives `FailureReal`, with the two first. When the children of a serial container
  have solutions that meet at objects, the container has one or has it queued
  (`Complete`): the lift of the newest of them finds the others, whichever it is
  (`TracesFacts` and `ChainsFound` show that no chain through it is missed). A failed
  verdict is reached with nothing queued and no solution of the root (`Ended`). What is left is to
  turn states that meet by key into states that meet by object: what a stage reads, and so
  whatever it emitted, is an object that its neighbour wrote or its container was
  handed (`SourceInv`), and one of two neighbours reads where the other writes, since the task was
  resolved (`Faced`, `FaceFacts`); so unless a child of the root wrote two objects with one key,
  equal keys are the same object (`KeysMeet`).

**`EmulatorPlaybackProofs`.** `RobotFollows` and `CompletionReached` from one `PlaybackInv`:
no thread is ahead of the epoch, and a thread left after a stop is of an older
one (`EpochsOK`); a thread of the current epoch plays what is in the buffer and, until it is
told to stop, leaves its loop only behind the last point (`PlaybackOK`); a call on the
command path has set the event before it writes (`CommandOK`). `EmulatorTyped` is the type
invariant.

The type invariants of `TaskServer` and `TaskGraph` are run and proved; those of the other
modules are proved and not run: the theorem is the stronger statement and the other
properties of a run would fail on an ill-typed state. `AtMostOneExecution`
(`ImplementsSlot` of the runs implies it) and `MatchingEpochIsMine` (what the proof of
`NeverAnothersTrajectory` rests on) are proved and not run either.

**Only model-checked.**

* Liveness (`ActiveSendGetsVerdict`, `EverySlotIsFreed`, `PlaybackEnds`, `LiveGoalTaken`,
  `CancelFreesSlot`, `PlanEndsUnlessStarved`, `TasksSettle`, `ObstaclesGetThrough`): fairness
  and ENABLED are out of the prover's reach.
* `TaskGraph`'s `NothingWithheld` and the part of `SolutionsAreChains` that says that every
  child of a serial container contributes. The first is about what has become of every state
  ever written: a proof has to follow each from the stage that wrote it to the attempts made
  from it, through every container in between. The second rests on the order in which
  solutions are emitted and on what the dedup by key drops.

Every other invariant and action property that a run checks is stated by a theorem.

## 7. Limits

Abstractions and assumptions, beside those of the runs:

* A trajectory is an opaque value made of a planner's target and start; a pose is the
  target it was reached by. Geometry, costs and timing are not modelled; whether a plan
  or an IK exists is a choice.
* Requests carry no `start_pose`: a call resolves its start from the measured pose. The
  head of `_execute_goal` reads the node's state in one action.
* A batch is a call that plans several times; the model takes one of them.
* `UnifiedPlanner` has strategies with an action interface, whose results are the only
  source of progression; the emulator's own progression is in `EmulatorPlayback`, which is
  not composed with the node. `allow_cached` and the age of a preview are one
  choice of the request.
* `Refuse` is a choice: which validation rule refuses which request is not modelled.
* rclpy's executor and action server, the trajectory controller and the solver are
  external: modelled by what the code relies on.
* `ReactiveSession` is the configuration with CUDA graphs, where the discipline matters.
* `TaskServer` is given the shape of its chains; `TaskGraph` is what finds them.
* In `MoveItMirror` the user edits the scene between requests (`Free`), which loses nothing: the
  sync works on a copy. Bodies are attached under their own id; the branches of the mirror back for capsules and
  meshes given by file (718-729) are unreachable, since the client caches neither. `prim.dimensions` is written
  without a resize (691-712), undefined behaviour that is taken to store the values. A restart of
  `move_group`, which forgets what it had mirrored, is not modelled.
* The exception paths of the response and result callbacks (`joint_control_strategy.py:253`, `284`) are not
  modelled: a future of rclpy that is done holds its answer.

Not modelled:

* *Ghost strategy, robot registry*: the ghost publishes what it is given; a table.
* *Timestamped pose buffer* (`joint_control_strategy.py:119` on), *speed taper and clamp*:
  arithmetic on reals.
* *Collision distance, robot segmentation, frames*, and what the reachability map makes of its
  IK batches: numeric pipelines with one state each; their part in the solvers' worlds is
  in `SceneWorld`, their part in `gpu_lock` in `ReactiveSession`.
* In `SceneWorld` a solver owns its copy of the Scene. The retargeter's constructor keeps a
  reference to the voxel grid it is given; that it may later see the grid change in place is not
  modelled.
* *Configuration, robot description, service registration*: run once at start-up, before
  anything concurrent exists.
* *Diagnostics, plots, tools, benchmarks, RViz panels and displays*: no state that the
  robot depends on.
* *The solver* (cuRobo) is a git submodule and not part of the repository.

## 8. Plan

Done: the execution stack (`ActionClient` to `UnifiedPlanner`), the emulator, reactive sessions and the
GPU discipline, scene and attachments, the task constructor, the MoveIt plugin; a theorem
for every safety property of theirs that the prover can state.

Left, in this order:

1. `TaskGraph`: a proof of `NothingWithheld`, which needs the destination of every state written
   as `SourceInv` gives the origin of every state read, and of the rest of `SolutionsAreChains`.
2. `ReactiveSession` as a second implementation of `ExecutionSlot`.
3. Pure algorithms: the signatures by which the mirror decides that nothing changed, and
   the clamp of the timestamped pose buffer at its ends.
