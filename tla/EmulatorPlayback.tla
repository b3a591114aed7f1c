-------------------------- MODULE EmulatorPlayback --------------------------
(***************************************************************************)
(* The simulated robot (robot/emulator_strategy.py over the command        *)
(* buffers of robot/joint_control_strategy.py).                            *)
(*                                                                         *)
(* The command path is serialized by RobotContext.strategy_lock: command   *)
(* says where its one call is.  The playback thread takes only             *)
(* buffer_lock, for each write; what it tests before (stop_execution) may  *)
(* be out of date when it writes.  set_and_send_command holds buffer_lock  *)
(* across a load and its send (held).                                      *)
(*                                                                         *)
(* A command is known by the epoch of its load and a pose is a point of a  *)
(* command: <<epoch, number>>.  A thread is started only when there is no  *)
(* other alive, so one record is enough, and the join in send_trajectrory  *)
(* never waits.                                                            *)
(***************************************************************************)
EXTENDS Integers

CONSTANTS
  MaxEpoch,   \* bound on epoch
  MaxPoints,  \* bound on the points of a command
  Raises      \* whether publishing may raise

ASSUME EmulatorAssumption ==
  MaxEpoch \in Nat /\ MaxPoints \in Nat /\ Raises \in BOOLEAN

VARIABLES
  epoch,     \* _buffer_epoch
  length,    \* len(position_command); 0 is an empty buffer
  pose,      \* current_joint_positions
  progress,  \* trajectory_progression: "zero", "partial" or "full" (1.0)
  state,     \* robot_state
  stop,      \* the event stop_execution
  thread,    \* the last playback thread: where it is, and its snapshot
  command,   \* where the call on the command path is
  held,      \* the command path holds buffer_lock meanwhile
  sent,      \* history: epoch of the last command played or applied
  resent     \* history: a command was sent again

vars == <<epoch, length, pose, progress, state, stop, thread, command, held,
          sent, resent>>

NoThread == [step |-> "dead", cmd |-> 0, index |-> 0, total |-> 0]
Alive    == thread.step # "dead"

Init ==
  /\ epoch = 0 /\ length = 0
  /\ pose = <<0, 0>> /\ progress = "zero" /\ state = "idle"
  /\ stop = FALSE /\ thread = NoThread
  /\ command = "none" /\ held = FALSE
  /\ sent = 0 /\ resent = FALSE

-----------------------------------------------------------------------------
(* The command path.                                                       *)

Load(n) ==
  /\ command = "none" /\ epoch < MaxEpoch
  /\ epoch' = epoch + 1 /\ length' = n
  /\ UNCHANGED <<pose, progress, state, stop, thread, command, held, sent,
                 resent>>

(* Mutant of the next operator: the progression is not reset.              *)
StartKeepsProgress(e, n) ==
  /\ n > 1 /\ ~Alive
  /\ stop' = FALSE
  /\ thread' = [step |-> "test", cmd |-> e, index |-> 0, total |-> n]
  /\ state' = "running" /\ sent' = e /\ resent' = (resent \/ sent = e)
  /\ UNCHANGED <<pose, progress, command, held>>

(* Mutant of the next operator: the event is not cleared.                  *)
StartStopped(e, n) ==
  /\ n > 1 /\ ~Alive
  /\ thread' = [step |-> "test", cmd |-> e, index |-> 0, total |-> n]
  /\ state' = "running" /\ progress' = "zero"
  /\ sent' = e /\ resent' = (resent \/ sent = e)
  /\ UNCHANGED <<pose, stop, command, held>>

(* send_trajectrory of several points: a thread plays a snapshot.  Nobody  *)
(* sees the event set and cleared in between, as no thread is alive.       *)
StartPlayback(e, n) ==
  /\ n > 1 /\ ~Alive
  /\ stop' = FALSE
  /\ thread' = [step |-> "test", cmd |-> e, index |-> 0, total |-> n]
  /\ state' = "running" /\ progress' = "zero"
  /\ sent' = e /\ resent' = (resent \/ sent = e)
  /\ UNCHANGED <<pose, command, held>>

(* A single point, or any command while a thread is alive: the last point  *)
(* is applied at once, after the thread was told to stop.                  *)
StartImmediate(n, hold) ==
  /\ n = 1 \/ Alive
  /\ stop' = TRUE
  /\ command' = "apply" /\ held' = hold
  /\ UNCHANGED <<pose, progress, state, thread, sent, resent>>

(* send_trajectrory of a buffer of n points loaded at epoch e; an empty    *)
(* buffer is a completed command.                                          *)
SendLoaded(e, n, hold) ==
  \/ /\ n = 0
     /\ progress' = "full"
     /\ UNCHANGED <<pose, state, stop, thread, command, held, sent, resent>>
  \/ StartPlayback(e, n)
  \/ n > 0 /\ StartImmediate(n, hold)

Send ==
  /\ command = "none"
  /\ SendLoaded(epoch, length, FALSE)
  /\ UNCHANGED <<epoch, length>>

(* RobotContext.set_and_send_command, as reactive controllers stream.      *)
SetAndSend(n) ==
  /\ command = "none" /\ epoch < MaxEpoch
  /\ epoch' = epoch + 1 /\ length' = n
  /\ SendLoaded(epoch + 1, n, TRUE)

(* The rest of _apply_immediate, under buffer_lock.                        *)
Apply ==
  /\ command = "apply"
  /\ pose' = <<epoch, length>> /\ progress' = "full" /\ state' = "running"
  /\ command' = "none" /\ held' = FALSE
  /\ sent' = epoch /\ resent' = (resent \/ sent = epoch)
  /\ UNCHANGED <<epoch, length, stop, thread>>

(* stop_robot: first the event, ...                                        *)
BeginStop ==
  /\ command = "none" /\ epoch < MaxEpoch
  /\ stop' = TRUE /\ command' = "halt"
  /\ UNCHANGED <<epoch, length, pose, progress, state, thread, held, sent,
                 resent>>

(* Mutant: the epoch stays.                                                *)
HaltSameEpoch ==
  /\ command = "halt"
  /\ length' = 0
  /\ progress' = "zero" /\ state' = "stopped" /\ command' = "none"
  /\ UNCHANGED <<epoch, pose, stop, thread, held, sent, resent>>

(* ... then the buffers and the epoch, under buffer_lock.                  *)
Halt ==
  /\ command = "halt"
  /\ epoch' = epoch + 1 /\ length' = 0
  /\ progress' = "zero" /\ state' = "stopped" /\ command' = "none"
  /\ UNCHANGED <<pose, stop, thread, held, sent, resent>>

-----------------------------------------------------------------------------
(* The playback thread.                                                    *)

Steps(s) == thread' = [thread EXCEPT !.step = s]

TestStop ==
  /\ thread.step = "test"
  /\ Steps(IF thread.index < thread.total /\ ~stop THEN "write" ELSE "finish")
  /\ UNCHANGED <<epoch, length, pose, progress, state, stop, command, held,
                 sent, resent>>

(* One point, if no newer command or stop has bumped the epoch.            *)
WritePoint ==
  /\ thread.step = "write" /\ ~held
  /\ IF thread.cmd # epoch
     THEN Steps("dead") /\ UNCHANGED <<pose, progress>>
     ELSE LET i == thread.index + 1
          IN  /\ pose' = <<thread.cmd, i>>
              /\ progress' = IF i = thread.total THEN "full" ELSE "partial"
              /\ thread' = [thread EXCEPT !.step = "publish", !.index = i]
  /\ UNCHANGED <<epoch, length, state, stop, command, held, sent, resent>>

(* Publishing, which may raise, and the sleep.                             *)
PublishPoint ==
  /\ thread.step = "publish"
  /\ Steps("test") \/ (Raises /\ Steps("raised"))
  /\ UNCHANGED <<epoch, length, pose, progress, state, stop, command, held,
                 sent, resent>>

(* The end of the loop, and of the thread.                                 *)
FinishPlayback ==
  /\ thread.step = "finish" /\ ~held
  /\ Steps("dead")
  /\ IF thread.cmd # epoch
     THEN UNCHANGED <<state, progress>>
     ELSE /\ state' = "idle"
          /\ progress' = IF stop THEN progress ELSE "full"
  /\ UNCHANGED <<epoch, length, pose, stop, command, held, sent, resent>>

(* The exception handler: only the state tells.                            *)
FailPlayback ==
  /\ thread.step = "raised" /\ ~held
  /\ Steps("dead")
  /\ state' = IF thread.cmd # epoch THEN state ELSE "error"
  /\ UNCHANGED <<epoch, length, pose, progress, stop, command, held, sent,
                 resent>>

Playback ==
  TestStop \/ WritePoint \/ PublishPoint \/ FinishPlayback \/ FailPlayback

Next ==
  \/ \E n \in 1..MaxPoints : Load(n) \/ SetAndSend(n)
  \/ Send \/ Apply \/ BeginStop \/ Halt
  \/ Playback

Spec == Init /\ [][Next]_vars

(* A call that has begun goes on, and so does the thread when buffer_lock  *)
(* is free.                                                                *)
FairSpec ==
  Spec /\ WF_vars(Apply) /\ WF_vars(Halt) /\ WF_vars(Playback)

-----------------------------------------------------------------------------
ThreadSteps == {"dead", "test", "write", "publish", "finish", "raised"}

TypeOK ==
  /\ epoch \in Nat /\ length \in Nat /\ pose \in Nat \X Nat
  /\ progress \in {"zero", "partial", "full"}
  /\ state \in {"idle", "running", "stopped", "error"}
  /\ stop \in BOOLEAN /\ held \in BOOLEAN /\ resent \in BOOLEAN
  /\ thread \in [step : ThreadSteps, cmd : Nat, index : Nat, total : Nat]
  /\ command \in {"none", "apply", "halt"}
  /\ sent \in Nat

(* What the comment on _execute_trajectory promises of a superseded        *)
(* thread, seen at the robot: it never goes back to a command older than   *)
(* the one it has taken up, and once stopped it does not move before       *)
(* another command is sent.                                                *)
RobotFollowsCommands ==
  [][/\ pose'[1] >= pose[1]
     /\ state = "stopped" /\ state' = "stopped" => pose' = pose]_vars

(* What execute() takes a progression of 1.0 for, when it lets the next    *)
(* plan start from the robot's pose: the command that was sent has been    *)
(* carried out to its last point.                                          *)
CompletionIsReached ==
  progress = "full" /\ sent = epoch /\ length > 0 => pose = <<epoch, length>>

(* Unless a stop or another load comes, the playback fails or the command  *)
(* is sent twice, a sent command reaches a progression of 1.0: execute()   *)
(* leaves its loop.                                                        *)
PlaybackEnds ==
  sent > 0 /\ sent = epoch ~>
    progress = "full" \/ sent # epoch \/ state = "error" \/ resent
=============================================================================
