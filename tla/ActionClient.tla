---------------------------- MODULE ActionClient ----------------------------
(***************************************************************************)
(* How a real-robot control strategy tracks the FollowJointTrajectory      *)
(* action (robot/joint_control_strategy.py), together with the external    *)
(* trajectory controller that serves it.                                   *)
(*                                                                         *)
(* Two kinds of threads touch the tracking state.  The command path (send, *)
(* stop, strategy switch) is serialized by RobotContext.strategy_lock, so  *)
(* each of its operations is one action here.  The done callbacks of the   *)
(* goal-response and result futures run as executor tasks: each reads the  *)
(* tag _action_seq WITHOUT buffer_lock and writes later, so "arrives" and  *)
(* "applied" are two actions, and anything may happen between them.        *)
(* _action_feedback compares the tag under the lock: one action.           *)
(*                                                                         *)
(* A goal is known by the order of its send.  Only the tracking fields of  *)
(* the installed strategy object are kept: a replaced object still hears   *)
(* its own callbacks, but nobody reads its fields any more.                *)
(***************************************************************************)
EXTENDS Integers

CONSTANTS
  MaxSends,     \* bound: goals ever sent to the controller
  MaxTags,      \* bound on seq in the stand-alone specification
  MaxClients,   \* bound: strategy objects ever installed
  Verdicts,     \* how an executing goal may end by itself
  Rejections,   \* whether the controller may reject a goal
  ServerLoss,   \* whether the action server may be unreachable at a send
  Fractions     \* what a Feedback message may say: "partial", "full"

ASSUME ClientAssumption ==
  /\ MaxSends \in Nat /\ MaxTags \in Nat /\ MaxClients \in Nat
  /\ Verdicts \subseteq {"succeeded", "aborted"} /\ Verdicts # {}
  /\ Rejections \in BOOLEAN /\ ServerLoss \in BOOLEAN
  /\ Fractions \subseteq {"partial", "full"}

VARIABLES
  inst,      \* which strategy object is installed (1 is the initial one)
  seq,       \* _action_seq
  handle,    \* _action_goal_handle
  result,    \* _action_result: "none" (None), "succeeded" or "failed"
  progress,  \* _action_last_progress: "none", or the last fraction
  sends,     \* number of goals sent so far
  goals,     \* the goals: their tag, their state in the controller, callbacks
  cancels,   \* goals with a cancel request under way to the controller
  raced,     \* history: a send or a stop overtook a callback of the installed
             \* object that had compared its tag and not written yet
  reached    \* history: the goals whose Feedback said their stamped end was
             \* reached, while they were the active send

clientVars ==
  <<inst, seq, handle, result, progress, sends, goals, cancels, raced,
    reached>>

GoalIds == 1..MaxSends
NoGoal  == 0
Ended   == {"succeeded", "aborted", "canceled"}

GoalRecord ==
  [owner    : Nat,                   \* the strategy object that sent it
   tag      : Nat,                   \* the seq captured by its callbacks
   status   : {"unsent", "requested", "executing", "rejected"} \cup Ended,
   response : {"none", "pending", "checked", "handled"},
   outcome  : {"none", "awaited", "checked", "handled"}]

Unsent == [owner |-> 0, tag |-> 0, status |-> "unsent",
           response |-> "none", outcome |-> "none"]

ClientInit ==
  /\ inst = 1 /\ seq = 0
  /\ handle = NoGoal /\ result = "none" /\ progress = "none"
  /\ sends = 0
  /\ goals = [g \in GoalIds |-> Unsent]
  /\ cancels = {}
  /\ raced = FALSE
  /\ reached = {}

(* The test every callback makes: does its captured tag still name the     *)
(* active send of the installed object?                                    *)
Current(g) == goals[g].owner = inst /\ goals[g].tag = seq

(* A callback of the installed object stands between its test and its      *)
(* write.                                                                  *)
CallbackOpen(g) ==
  /\ goals[g].owner = inst
  /\ goals[g].response = "checked" \/ goals[g].outcome = "checked"

Overtakes == raced \/ \E g \in GoalIds : CallbackOpen(g)

-----------------------------------------------------------------------------
(* The command path.                                                       *)

(* _send_as_action with a reachable server: the tracking state is reset,   *)
(* the previous handle is dropped without a cancel, and the goal leaves    *)
(* with the new tag.                                                       *)
SendGoal ==
  /\ sends < MaxSends
  /\ seq' = seq + 1
  /\ handle' = NoGoal /\ result' = "none" /\ progress' = "none"
  /\ sends' = sends + 1
  /\ goals' = [goals EXCEPT ![sends + 1] =
                 [owner |-> inst, tag |-> seq + 1, status |-> "requested",
                  response |-> "none", outcome |-> "none"]]
  /\ raced' = Overtakes
  /\ UNCHANGED <<inst, cancels, reached>>

(* _send_as_action when the server does not show up within its bounded     *)
(* wait (or no action topic is configured): the reset has happened, a      *)
(* failed result is recorded, RuntimeError is raised to the caller.        *)
SendUnavailable ==
  /\ ServerLoss
  /\ seq' = seq + 1
  /\ handle' = NoGoal /\ result' = "failed" /\ progress' = "none"
  /\ raced' = Overtakes
  /\ UNCHANGED <<inst, sends, goals, cancels, reached>>

(* Mutant of the next operator: the handle is dropped without a cancel.    *)
CancelsForgotten == cancels

(* The handle's own cancel_goal(): a request leaves only when the handle   *)
(* is known.                                                               *)
CancelsAfterStop == cancels \cup ({handle} \ {NoGoal})

(* _cancel_action, called by stop_robot.                                   *)
CancelAction ==
  /\ seq' = seq + 1
  /\ handle' = NoGoal /\ result' = "failed"
  /\ cancels' = CancelsAfterStop
  /\ raced' = Overtakes
  /\ UNCHANGED <<inst, progress, sends, goals, reached>>

(* set_robot_strategy: stop_robot on the old object, then a new object     *)
(* with fresh tracking state takes its place.                              *)
ReplaceClient ==
  /\ inst < MaxClients
  /\ inst' = inst + 1
  /\ seq' = 0 /\ handle' = NoGoal /\ result' = "none" /\ progress' = "none"
  /\ cancels' = CancelsAfterStop
  /\ UNCHANGED <<sends, goals, raced, reached>>

(* Mutant: any result counts as completion.                                *)
ProgressionAnyResult == IF result # "none" THEN 1 ELSE 0

(* get_progression: 1 completed, -1 not completed, 0 under way.            *)
Progression ==
  CASE result = "succeeded" -> 1
    [] result = "failed"    -> -1
    [] OTHER                -> IF progress = "full" THEN 1 ELSE 0

-----------------------------------------------------------------------------
(* The action client's callbacks.                                          *)

(* _action_goal_response up to its tag test: a stale response is dropped.  *)
ResponseArrives(g) ==
  /\ goals[g].response = "pending"
  /\ goals' = [goals EXCEPT ![g].response =
                 IF Current(g) THEN "checked" ELSE "handled"]
  /\ UNCHANGED <<inst, seq, handle, result, progress, sends, cancels, raced,
                 reached>>

(* Mutant: the acceptance is recorded, the result never asked for.         *)
ResponseAppliedNoResult(g) ==
  /\ goals[g].response = "checked"
  /\ goals' = [goals EXCEPT ![g].response = "handled"]
  /\ handle' = IF goals[g].owner = inst THEN g ELSE handle
  /\ UNCHANGED <<inst, seq, result, progress, sends, cancels, raced,
                 reached>>

(* The rest of _action_goal_response: a rejection becomes the result, an   *)
(* acceptance becomes the handle and asks for the goal's result.           *)
ResponseApplied(g) ==
  /\ goals[g].response = "checked"
  /\ \/ /\ goals[g].status = "rejected"
        /\ goals' = [goals EXCEPT ![g].response = "handled"]
        /\ result' = IF goals[g].owner = inst THEN "failed" ELSE result
        /\ UNCHANGED handle
     \/ /\ goals[g].status # "rejected"
        /\ goals' = [goals EXCEPT ![g] = [@ EXCEPT !.response = "handled",
                                                  !.outcome = "awaited"]]
        /\ handle' = IF goals[g].owner = inst THEN g ELSE handle
        /\ UNCHANGED result
  /\ UNCHANGED <<inst, seq, progress, sends, cancels, raced, reached>>

(* Mutant: no tag test.                                                    *)
ResultArrivesUntested(g) ==
  /\ goals[g].outcome = "awaited"
  /\ goals[g].status \in Ended
  /\ goals' = [goals EXCEPT ![g].outcome = "checked"]
  /\ UNCHANGED <<inst, seq, handle, result, progress, sends, cancels, raced,
                 reached>>

(* _action_result_done up to its tag test.                                 *)
ResultArrives(g) ==
  /\ goals[g].outcome = "awaited"
  /\ goals[g].status \in Ended
  /\ goals' = [goals EXCEPT ![g].outcome =
                 IF Current(g) THEN "checked" ELSE "handled"]
  /\ UNCHANGED <<inst, seq, handle, result, progress, sends, cancels, raced,
                 reached>>

(* The rest of _action_result_done.                                        *)
ResultApplied(g) ==
  /\ goals[g].outcome = "checked"
  /\ goals' = [goals EXCEPT ![g].outcome = "handled"]
  /\ IF goals[g].owner # inst
     THEN UNCHANGED <<result, progress>>
     ELSE LET ok == goals[g].status = "succeeded"
          IN  /\ result' = IF ok THEN "succeeded" ELSE "failed"
              /\ progress' = IF ok THEN "full" ELSE "none"
  /\ UNCHANGED <<inst, seq, handle, sends, cancels, raced, reached>>

(* Mutant: no tag test.                                                    *)
FeedbackUntested(g, f) ==
  /\ goals[g].status \in {"executing"} \cup Ended
  /\ progress' = f
  /\ reached' = IF f = "full" THEN reached \cup {g} ELSE reached
  /\ UNCHANGED <<inst, seq, handle, result, sends, goals, cancels, raced>>

(* _action_feedback: the clamped fraction desired time / stamped duration. *)
(* "full" is what the clamp yields at and beyond the stamped end.  The     *)
(* message may outlast its goal.                                           *)
Feedback(g, f) ==
  /\ goals[g].status \in {"executing"} \cup Ended
  /\ Current(g)
  /\ progress' = f
  /\ reached' = IF f = "full" THEN reached \cup {g} ELSE reached
  /\ UNCHANGED <<inst, seq, handle, result, sends, goals, cancels, raced>>

-----------------------------------------------------------------------------
(* The controller (external): one goal executes at a time, a newly         *)
(* accepted one preempts it.                                               *)

Accept(g) ==
  /\ goals[g].status = "requested"
  /\ goals' = [h \in GoalIds |->
       IF h = g THEN [goals[h] EXCEPT !.status = "executing",
                                      !.response = "pending"]
       ELSE IF goals[h].status = "executing"
            THEN [goals[h] EXCEPT !.status = "canceled"]
            ELSE goals[h]]
  /\ UNCHANGED <<inst, seq, handle, result, progress, sends, cancels, raced,
                 reached>>

Reject(g) ==
  /\ Rejections
  /\ goals[g].status = "requested"
  /\ goals' = [goals EXCEPT ![g] = [@ EXCEPT !.status = "rejected",
                                            !.response = "pending"]]
  /\ UNCHANGED <<inst, seq, handle, result, progress, sends, cancels, raced,
                 reached>>

Finish(g, v) ==
  /\ goals[g].status = "executing"
  /\ goals' = [goals EXCEPT ![g].status = v]
  /\ UNCHANGED <<inst, seq, handle, result, progress, sends, cancels, raced,
                 reached>>

(* A cancel request reaches the controller; it has no effect on a goal     *)
(* that already ended.                                                     *)
HonourCancel(g) ==
  /\ g \in cancels
  /\ cancels' = cancels \ {g}
  /\ goals' = IF goals[g].status = "executing"
              THEN [goals EXCEPT ![g].status = "canceled"] ELSE goals
  /\ UNCHANGED <<inst, seq, handle, result, progress, sends, raced,
                 reached>>

-----------------------------------------------------------------------------
(* Every caller of the command path, in any order.                         *)
CommandPath ==
  /\ seq < MaxTags
  /\ SendGoal \/ SendUnavailable \/ CancelAction \/ ReplaceClient

Callbacks ==
  \E g \in GoalIds :
    \/ ResponseArrives(g)
    \/ ResponseApplied(g)
    \/ ResultArrives(g)
    \/ ResultApplied(g)
    \/ \E f \in Fractions : Feedback(g, f)

Controller ==
  \E g \in GoalIds :
    \/ Accept(g)
    \/ Reject(g)
    \/ \E v \in Verdicts : Finish(g, v)
    \/ HonourCancel(g)

ClientNext == CommandPath \/ Callbacks \/ Controller

ClientSpec == ClientInit /\ [][ClientNext]_clientVars

(* The executor serves every ready callback, the controller answers every  *)
(* request and ends every goal.  Nothing is assumed of the command path.   *)
ClientFairness ==
  \A g \in GoalIds :
    /\ WF_clientVars(ResponseArrives(g)) /\ WF_clientVars(ResponseApplied(g))
    /\ WF_clientVars(ResultArrives(g))   /\ WF_clientVars(ResultApplied(g))
    /\ WF_clientVars(Accept(g) \/ Reject(g))
    /\ WF_clientVars(\E v \in Verdicts : Finish(g, v))
    /\ WF_clientVars(HonourCancel(g))

-----------------------------------------------------------------------------
ClientTypeOK ==
  /\ inst \in Nat \ {0} /\ seq \in Nat /\ sends \in 0..MaxSends
  /\ handle \in GoalIds \cup {NoGoal}
  /\ result \in {"none", "succeeded", "failed"}
  /\ progress \in {"none", "partial", "full"}
  /\ goals \in [GoalIds -> GoalRecord]
  /\ cancels \subseteq GoalIds
  /\ raced \in BOOLEAN
  /\ reached \subseteq GoalIds

(* What the comment on _action_seq promises, outside the window between a  *)
(* callback's test and its write: a recorded success is the success of the *)
(* active send, a recorded failure is the failure of the active send or    *)
(* there is no active send (it was stopped or never left), and the handle  *)
(* a stop would cancel is the active send's.                               *)
TrackingIsCurrent ==
  ~raced =>
    /\ result = "succeeded" =>
         \E g \in GoalIds : Current(g) /\ goals[g].status = "succeeded"
    /\ result = "failed" =>
         \A g \in GoalIds : Current(g) =>
           goals[g].status \in {"rejected", "aborted", "canceled"}
    /\ handle # NoGoal =>
         Current(handle) /\ goals[handle].status \in {"executing"} \cup Ended

(* The command path last stopped the robot.                                *)
Stopped == result = "failed" /\ \A g \in GoalIds : ~Current(g)

(* No message between client and controller is under way.                  *)
Settled ==
  /\ cancels = {}
  /\ \A g \in GoalIds : /\ goals[g].status # "requested"
                        /\ goals[g].response \notin {"pending", "checked"}

(* A stop only ever misses a goal whose acceptance it dropped as stale, or *)
(* one whose successor took over the handle and was then rejected: any     *)
(* other goal the client had acknowledged does not survive the stop.       *)
StopMissesOnlyUnacknowledged ==
  ~raced /\ Stopped /\ Settled =>
    \A g \in GoalIds : goals[g].owner = inst /\ goals[g].status = "executing" =>
      \/ goals[g].outcome = "none"
      \/ \E h \in GoalIds : /\ h > g /\ goals[h].owner = inst
                            /\ goals[h].status = "rejected"

(* A send that stays the active one gets a verdict: the chain response,    *)
(* result request, result is never broken, whatever other goals are late.  *)
ActiveSendGetsVerdict ==
  \A g \in GoalIds : Current(g) ~> (result # "none" \/ ~Current(g))
=============================================================================
