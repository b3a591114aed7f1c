-------------------------- MODULE CommandProducers --------------------------
(***************************************************************************)
(* RobotContext closed with the threads that command the robot: producers  *)
(* that plan and execute in separate calls (they load the buffers, keep    *)
(* the epoch, send later under it), one-shot senders, stops and strategy   *)
(* switches, in every order.                                               *)
(***************************************************************************)
EXTENDS RobotContext

CONSTANTS
  Producers,  \* threads that set_command and later send
  MaxEpoch    \* bound on epoch

ASSUME ProducersAssumption == MaxEpoch \in Nat

VARIABLE claim  \* per producer: the trajectory and epoch of its set_command

producerVars == <<contextVars, claim>>

NoClaim == [traj |-> Nothing, epoch |-> NoEpoch]

-----------------------------------------------------------------------------
(* Producers as plan() and execute() use the context: load, then send      *)
(* under the epoch of the load.                                            *)
Load(p, t) ==
  /\ epoch < MaxEpoch
  /\ SetCommand(t)
  /\ claim' = [claim EXCEPT ![p] = [traj |-> t, epoch |-> epoch']]

SendClaimed(p) ==
  /\ claim[p] # NoClaim
  /\ seq < MaxTags
  /\ \/ SendTrajectory(claim[p].epoch, claim[p].traj)
     \/ SendTrajectoryRaises(claim[p].epoch)
     \/ ~EpochMatches(claim[p].epoch) /\ UNCHANGED contextVars
  /\ claim' = [claim EXCEPT ![p] = NoClaim]

OtherCommand ==
  /\ seq < MaxTags /\ epoch < MaxEpoch
  /\ \/ \E t \in Trajectories : SetAndSendCommand(t)
     \/ StopRobot
     \/ \E name \in Strategies : SetRobotStrategy(name)
  /\ UNCHANGED claim

ActionStep ==
  /\ Callbacks \/ Controller
  /\ UNCHANGED <<strategy, buffer, epoch, sent, claim>>

ProducerInit == ContextInit /\ claim = [p \in Producers |-> NoClaim]

ProducerNext ==
  \/ \E p \in Producers : SendClaimed(p) \/ \E t \in Trajectories : Load(p, t)
  \/ OtherCommand
  \/ ActionStep

ProducerSpec == ProducerInit /\ [][ProducerNext]_producerVars

(* Nothing is assumed of the threads that command: only callbacks and the  *)
(* controller are fair.                                                    *)
FairProducerSpec == ProducerSpec /\ ClientFairness

-----------------------------------------------------------------------------
ProducerTypeOK ==
  /\ ContextTypeOK
  /\ claim \in [Producers -> [traj : Commands, epoch : Nat \cup {NoEpoch}]]

(* The guard of send_trajectrory: while the strategy object stays, the     *)
(* robot is never handed another producer's trajectory; the buffers it is  *)
(* handed are the sender's own, or were emptied meanwhile.                 *)
NeverAnothersTrajectory ==
  inst = 1 => \A g \in GoalIds : sent[g].traj \in {sent[g].intended, Nothing}

(* What the epoch means to a producer waiting to send: while it still      *)
(* matches, nobody else's trajectory is in the buffers.                    *)
MatchingEpochIsMine ==
  inst = 1 =>
    \A p \in Producers : claim[p] # NoClaim /\ claim[p].epoch = epoch =>
                         buffer \in {claim[p].traj, Nothing}
=============================================================================
