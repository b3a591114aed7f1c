----------------------- MODULE EmulatorPlaybackProofs -----------------------
(***************************************************************************)
(* Proofs about EmulatorPlayback, for any bounds: a superseded thread      *)
(* moves nothing, and a completed progression means the end of the         *)
(* command.                                                                *)
(***************************************************************************)
EXTENDS EmulatorPlayback, TLAPS

(* No thread and no pose is ahead of the epoch.  Once the robot is stopped *)
(* any thread left is of an older epoch, which is what the epoch is bumped *)
(* for.                                                                    *)
EpochsOK ==
  /\ pose[1] <= epoch /\ sent <= epoch
  /\ Alive => thread.cmd <= epoch
  /\ state = "stopped" => ~Alive \/ thread.cmd < epoch

(* A thread of the current epoch plays what is in the buffer.  Until it is *)
(* told to stop, the robot is at the point it wrote last, and it leaves    *)
(* its loop only behind the last one.                                      *)
PlaybackOK ==
  Alive /\ thread.cmd = epoch =>
    /\ thread.total = length /\ thread.index <= length /\ length > 1
    /\ thread.step = "write" => thread.index < length
    /\ ~stop /\ thread.index > 0 => pose = <<epoch, thread.index>>
    /\ ~stop /\ thread.step = "finish" => thread.index = length

CommandOK == command = "apply" => length > 0 /\ stop

PlaybackInv ==
  TypeOK /\ EpochsOK /\ PlaybackOK /\ CommandOK /\ CompletionIsReached

USE EmulatorAssumption

LEMMA InitPlays == Init => PlaybackInv
<1> SUFFICES ASSUME Init PROVE PlaybackInv
  OBVIOUS
<1>1. TypeOK
  <2>1. pose \in Nat \X Nat /\ thread \in [step : ThreadSteps, cmd : Nat,
                                         index : Nat, total : Nat]
    BY DEF Init, NoThread, ThreadSteps
  <2>2. stop \in BOOLEAN /\ held \in BOOLEAN /\ resent \in BOOLEAN
    BY DEF Init
  <2> QED
    BY <2>1, <2>2 DEF Init, TypeOK
<1>2. EpochsOK /\ PlaybackOK /\ CommandOK /\ CompletionIsReached
  BY DEF Init, EpochsOK, PlaybackOK, CommandOK, CompletionIsReached, Alive,
         NoThread
<1> QED
  BY <1>1, <1>2 DEF PlaybackInv

(* What a send does, whatever buffer it finds.                             *)
LEMMA SendPlays ==
  ASSUME PlaybackInv, command = "none", NEW e \in Nat, NEW n \in Nat,
         NEW hold \in BOOLEAN, SendLoaded(e, n, hold),
         epoch' = e, length' = n,
         \/ e = epoch /\ n = length
         \/ e = epoch + 1 /\ n > 0
  PROVE  PlaybackInv'
<1> USE DEF PlaybackInv, TypeOK, EpochsOK, PlaybackOK, CommandOK,
            CompletionIsReached, Alive, ThreadSteps
<1>1. CASE /\ n = 0 /\ progress' = "full"
           /\ UNCHANGED <<pose, state, stop, thread, command, held, sent, resent>>
  BY <1>1
<1>2. CASE StartPlayback(e, n)
  <2>1. TypeOK'
    BY <1>2 DEF StartPlayback
  <2>2. EpochsOK' /\ PlaybackOK' /\ CommandOK' /\ CompletionIsReached'
    BY <1>2 DEF StartPlayback
  <2> QED
    BY <2>1, <2>2
<1>3. CASE n > 0 /\ StartImmediate(n, hold)
  BY <1>3 DEF StartImmediate
<1> QED
  BY <1>1, <1>2, <1>3 DEF SendLoaded

LEMMA CommandPlays ==
  ASSUME PlaybackInv,
         \/ \E n \in 1..MaxPoints : Load(n) \/ SetAndSend(n)
         \/ Send \/ Apply \/ BeginStop \/ Halt
  PROVE  PlaybackInv'
<1>1. ASSUME NEW n \in 1..MaxPoints, Load(n) PROVE PlaybackInv'
  BY <1>1 DEF Load, PlaybackInv, TypeOK, EpochsOK, PlaybackOK, CommandOK,
              CompletionIsReached, Alive, ThreadSteps
<1>2. ASSUME NEW n \in 1..MaxPoints, SetAndSend(n) PROVE PlaybackInv'
  <2>1. epoch + 1 \in Nat /\ n \in Nat /\ n > 0
    BY DEF PlaybackInv, TypeOK
  <2> QED
    BY <1>2, <2>1, SendPlays DEF SetAndSend
<1>3. CASE Send
  BY <1>3, SendPlays DEF Send, PlaybackInv, TypeOK
<1>4. CASE Apply
  <2>1. TypeOK'
    BY <1>4 DEF Apply, PlaybackInv, TypeOK
  <2>2. EpochsOK' /\ PlaybackOK' /\ CommandOK' /\ CompletionIsReached'
    BY <1>4 DEF Apply, PlaybackInv, TypeOK, EpochsOK, PlaybackOK, CommandOK,
                CompletionIsReached, Alive
  <2> QED
    BY <2>1, <2>2 DEF PlaybackInv
<1>5. CASE BeginStop
  BY <1>5 DEF BeginStop, PlaybackInv, TypeOK, EpochsOK, PlaybackOK, CommandOK,
              CompletionIsReached, Alive, ThreadSteps
<1>6. CASE Halt
  BY <1>6 DEF Halt, PlaybackInv, TypeOK, EpochsOK, PlaybackOK, CommandOK,
              CompletionIsReached, Alive, ThreadSteps
<1> QED
  BY <1>1, <1>2, <1>3, <1>4, <1>5, <1>6

LEMMA ThreadPlays == ASSUME PlaybackInv, Playback PROVE PlaybackInv'
<1> USE DEF PlaybackInv, TypeOK, EpochsOK, PlaybackOK, CommandOK,
            CompletionIsReached, Alive, ThreadSteps, Steps
<1>1. CASE TestStop       BY <1>1 DEF TestStop
<1>2. CASE WritePoint
  <2>1. CASE thread.cmd # epoch
    BY <1>2, <2>1 DEF WritePoint
  <2>2. CASE thread.cmd = epoch
    <3>1. /\ thread.step = "write" /\ thread.index < length
          /\ thread.total = length
      BY <1>2, <2>2 DEF WritePoint
    <3>2. /\ thread' = [step  |-> "publish", cmd |-> epoch,
                       index |-> thread.index + 1, total |-> length]
          /\ pose' = <<epoch, thread.index + 1>>
          /\ progress' = IF thread.index + 1 = length THEN "full" ELSE "partial"
      BY <1>2, <2>2, <3>1 DEF WritePoint
    <3>3. /\ UNCHANGED <<epoch, length, state, stop, command, held, sent, resent>>
          /\ thread.index + 1 \in Nat
      BY <1>2 DEF WritePoint
    <3>4. TypeOK'
      BY <3>2, <3>3
    <3>5. EpochsOK' /\ PlaybackOK' /\ CommandOK' /\ CompletionIsReached'
      BY <2>2, <3>1, <3>2, <3>3
    <3> QED
      BY <3>4, <3>5
  <2> QED
    BY <2>1, <2>2
<1>3. CASE PublishPoint   BY <1>3 DEF PublishPoint
<1>4. CASE FinishPlayback BY <1>4 DEF FinishPlayback
<1>5. CASE FailPlayback   BY <1>5 DEF FailPlayback
<1> QED
  BY <1>1, <1>2, <1>3, <1>4, <1>5 DEF Playback

LEMMA StepPlays == PlaybackInv /\ [Next]_vars => PlaybackInv'
<1> SUFFICES ASSUME PlaybackInv, [Next]_vars PROVE PlaybackInv'
  OBVIOUS
<1>1. CASE UNCHANGED vars
  BY <1>1 DEF vars, PlaybackInv, TypeOK, EpochsOK, PlaybackOK, CommandOK,
              CompletionIsReached, Alive
<1> QED
  BY <1>1, CommandPlays, ThreadPlays DEF Next

LEMMA AlwaysPlays == Spec => []PlaybackInv
BY InitPlays, StepPlays, PTL DEF Spec

-----------------------------------------------------------------------------
(* The type invariant of the simulated robot.                              *)
THEOREM EmulatorTyped == Spec => []TypeOK
BY AlwaysPlays, PTL DEF PlaybackInv

(* A progression of 1.0 for the command that was sent means that the robot *)
(* is at its last point.                                                   *)
THEOREM CompletionReached == Spec => []CompletionIsReached
BY AlwaysPlays, PTL DEF PlaybackInv

(* The robot never goes back to an older command, and rests once stopped.  *)
THEOREM RobotFollows == Spec => RobotFollowsCommands
<1>1. PlaybackInv /\ [Next]_vars =>
        [/\ pose'[1] >= pose[1]
         /\ state = "stopped" /\ state' = "stopped" => pose' = pose]_vars
  <2> SUFFICES ASSUME PlaybackInv, Next
               PROVE  /\ pose'[1] >= pose[1]
                      /\ state = "stopped" /\ state' = "stopped" => pose' = pose
    OBVIOUS
  <2> USE DEF PlaybackInv, TypeOK, EpochsOK, Alive
  <2>1. CASE Apply
    BY <2>1 DEF Apply
  <2>2. CASE WritePoint
    BY <2>2 DEF WritePoint
  <2>3. CASE \/ \E n \in 1..MaxPoints : Load(n) \/ SetAndSend(n)
             \/ Send \/ BeginStop \/ Halt
             \/ TestStop \/ PublishPoint \/ FinishPlayback \/ FailPlayback
    <3>1. pose' = pose
      BY <2>3 DEF Load, SetAndSend, Send, SendLoaded, StartPlayback,
                  StartImmediate, BeginStop, Halt, TestStop, PublishPoint,
                  FinishPlayback, FailPlayback
    <3> QED
      BY <3>1
  <2> QED
    BY <2>1, <2>2, <2>3 DEF Next, Playback
<1> QED
  BY <1>1, AlwaysPlays, PTL DEF Spec, RobotFollowsCommands
=============================================================================
