------------------------- MODULE ActionClientProofs -------------------------
(***************************************************************************)
(* Proofs about the tracking of controller goals, for every value of the   *)
(* constants.  First ActionClient: its types, and that outside the window  *)
(* between a callback's tag test and its write the tracked result,         *)
(* progress and handle are the active send's.  Then CommandProducers, the  *)
(* threads that command the robot: for any number of producers, goals and  *)
(* trajectories the buffer epoch keeps producers apart.                    *)
(***************************************************************************)
EXTENDS CommandProducers, TLAPS

(* Tags never run ahead of seq, objects never ahead of inst, and a goal    *)
(* that was never sent belongs to nobody.                                  *)
TagsOK ==
  /\ \A g \in GoalIds :
       /\ goals[g].owner <= inst
       /\ goals[g].owner = inst => goals[g].tag <= seq
       /\ g > sends => goals[g].status = "unsent" /\ goals[g].owner = 0
  /\ \A g, h \in GoalIds :
       goals[g].owner = inst /\ goals[h].owner = inst
       /\ goals[g].tag = goals[h].tag => g = h

(* A goal's callbacks follow its life in the controller: no response       *)
(* before the controller decided, no result of a rejected or running goal. *)
MessagesOK ==
  \A g \in GoalIds :
    /\ goals[g].response # "none" => goals[g].status \notin {"unsent", "requested"}
    /\ goals[g].outcome # "none" => goals[g].status \in {"executing"} \cup Ended
    /\ goals[g].outcome \in {"checked", "handled"} => goals[g].status \in Ended
    /\ goals[g].response # "handled" => goals[g].outcome = "none"

(* Until a command overtakes it, an open callback is the active send's.    *)
WindowOK == ~raced => \A g \in GoalIds : CallbackOpen(g) => Current(g)

TrackingInv == TagsOK /\ MessagesOK /\ WindowOK /\ TrackingIsCurrent

-----------------------------------------------------------------------------
(* A step of the client, its callbacks or the controller, whoever bounds   *)
(* how often a command is given.                                           *)
ClientStep ==
  \/ SendGoal \/ SendUnavailable \/ CancelAction \/ ReplaceClient
  \/ Callbacks \/ Controller

LEMMA ClientTypesInit == ASSUME ClientInit PROVE ClientTypeOK
<1> USE ClientAssumption DEF ClientAssumption, NoGoal, Ended, GoalRecord
<1>1. Unsent \in GoalRecord
  BY DEF Unsent
<1>2. goals \in [GoalIds -> GoalRecord]
  <2> HIDE DEF GoalRecord
  <2> QED
    BY <1>1 DEF ClientInit
<1>3. sends \in 0..MaxSends
  BY DEF ClientInit
<1> HIDE DEF GoalRecord
<1>4. inst \in Nat \ {0} /\ seq \in Nat
  BY DEF ClientInit
<1> QED
  BY <1>2, <1>3, <1>4 DEF ClientInit, ClientTypeOK

LEMMA ClientTypesStep ==
  ASSUME ClientTypeOK, [ClientStep]_clientVars PROVE ClientTypeOK'
<1> USE ClientAssumption DEF ClientAssumption, NoGoal, Ended, GoalRecord
<1> USE DEF ClientTypeOK
<1>1. CASE SendGoal
  <2>1. sends + 1 \in GoalIds
    BY <1>1 DEF SendGoal, GoalIds
  <2> QED
    BY <1>1, <2>1 DEF SendGoal, Overtakes, GoalIds
<1>2. CASE SendUnavailable
  BY <1>2 DEF SendUnavailable, Overtakes
<1>3. CASE CancelAction
  BY <1>3 DEF CancelAction, CancelsAfterStop, Overtakes
<1>4. CASE ReplaceClient
  BY <1>4 DEF ReplaceClient, CancelsAfterStop
<1>5. ASSUME NEW g \in GoalIds, ResponseArrives(g)
      PROVE  ClientTypeOK'
  BY <1>5 DEF ResponseArrives
<1>6. ASSUME NEW g \in GoalIds, ResponseApplied(g)
      PROVE  ClientTypeOK'
  <2>1. CASE goals[g].status = "rejected"
    BY <1>6, <2>1 DEF ResponseApplied
  <2>2. CASE goals[g].status # "rejected"
    <3> DEFINE new == [goals[g] EXCEPT !.response = "handled",
                                       !.outcome = "awaited"]
    <3>1. goals' = [goals EXCEPT ![g] = new]
      BY <1>6, <2>2 DEF ResponseApplied
    <3>2. new \in GoalRecord
      OBVIOUS
    <3> HIDE DEF GoalRecord, new
    <3> QED
      BY <1>6, <2>2, <3>1, <3>2 DEF ResponseApplied
  <2> QED
    BY <2>1, <2>2
<1>7. ASSUME NEW g \in GoalIds, ResultArrives(g)
      PROVE  ClientTypeOK'
  BY <1>7 DEF ResultArrives
<1>8. ASSUME NEW g \in GoalIds, ResultApplied(g)
      PROVE  ClientTypeOK'
  BY <1>8 DEF ResultApplied
<1>9. ASSUME NEW g \in GoalIds, NEW f \in Fractions, Feedback(g, f)
      PROVE  ClientTypeOK'
  BY <1>9 DEF Feedback
<1>10. ASSUME NEW g \in GoalIds, Accept(g)
       PROVE  ClientTypeOK'
  <2>1. ASSUME NEW h \in GoalIds
        PROVE  goals'[h] \in GoalRecord
    BY <1>10 DEF Accept
  <2> HIDE DEF GoalRecord
  <2>2. goals' \in [GoalIds -> GoalRecord]
    BY <1>10, <2>1 DEF Accept
  <2> QED
    BY <1>10, <2>2 DEF Accept
<1>11. ASSUME NEW g \in GoalIds, Reject(g)
       PROVE  ClientTypeOK'
  <2> DEFINE new == [goals[g] EXCEPT !.status = "rejected",
                                     !.response = "pending"]
  <2>1. goals' = [goals EXCEPT ![g] = new]
    BY <1>11 DEF Reject
  <2>2. new \in GoalRecord
    OBVIOUS
  <2> HIDE DEF GoalRecord, new
  <2> QED
    BY <1>11, <2>1, <2>2 DEF Reject
<1>12. ASSUME NEW g \in GoalIds, NEW v \in Verdicts, Finish(g, v)
       PROVE  ClientTypeOK'
  BY <1>12 DEF Finish
<1>13. ASSUME NEW g \in GoalIds, HonourCancel(g)
       PROVE  ClientTypeOK'
  BY <1>13 DEF HonourCancel
<1>14. CASE UNCHANGED clientVars
  BY <1>14 DEF clientVars
<1> QED
  BY <1>1, <1>2, <1>3, <1>4, <1>5, <1>6, <1>7, <1>8, <1>9, <1>10, <1>11,
     <1>12, <1>13, <1>14 DEF ClientStep, Callbacks, Controller

(* Every step keeps the fields of the tracking state in their types.       *)
THEOREM ClientTypes == ClientSpec => []ClientTypeOK
<1>1. ClientInit => ClientTypeOK
  BY ClientTypesInit
<1>2. ClientTypeOK /\ [ClientNext]_clientVars => ClientTypeOK'
  BY ClientTypesStep DEF ClientNext, CommandPath, ClientStep
<1> QED
  BY <1>1, <1>2, PTL DEF ClientSpec

-----------------------------------------------------------------------------
(* What a typed state says of each goal, field by field.                   *)
LEMMA GoalFields ==
  ASSUME ClientTypeOK, NEW g \in GoalIds
  PROVE  /\ goals[g].owner \in Nat /\ goals[g].tag \in Nat
         /\ goals[g].status \in {"unsent", "requested", "executing",
                                 "rejected"} \cup Ended
         /\ goals[g].response \in {"none", "pending", "checked", "handled"}
         /\ goals[g].outcome \in {"none", "awaited", "checked", "handled"}
<1>1. goals[g] \in GoalRecord
  BY DEF ClientTypeOK
<1> QED
  BY <1>1 DEF GoalRecord

(* The commands: a tag or an object that no callback carries yet.          *)
LEMMA CommandKeepsTracking ==
  ASSUME ClientAssumption, ClientTypeOK, TrackingInv,
         SendGoal \/ SendUnavailable \/ CancelAction \/ ReplaceClient
  PROVE  TrackingInv'
<1> USE ClientAssumption DEF ClientAssumption, NoGoal
<1>1. /\ inst \in Nat \ {0} /\ seq \in Nat /\ sends \in Nat
      /\ raced \in BOOLEAN
      /\ \A g \in GoalIds : goals[g].owner \in Nat /\ goals[g].tag \in Nat
  BY GoalFields DEF ClientTypeOK
<1>2. CASE SendGoal
  <2> DEFINE s == sends + 1
  <2>1. /\ s \in GoalIds
        /\ goals[s].status = "unsent"
        /\ goals'[s] = [owner |-> inst, tag |-> seq + 1,
                        status |-> "requested", response |-> "none",
                        outcome |-> "none"]
        /\ \A h \in GoalIds : h # s => goals'[h] = goals[h]
    BY <1>1, <1>2 DEF SendGoal, GoalIds, ClientTypeOK, TrackingInv, TagsOK
  <2>2. /\ inst' = inst /\ seq' = seq + 1 /\ sends' = s
        /\ handle' = 0 /\ result' = "none" /\ raced' = Overtakes
    BY <1>2 DEF SendGoal
  <2>3. GoalIds \subseteq Nat
    BY DEF GoalIds
  <2> HIDE DEF s
  <2>4. TagsOK'
    <3>1. ASSUME NEW g \in GoalIds
          PROVE  /\ goals'[g].owner <= inst'
                 /\ goals'[g].owner = inst' => goals'[g].tag <= seq'
                 /\ g > sends' => goals'[g].status = "unsent"
                                  /\ goals'[g].owner = 0
      BY <1>1, <2>1, <2>2, <2>3 DEF TrackingInv, TagsOK, s
    <3>2. ASSUME NEW g \in GoalIds, NEW h \in GoalIds,
                 goals'[g].owner = inst', goals'[h].owner = inst',
                 goals'[g].tag = goals'[h].tag
          PROVE  g = h
      BY <1>1, <2>1, <2>2, <3>2 DEF TrackingInv, TagsOK
    <3> QED
      BY <3>1, <3>2 DEF TagsOK
  <2>5. MessagesOK'
    BY <2>1 DEF TrackingInv, MessagesOK
  <2>6. WindowOK'
    <3> SUFFICES ASSUME ~raced', NEW g \in GoalIds PROVE ~CallbackOpen(g)'
      BY DEF WindowOK
    <3>1. ~CallbackOpen(g)
      BY <2>2 DEF Overtakes
    <3>2. CASE g = s
      BY <2>1, <3>2 DEF CallbackOpen
    <3>3. CASE g # s
      BY <2>1, <2>2, <3>1, <3>3 DEF CallbackOpen
    <3> QED
      BY <3>2, <3>3
  <2>7. TrackingIsCurrent'
    BY <2>2 DEF TrackingIsCurrent
  <2> QED
    BY <2>4, <2>5, <2>6, <2>7 DEF TrackingInv
<1>3. CASE SendUnavailable \/ CancelAction
  <2>1. /\ inst' = inst /\ seq' = seq + 1 /\ sends' = sends
        /\ goals' = goals /\ handle' = 0 /\ raced' = Overtakes
    BY <1>3 DEF SendUnavailable, CancelAction
  <2>2. \A g \in GoalIds : ~Current(g)'
    BY <1>1, <2>1 DEF Current, TrackingInv, TagsOK
  <2>3. TagsOK'
    BY <1>1, <2>1 DEF TrackingInv, TagsOK
  <2>4. MessagesOK'
    BY <2>1 DEF TrackingInv, MessagesOK
  <2>5. WindowOK'
    BY <2>1 DEF WindowOK, CallbackOpen, Overtakes
  <2>6. TrackingIsCurrent'
    BY <1>3, <2>1, <2>2 DEF TrackingIsCurrent, SendUnavailable, CancelAction
  <2> QED
    BY <2>3, <2>4, <2>5, <2>6 DEF TrackingInv
<1>4. CASE ReplaceClient
  <2>1. /\ inst' = inst + 1 /\ goals' = goals /\ sends' = sends
        /\ handle' = 0 /\ result' = "none"
    BY <1>4 DEF ReplaceClient
  <2>2. \A g \in GoalIds : goals'[g].owner # inst'
    BY <1>1, <2>1 DEF TrackingInv, TagsOK
  <2>3. TagsOK'
    BY <1>1, <2>1, <2>2 DEF TrackingInv, TagsOK
  <2>4. MessagesOK'
    BY <2>1 DEF TrackingInv, MessagesOK
  <2>5. WindowOK' /\ TrackingIsCurrent'
    BY <2>1, <2>2 DEF WindowOK, CallbackOpen, TrackingIsCurrent
  <2> QED
    BY <2>3, <2>4, <2>5 DEF TrackingInv
<1> QED
  BY <1>2, <1>3, <1>4

-----------------------------------------------------------------------------
(* The callbacks: inside the window they write only what is the active     *)
(* send's.                                                                 *)
LEMMA CallbackKeepsTracking ==
  ASSUME ClientTypeOK, TrackingInv, NEW g \in GoalIds,
         \/ ResponseArrives(g) \/ ResponseApplied(g)
         \/ ResultArrives(g) \/ ResultApplied(g)
         \/ \E f \in Fractions : Feedback(g, f)
  PROVE  TrackingInv'
<1> USE DEF NoGoal
<1>1. /\ inst' = inst /\ seq' = seq /\ sends' = sends /\ raced' = raced
      /\ \A h \in GoalIds : h # g => goals'[h] = goals[h]
      /\ goals'[g].owner = goals[g].owner /\ goals'[g].tag = goals[g].tag
      /\ goals'[g].status = goals[g].status
  <2>1. CASE ResponseArrives(g)
    BY <2>1 DEF ClientTypeOK, GoalRecord, ResponseArrives
  <2>2. CASE ResponseApplied(g)
    BY <2>2 DEF ClientTypeOK, GoalRecord, ResponseApplied
  <2>3. CASE ResultArrives(g)
    BY <2>3 DEF ClientTypeOK, GoalRecord, ResultArrives
  <2>4. CASE ResultApplied(g)
    BY <2>4 DEF ClientTypeOK, GoalRecord, ResultApplied
  <2>5. CASE \E f \in Fractions : Feedback(g, f)
    BY <2>5 DEF Feedback
  <2> QED
    BY <2>1, <2>2, <2>3, <2>4, <2>5
<1>2. /\ \A h \in GoalIds : Current(h)' = Current(h)
      /\ \A h \in GoalIds : goals'[h].status = goals[h].status
      /\ \A h \in GoalIds : h # g => CallbackOpen(h)' = CallbackOpen(h)
  BY <1>1 DEF Current, CallbackOpen
<1>3. \A h \in GoalIds : Current(g) /\ Current(h) => h = g
  BY DEF Current, TrackingInv, TagsOK
<1>4. handle \in GoalIds \cup {0}
  BY DEF ClientTypeOK
<1>5. TagsOK'
  BY <1>1 DEF TrackingInv, TagsOK
<1>6. CASE ResponseArrives(g)
  <2>1. /\ goals[g].response = "pending"
        /\ goals'[g].response = IF Current(g) THEN "checked" ELSE "handled"
        /\ goals'[g].outcome = goals[g].outcome
        /\ result' = result /\ handle' = handle
    BY <1>6 DEF ResponseArrives, ClientTypeOK, GoalRecord
  <2>2. MessagesOK'
    BY <1>1, <2>1 DEF TrackingInv, MessagesOK
  <2>3. WindowOK'
    BY <1>1, <1>2, <2>1 DEF TrackingInv, WindowOK, CallbackOpen, MessagesOK
  <2>4. TrackingIsCurrent'
    BY <1>1, <1>2, <1>4, <2>1
         DEF TrackingInv, TrackingIsCurrent, Current
  <2> QED
    BY <1>5, <2>2, <2>3, <2>4 DEF TrackingInv
<1>7. CASE ResponseApplied(g)
  <2>1. /\ goals[g].response = "checked"
        /\ goals'[g].response = "handled"
        /\ goals[g].status = "rejected" =>
             /\ goals'[g].outcome = goals[g].outcome
             /\ handle' = handle
             /\ result' = IF goals[g].owner = inst THEN "failed" ELSE result
        /\ goals[g].status # "rejected" =>
             /\ goals'[g].outcome = "awaited"
             /\ result' = result
             /\ handle' = IF goals[g].owner = inst THEN g ELSE handle
    BY <1>7 DEF ResponseApplied, ClientTypeOK, GoalRecord
  <2>2. goals[g].status \notin {"unsent", "requested"}
    BY <2>1 DEF TrackingInv, MessagesOK
  <2>3. goals[g].status \in {"executing", "rejected"} \cup Ended
    BY <2>2, GoalFields
  <2>4. ~raced /\ goals[g].owner = inst => Current(g)
    BY <2>1 DEF TrackingInv, WindowOK, CallbackOpen
  <2>5. MessagesOK'
    BY <1>1, <2>1, <2>3 DEF TrackingInv, MessagesOK
  <2>6. WindowOK'
    BY <1>1, <1>2, <2>1, <2>4 DEF TrackingInv, WindowOK, CallbackOpen
  <2>7. TrackingIsCurrent'
    <3>1. CASE goals[g].status = "rejected"
      BY <1>1, <1>2, <1>3, <1>4, <2>1, <2>4, <3>1
         DEF TrackingInv, TrackingIsCurrent, Current
    <3>2. CASE goals[g].status # "rejected"
      BY <1>1, <1>2, <1>4, <2>1, <2>3, <2>4, <3>2
         DEF TrackingInv, TrackingIsCurrent, Current
    <3> QED
      BY <3>1, <3>2
  <2> QED
    BY <1>5, <2>5, <2>6, <2>7 DEF TrackingInv
<1>8. CASE ResultArrives(g)
  <2>1. /\ goals[g].outcome = "awaited" /\ goals[g].status \in Ended
        /\ goals'[g].outcome = IF Current(g) THEN "checked" ELSE "handled"
        /\ goals'[g].response = goals[g].response
        /\ result' = result /\ handle' = handle
    BY <1>8 DEF ResultArrives, ClientTypeOK, GoalRecord
  <2>2. MessagesOK'
    BY <1>1, <2>1 DEF TrackingInv, MessagesOK
  <2>3. WindowOK'
    BY <1>1, <1>2, <2>1 DEF TrackingInv, WindowOK, CallbackOpen, MessagesOK
  <2>4. TrackingIsCurrent'
    BY <1>1, <1>2, <1>4, <2>1
         DEF TrackingInv, TrackingIsCurrent, Current
  <2> QED
    BY <1>5, <2>2, <2>3, <2>4 DEF TrackingInv
<1>9. CASE ResultApplied(g)
  <2>1. /\ goals[g].outcome = "checked"
        /\ goals'[g].outcome = "handled"
        /\ goals'[g].response = goals[g].response
        /\ handle' = handle
        /\ result' = IF goals[g].owner # inst THEN result
                     ELSE IF goals[g].status = "succeeded"
                          THEN "succeeded" ELSE "failed"
    BY <1>9 DEF ResultApplied, ClientTypeOK, GoalRecord
  <2>2. goals[g].status \in Ended
    BY <2>1 DEF TrackingInv, MessagesOK
  <2>3. ~raced /\ goals[g].owner = inst => Current(g)
    BY <2>1 DEF TrackingInv, WindowOK, CallbackOpen
  <2>4. MessagesOK'
    BY <1>1, <2>1, <2>2 DEF TrackingInv, MessagesOK
  <2>5. WindowOK'
    BY <1>1, <1>2, <2>1, <2>3 DEF TrackingInv, WindowOK, CallbackOpen
  <2>6. TrackingIsCurrent'
    <3>1. CASE goals[g].owner # inst
      BY <1>1, <1>2, <1>4, <2>1, <3>1
         DEF TrackingInv, TrackingIsCurrent, Current
    <3>2. CASE goals[g].owner = inst
      BY <1>1, <1>2, <1>3, <1>4, <2>1, <2>2, <2>3, <3>2
         DEF TrackingInv, TrackingIsCurrent, Ended, Current
    <3> QED
      BY <3>1, <3>2
  <2> QED
    BY <1>5, <2>4, <2>5, <2>6 DEF TrackingInv
<1>10. CASE \E f \in Fractions : Feedback(g, f)
  <2>1. goals' = goals /\ result' = result /\ handle' = handle
    BY <1>10 DEF Feedback
  <2> QED
    BY <1>1, <2>1 DEF TrackingInv, TagsOK, MessagesOK, WindowOK, CallbackOpen,
                      Current, TrackingIsCurrent
<1> QED
  BY <1>6, <1>7, <1>8, <1>9, <1>10

-----------------------------------------------------------------------------
(* The controller: it moves a goal's status forward and reports it, and    *)
(* never touches the tracking state.                                       *)
LEMMA ControllerKeepsTracking ==
  ASSUME ClientAssumption, ClientTypeOK, TrackingInv, NEW g \in GoalIds,
         \/ Accept(g) \/ Reject(g)
         \/ \E v \in Verdicts : Finish(g, v)
         \/ HonourCancel(g)
  PROVE  TrackingInv'
<1> USE DEF NoGoal, Ended
<1>1. /\ inst' = inst /\ seq' = seq /\ sends' = sends /\ raced' = raced
      /\ handle' = handle /\ result' = result
      /\ handle \in GoalIds \cup {0}
  BY DEF Accept, Reject, Finish, HonourCancel, ClientTypeOK
<1>2. ASSUME NEW h \in GoalIds
      PROVE  /\ goals'[h].owner = goals[h].owner
             /\ goals'[h].tag = goals[h].tag
             /\ goals'[h].outcome = goals[h].outcome
             /\ \/ /\ goals'[h].status = goals[h].status
                   /\ goals'[h].response = goals[h].response
                \/ /\ goals[h].status = "requested"
                   /\ goals'[h].status \in {"executing", "rejected"}
                   /\ goals'[h].response = "pending"
                \/ /\ goals[h].status = "executing"
                   /\ goals'[h].status \in Ended
                   /\ goals'[h].response = goals[h].response
  <2> USE DEF ClientTypeOK, GoalRecord
  <2>1. CASE Accept(g)
    BY <2>1 DEF Accept
  <2>2. CASE Reject(g)
    BY <2>2 DEF Reject
  <2>3. CASE \E v \in Verdicts : Finish(g, v)
    BY <2>3, ClientAssumption DEF Finish, ClientAssumption
  <2>4. CASE HonourCancel(g)
    BY <2>4 DEF HonourCancel
  <2> QED
    BY <2>1, <2>2, <2>3, <2>4
<1>3. \A h \in GoalIds : Current(h)' = Current(h)
  BY <1>1, <1>2 DEF Current
<1>4. TagsOK'
  BY <1>1, <1>2 DEF TrackingInv, TagsOK
<1>5. MessagesOK'
  BY <1>2 DEF TrackingInv, MessagesOK
<1>6. WindowOK'
  BY <1>1, <1>2, <1>3 DEF TrackingInv, WindowOK, CallbackOpen
<1>7. TrackingIsCurrent'
  BY <1>1, <1>2, <1>3 DEF TrackingInv, TrackingIsCurrent, Current
<1> QED
  BY <1>4, <1>5, <1>6, <1>7 DEF TrackingInv

-----------------------------------------------------------------------------
LEMMA TrackingInit == ASSUME ClientInit PROVE TrackingInv
<1>1. \A g \in GoalIds : goals[g] = Unsent
  BY DEF ClientInit
<1>2. GoalIds \subseteq Nat
  BY DEF GoalIds
<1>3. MessagesOK /\ WindowOK
  BY <1>1 DEF MessagesOK, WindowOK, CallbackOpen, Unsent
<1>4. TagsOK
  BY <1>1, <1>2 DEF ClientInit, TagsOK, Unsent
<1>5. TrackingIsCurrent
  BY DEF ClientInit, TrackingIsCurrent
<1> QED
  BY <1>3, <1>4, <1>5 DEF TrackingInv

LEMMA TrackingStep ==
  ASSUME ClientTypeOK, TrackingInv, [ClientStep]_clientVars PROVE TrackingInv'
<1>1. CASE SendGoal \/ SendUnavailable \/ CancelAction \/ ReplaceClient
  BY <1>1, ClientAssumption, CommandKeepsTracking
<1>2. CASE Callbacks
  BY <1>2, CallbackKeepsTracking DEF Callbacks
<1>3. CASE Controller
  BY <1>3, ClientAssumption, ControllerKeepsTracking DEF Controller
<1>4. CASE UNCHANGED clientVars
  BY <1>4 DEF clientVars, TrackingInv, TagsOK, MessagesOK, WindowOK,
              CallbackOpen, Current, TrackingIsCurrent
<1> QED
  BY <1>1, <1>2, <1>3, <1>4 DEF ClientStep

(* For any number of goals, objects and tags: unless a command has         *)
(* overtaken an open callback, the recorded result and the handle a stop   *)
(* would cancel belong to the active send.                                 *)
THEOREM TrackingCurrent == ClientSpec => []TrackingIsCurrent
<1>1. ClientInit => TrackingInv
  BY TrackingInit
<1>2. ClientTypeOK /\ TrackingInv /\ [ClientNext]_clientVars => TrackingInv'
  BY TrackingStep DEF ClientNext, CommandPath, ClientStep
<1>3. TrackingInv => TrackingIsCurrent
  BY DEF TrackingInv
<1> QED
  BY <1>1, <1>2, <1>3, ClientTypes, PTL DEF ClientSpec

-----------------------------------------------------------------------------
(* Until a command overtakes a callback, an acknowledged goal that still   *)
(* executes is the one a stop would cancel, is being canceled, or has a    *)
(* successor that the controller has not accepted.                         *)
AcknowledgedOK ==
  ~raced =>
    \A g \in GoalIds :
      /\ goals[g].owner = inst /\ goals[g].status = "executing"
      /\ goals[g].outcome # "none"
      => \/ handle = g \/ g \in cancels
         \/ \E h \in GoalIds : /\ h > g /\ goals[h].owner = inst
                               /\ goals[h].status \in {"requested", "rejected"}

StopInv == ClientTypeOK /\ TrackingInv /\ AcknowledgedOK

LEMMA CommandKeepsAcknowledged ==
  ASSUME StopInv, SendGoal \/ CancelAction \/ ReplaceClient
  PROVE  AcknowledgedOK'
<1> USE ClientAssumption DEF ClientAssumption, NoGoal
<1>1. CASE SendGoal
  <2> DEFINE s == sends + 1
  <2>1. /\ s \in GoalIds /\ GoalIds \subseteq Nat /\ sends \in Nat
        /\ goals'[s].owner = inst /\ goals'[s].status = "requested"
        /\ goals'[s].outcome = "none"
        /\ \A h \in GoalIds : h # s => goals'[h] = goals[h]
        /\ \A h \in GoalIds : h > sends => goals[h].status = "unsent"
        /\ inst' = inst /\ cancels' = cancels
    BY <1>1 DEF SendGoal, GoalIds, StopInv, ClientTypeOK, TrackingInv, TagsOK
  <2>2. ~raced' => ~raced
    BY <1>1 DEF SendGoal, Overtakes
  <2>3. ASSUME NEW g \in GoalIds, goals'[g].status = "executing"
        PROVE  s > g /\ g # s
    <3>1. g # s
      BY <2>1, <2>3
    <3>2. goals[g].status = "executing"
      BY <2>1, <2>3, <3>1
    <3> QED
      BY <2>1, <3>1, <3>2
  <2> HIDE DEF s
  <2> QED
    BY <2>1, <2>3 DEF AcknowledgedOK
<1>2. CASE CancelAction
  BY <1>2 DEF CancelAction, CancelsAfterStop, Overtakes, StopInv,
              AcknowledgedOK, ClientTypeOK, GoalIds
<1>3. CASE ReplaceClient
  <2>1. \A g \in GoalIds : goals[g].owner # inst + 1
    BY GoalFields DEF StopInv, ClientTypeOK, TrackingInv, TagsOK
  <2> QED
    BY <1>3, <2>1 DEF ReplaceClient, AcknowledgedOK
<1> QED
  BY <1>1, <1>2, <1>3

LEMMA CallbackKeepsAcknowledged ==
  ASSUME StopInv, NEW g \in GoalIds,
         \/ ResponseArrives(g) \/ ResponseApplied(g)
         \/ ResultArrives(g) \/ ResultApplied(g)
         \/ \E f \in Fractions : Feedback(g, f)
  PROVE  AcknowledgedOK'
<1> USE DEF StopInv, ClientTypeOK, GoalRecord, NoGoal
<1>1. CASE ResponseApplied(g)
  <2>1. /\ inst' = inst /\ cancels' = cancels /\ raced' = raced
        /\ \A h \in GoalIds : h # g => goals'[h] = goals[h]
        /\ goals'[g].owner = goals[g].owner
        /\ goals'[g].status = goals[g].status
        /\ goals[g].status = "rejected" => handle' = handle
        /\ goals[g].status # "rejected" =>
             handle' = IF goals[g].owner = inst THEN g ELSE handle
    BY <1>1 DEF ResponseApplied
  <2>2. ~raced /\ goals[g].owner = inst => Current(g)
    BY <1>1 DEF TrackingInv, WindowOK, CallbackOpen, ResponseApplied
  <2>3. ~raced /\ handle # NoGoal => Current(handle)
    BY DEF TrackingInv, TrackingIsCurrent
  <2>4. ~raced /\ goals[g].owner = inst /\ handle # NoGoal => handle = g
    BY <2>2, <2>3 DEF Current, TrackingInv, TagsOK
  <2>5. \A h \in GoalIds : h # 0
    BY DEF GoalIds
  <2> QED
    BY <2>1, <2>4, <2>5 DEF AcknowledgedOK
<1>2. CASE ResponseArrives(g)
  BY <1>2 DEF ResponseArrives, AcknowledgedOK
<1>3. CASE ResultArrives(g)
  BY <1>3 DEF ResultArrives, AcknowledgedOK
<1>4. CASE ResultApplied(g)
  BY <1>4 DEF ResultApplied, AcknowledgedOK
<1>5. CASE \E f \in Fractions : Feedback(g, f)
  BY <1>5 DEF Feedback, AcknowledgedOK
<1> QED
  BY <1>1, <1>2, <1>3, <1>4, <1>5

LEMMA ControllerKeepsAcknowledged ==
  ASSUME StopInv, NEW g \in GoalIds,
         \/ Accept(g) \/ Reject(g)
         \/ \E v \in Verdicts : Finish(g, v)
         \/ HonourCancel(g)
  PROVE  AcknowledgedOK'
<1> USE ClientAssumption
    DEF ClientAssumption, StopInv, ClientTypeOK, GoalRecord, Ended
<1>1. CASE Accept(g)
  <2>1. goals[g].outcome = "none"
    BY <1>1 DEF Accept, TrackingInv, MessagesOK
  <2>2. \A h \in GoalIds : h # g => goals'[h].status # "executing"
    BY <1>1 DEF Accept
  <2>3. goals'[g].outcome = "none"
    BY <1>1, <2>1 DEF Accept
  <2> QED
    BY <2>2, <2>3 DEF AcknowledgedOK
<1>2. CASE Reject(g)
  BY <1>2 DEF Reject, AcknowledgedOK
<1>3. CASE \E v \in Verdicts : Finish(g, v)
  BY <1>3 DEF Finish, AcknowledgedOK
<1>4. CASE HonourCancel(g)
  BY <1>4 DEF HonourCancel, AcknowledgedOK
<1> QED
  BY <1>1, <1>2, <1>3, <1>4

LEMMA StopStep ==
  ASSUME ~ServerLoss, StopInv, [ClientStep]_clientVars PROVE StopInv'
<1>1. ClientTypeOK' /\ TrackingInv'
  BY ClientTypesStep, TrackingStep DEF StopInv
<1>2. AcknowledgedOK'
  <2>1. CASE SendGoal \/ SendUnavailable \/ CancelAction \/ ReplaceClient
    BY <2>1, CommandKeepsAcknowledged DEF SendUnavailable
  <2>2. CASE Callbacks
    BY <2>2, CallbackKeepsAcknowledged DEF Callbacks
  <2>3. CASE Controller
    BY <2>3, ControllerKeepsAcknowledged DEF Controller
  <2>4. CASE UNCHANGED clientVars
    BY <2>4 DEF clientVars, StopInv, AcknowledgedOK
  <2> QED
    BY <2>1, <2>2, <2>3, <2>4 DEF ClientStep
<1> QED
  BY <1>1, <1>2 DEF StopInv

LEMMA StopInit == ASSUME ClientInit PROVE StopInv
<1>1. AcknowledgedOK
  BY DEF ClientInit, Unsent, AcknowledgedOK
<1> QED
  BY <1>1, ClientTypesInit, TrackingInit DEF StopInv

LEMMA StopMisses == ASSUME StopInv PROVE StopMissesOnlyUnacknowledged
<1> SUFFICES ASSUME ~raced, Stopped, Settled, NEW g \in GoalIds,
                    goals[g].owner = inst, goals[g].status = "executing",
                    goals[g].outcome # "none"
             PROVE  \E h \in GoalIds : /\ h > g /\ goals[h].owner = inst
                                       /\ goals[h].status = "rejected"
  BY DEF StopMissesOnlyUnacknowledged
<1>1. handle # g
  BY DEF StopInv, ClientTypeOK, TrackingInv, TrackingIsCurrent, Stopped,
         NoGoal, GoalIds
<1>2. g \notin cancels
  BY DEF Settled
<1> QED
  BY <1>1, <1>2 DEF StopInv, AcknowledgedOK, Settled

(* For any number of goals, objects and tags, as long as the controller's  *)
(* action server can be reached: a stop misses only a goal that was not    *)
(* acknowledged, or whose successor was rejected.                          *)
THEOREM StopMissesUnacknowledged ==
  ASSUME ~ServerLoss PROVE ClientSpec => []StopMissesOnlyUnacknowledged
<1>1. ClientInit => StopInv
  BY StopInit
<1>2. StopInv /\ [ClientNext]_clientVars => StopInv'
  BY StopStep DEF ClientNext, CommandPath, ClientStep
<1>3. StopInv => StopMissesOnlyUnacknowledged
  BY StopMisses
<1> QED
  BY <1>1, <1>2, <1>3, PTL DEF ClientSpec

-----------------------------------------------------------------------------
(* No claim is ahead of the buffers, the newest claim is what was loaded   *)
(* last, and a claim without an epoch is no claim.                         *)
ClaimsOK ==
  \A p \in Producers :
    /\ claim[p].epoch <= epoch
    /\ claim[p].epoch = epoch => buffer \in {claim[p].traj, Nothing}

ClaimTypes ==
  /\ inst \in Nat \ {0} /\ sends \in Nat /\ epoch \in Nat
  /\ buffer \in Commands
  /\ sent \in [GoalIds -> [traj : Commands, intended : Commands]]
  /\ claim \in [Producers -> [traj : Commands, epoch : Nat]
                             \cup {NoClaim}]

ClaimInv ==
  /\ ClaimTypes
  /\ inst = 1 => ClaimsOK
  /\ NeverAnothersTrajectory

-----------------------------------------------------------------------------
LEMMA ClaimInvInit == ASSUME ProducerInit PROVE ClaimInv
BY DEF ProducerInit, ContextInit, ClientInit, ClaimInv, ClaimTypes, ClaimsOK,
       NeverAnothersTrajectory, Commands, NoClaim, NoEpoch

LEMMA LoadKeepsClaims ==
  ASSUME ClaimInv, NEW p \in Producers, NEW t \in Trajectories, Load(p, t)
  PROVE  ClaimInv'
<1> USE DEF ClaimInv, ClaimTypes, Commands
<1>1. /\ inst' = inst /\ sends' = sends /\ sent' = sent
      /\ epoch' = epoch + 1 /\ buffer' = t
      /\ claim' = [claim EXCEPT ![p] = [traj |-> t, epoch |-> epoch + 1]]
  BY DEF Load, SetCommand, clientVars
<1>2. ClaimTypes'
  BY <1>1
<1>3. inst' = 1 => ClaimsOK'
  BY <1>1 DEF ClaimsOK, NoClaim, NoEpoch
<1>4. NeverAnothersTrajectory'
  BY <1>1 DEF NeverAnothersTrajectory
<1> QED
  BY <1>2, <1>3, <1>4

(* A send leaves the buffers empty, and what left was the buffers' content.*)
LEMMA SendKeepsClaims ==
  ASSUME ClaimInv, NEW p \in Producers, SendClaimed(p)
  PROVE  ClaimInv'
<1> USE DEF ClaimInv, ClaimTypes
<1> DEFINE c == claim[p]
<1>1. /\ inst' = inst /\ epoch' = epoch
      /\ claim' = [claim EXCEPT ![p] = NoClaim]
      /\ buffer' \in {buffer, Nothing}
      /\ c.epoch \in Nat /\ c.traj \in Commands
  BY DEF SendClaimed, SendTrajectory, SendTrajectoryRaises, SendBuffer,
         SendLost, SendGoal, SendUnavailable, contextVars, clientVars,
         NoClaim
<1>2. \/ sends' = sends /\ sent' = sent
      \/ /\ c.epoch = epoch /\ sends' = sends + 1
         /\ sent' = [sent EXCEPT ![sends + 1] =
                       [traj |-> buffer, intended |-> c.traj]]
  <2>1. CASE SendTrajectory(c.epoch, c.traj)
    BY <1>1, <2>1 DEF SendTrajectory, EpochMatches, NoEpoch, SendBuffer,
                      SendGoal
  <2>2. CASE SendTrajectoryRaises(c.epoch)
    BY <2>2 DEF SendTrajectoryRaises, SendLost, SendUnavailable
  <2>3. CASE UNCHANGED contextVars
    BY <2>3 DEF contextVars, clientVars
  <2> QED
    BY <2>1, <2>2, <2>3 DEF SendClaimed
<1>3. ClaimTypes'
  BY <1>1, <1>2 DEF Commands
<1>4. inst' = 1 => ClaimsOK'
  BY <1>1 DEF ClaimsOK, NoClaim, NoEpoch
<1>5. NeverAnothersTrajectory'
  BY <1>1, <1>2 DEF NeverAnothersTrajectory, ClaimsOK
<1> QED
  BY <1>3, <1>4, <1>5

LEMMA OtherKeepsClaims ==
  ASSUME ClaimInv, OtherCommand PROVE ClaimInv'
<1> USE DEF ClaimInv, ClaimTypes, Commands
<1>1. claim' = claim
  BY DEF OtherCommand
<1>2. ASSUME NEW t \in Trajectories, SetAndSendCommand(t) PROVE ClaimInv'
  <2>1. /\ inst' = inst /\ epoch' = epoch + 1 /\ buffer' = Nothing
        /\ \/ sends' = sends /\ sent' = sent
           \/ /\ sends' = sends + 1
              /\ sent' = [sent EXCEPT ![sends + 1] =
                            [traj |-> t, intended |-> t]]
    BY <1>2 DEF SetAndSendCommand, SendBuffer, SendLost, SendGoal,
                SendUnavailable
  <2>2. ClaimTypes'
    BY <1>1, <2>1
  <2>3. inst' = 1 => ClaimsOK'
    <3>1. \A p \in Producers : claim[p].epoch \in Nat \cup {NoEpoch}
      BY DEF NoClaim
    <3> QED
      BY <1>1, <2>1, <3>1 DEF ClaimsOK, NoEpoch
  <2>4. NeverAnothersTrajectory'
    BY <2>1 DEF NeverAnothersTrajectory
  <2> QED
    BY <2>2, <2>3, <2>4
<1>3. CASE StopRobot
  <2>1. /\ inst' = inst /\ epoch' = epoch /\ buffer' = Nothing
        /\ sends' = sends /\ sent' = sent
    BY <1>3 DEF StopRobot, CancelAction
  <2> QED
    BY <1>1, <2>1 DEF ClaimsOK, NeverAnothersTrajectory
<1>4. ASSUME NEW name \in Strategies, SetRobotStrategy(name) PROVE ClaimInv'
  <2>1. /\ inst' = inst + 1 /\ epoch' = 0 /\ buffer' = Nothing
        /\ sends' = sends /\ sent' = sent
    BY <1>4 DEF SetRobotStrategy, ReplaceClient
  <2> QED
    BY <1>1, <2>1 DEF NeverAnothersTrajectory
<1> QED
  BY <1>2, <1>3, <1>4 DEF OtherCommand

LEMMA ClaimInvStep ==
  ASSUME ClaimInv, [ProducerNext]_producerVars PROVE ClaimInv'
<1>1. CASE ActionStep
  <2>1. inst' = inst /\ sends' = sends
    BY <1>1 DEF ActionStep, Callbacks, Controller, ResponseArrives,
                ResponseApplied, ResultArrives, ResultApplied, Feedback,
                Accept, Reject, Finish, HonourCancel
  <2> QED
    BY <1>1, <2>1 DEF ActionStep, ClaimInv, ClaimTypes, ClaimsOK,
                      NeverAnothersTrajectory
<1>2. CASE UNCHANGED producerVars
  BY <1>2 DEF producerVars, contextVars, clientVars, ClaimInv, ClaimTypes,
              ClaimsOK, NeverAnothersTrajectory
<1> QED
  BY <1>1, <1>2, LoadKeepsClaims, SendKeepsClaims, OtherKeepsClaims
     DEF ProducerNext

-----------------------------------------------------------------------------
(* While the strategy object stays, a producer that sends under the epoch  *)
(* of its set_command never sends another producer's trajectory.           *)
THEOREM NeverAnothers == ProducerSpec => []NeverAnothersTrajectory
<1>1. ProducerInit => ClaimInv
  BY ClaimInvInit
<1>2. ClaimInv /\ [ProducerNext]_producerVars => ClaimInv'
  BY ClaimInvStep
<1>3. ClaimInv => NeverAnothersTrajectory
  BY DEF ClaimInv
<1> QED
  BY <1>1, <1>2, <1>3, PTL DEF ProducerSpec

(* And before it sends: a matching epoch means that the buffers hold its   *)
(* own trajectory, or were emptied.                                        *)
THEOREM MatchingEpoch == ProducerSpec => []MatchingEpochIsMine
<1>1. ProducerInit => ClaimInv
  BY ClaimInvInit
<1>2. ClaimInv /\ [ProducerNext]_producerVars => ClaimInv'
  BY ClaimInvStep
<1>3. ClaimInv => MatchingEpochIsMine
  BY DEF ClaimInv, ClaimsOK, MatchingEpochIsMine
<1> QED
  BY <1>1, <1>2, <1>3, PTL DEF ProducerSpec
-----------------------------------------------------------------------------
(* Whatever the threads do, the strategy object behind the context behaves *)
(* as ActionClient says: a step of the composition is one of its steps, or *)
(* leaves it alone.                                                        *)
LEMMA ProducerStepDrives ==
  ASSUME [ProducerNext]_producerVars PROVE [ClientNext]_clientVars
<1>1. CASE \E p \in Producers : SendClaimed(p)
  BY <1>1 DEF SendClaimed, SendTrajectory, SendTrajectoryRaises, SendBuffer,
              SendLost, contextVars, ClientNext, CommandPath
<1>2. CASE \E p \in Producers : \E t \in Trajectories : Load(p, t)
  BY <1>2 DEF Load, SetCommand
<1>3. CASE OtherCommand
  BY <1>3 DEF OtherCommand, SetAndSendCommand, SendBuffer, SendLost, StopRobot,
              SetRobotStrategy, ClientNext, CommandPath
<1>4. CASE ActionStep
  BY <1>4 DEF ActionStep, ClientNext
<1>5. CASE UNCHANGED producerVars
  BY <1>5 DEF producerVars, contextVars
<1> QED
  BY <1>1, <1>2, <1>3, <1>4, <1>5 DEF ProducerNext

THEOREM ProducersDriveClient == ProducerSpec => ClientSpec
<1>1. ProducerInit => ClientInit
  BY DEF ProducerInit, ContextInit
<1>2. [ProducerNext]_producerVars => [ClientNext]_clientVars
  BY ProducerStepDrives
<1> QED
  BY <1>1, <1>2, PTL DEF ProducerSpec, ClientSpec

(* So the tracked result and handle are the active send's under any number *)
(* of producers, one-shot senders, stops and strategy switches.            *)
THEOREM ProducersTrackCurrent == ProducerSpec => []TrackingIsCurrent
BY ProducersDriveClient, TrackingCurrent, PTL

(* And as long as the action server can be reached, a stop by any of them  *)
(* misses only what was not acknowledged, or has a rejected successor.     *)
THEOREM ProducersStopMisses ==
  ASSUME ~ServerLoss PROVE ProducerSpec => []StopMissesOnlyUnacknowledged
BY ProducersDriveClient, StopMissesUnacknowledged, PTL

(* The composition stays well typed.                                       *)
LEMMA StrategyStep ==
  ASSUME strategy \in Strategies, [ProducerNext]_producerVars
  PROVE  strategy' \in Strategies
BY DEF ProducerNext, SendClaimed, SendTrajectory, SendTrajectoryRaises,
       Load, SetCommand, OtherCommand, SetAndSendCommand, StopRobot,
       SetRobotStrategy, ActionStep, producerVars, contextVars

THEOREM ProducerTyped == ProducerSpec => []ProducerTypeOK
<1> DEFINE I == ClaimInv /\ strategy \in Strategies
<1>1. ProducerInit => I
  BY ClaimInvInit, ContextAssumption
     DEF ProducerInit, ContextInit, ContextAssumption
<1>2. I /\ [ProducerNext]_producerVars => I'
  BY ClaimInvStep, StrategyStep
<1>3. I /\ ClientTypeOK => ProducerTypeOK
  BY DEF ClaimInv, ClaimTypes, ProducerTypeOK, ContextTypeOK, NoClaim, NoEpoch,
         Commands
<1> HIDE DEF I
<1>4. ProducerSpec => []I
  BY <1>1, <1>2, PTL DEF ProducerSpec
<1> QED
  BY <1>3, <1>4, ProducersDriveClient, ClientTypes, PTL
=============================================================================
