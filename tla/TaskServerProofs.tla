-------------------------- MODULE TaskServerProofs --------------------------
(***************************************************************************)
(* Proofs about TaskServer, for any set of tasks, any chains of segments   *)
(* and any number of late requests.                                        *)
(*                                                                         *)
(* Core is what every argument starts from: the types with the form of     *)
(* each task's row (Typed), what the server may still have of a task       *)
(* (RequestsOK), and that one task at a time works as long as the flag did *)
(* not let two in (OneTask).  On it stand, each with its own part of the   *)
(* server's state: the links (LinksOK), the planner (PlannerOK), the       *)
(* drives (DrivenOK), the mirror (MirrorOK) and the scene (SceneOK).       *)
(***************************************************************************)
EXTENDS TaskServer, FunctionTheorems, WellFoundedInduction, TLAPS

(* Where a task stands, and what its thread and the server keep.           *)
Places == {"idle", "accepted", "segment", "ensure", "allow", "solve", "restore", "next",
           "planned", "apply", "aim", "drive", "report", "done"}
Playing == {"apply", "aim", "drive"}
Planning == {"segment", "ensure", "allow", "solve", "restore", "next", "planned"}

Scenes == [objects : SUBSET Objects, held : Objects \cup {Nothing}]
Playbacks == [scene : Scenes, seen : SUBSET SceneOps, once : {TRUE}]
Requests ==
  [by : Goals, seg : Nat, kind : {"planner"}, arg : Planners]
  \cup [by : Goals, seg : Nat, kind : {"links"}, arg : [links : SUBSET LinkNames, on : BOOLEAN]]
  \cup [by : Goals, seg : Nat, kind : {"scene"}, arg : SceneOps]
  \cup [by : Goals, seg : Nat, kind : {"solve", "drive"}, arg : {Nothing}]
Solves == [by : Goals, seg : Nat, kind : {"solve", "drive"}, arg : Planners]
Drives == [by : Goals, seg : Nat, kind : {"drive"}, arg : {"accepted", "solving", "moving"}]

PlaceTypes ==
  /\ pc \in [Goals -> Places] /\ seg \in [Goals -> Nat] /\ op \in [Goals -> Nat]
  /\ todo \in [Goals -> SUBSET Planners]
Replies == {"none", "waiting", "yes", "no", "raised"}
CallTypes == call \in [Goals -> Requests \cup {NoCall}] /\ reply \in [Goals -> Replies]
RecordTypes ==
  /\ solved \in [Goals -> BOOLEAN] /\ applied \in [Goals -> SUBSET SceneOps]
  /\ results \in [Goals -> Seq(BOOLEAN)]
  /\ verdict \in [Goals -> {"none", "rejected", "aborted", "solved", "succeeded"}]
AdapterTypes ==
  /\ inProgress \in BOOLEAN /\ active \in Planners \cup {Nothing}
  /\ mirror \in [objects : SUBSET Objects, attached : SUBSET Objects]
ThreadTypes == PlaceTypes /\ CallTypes /\ RecordTypes /\ AdapterTypes

ServerTypes ==
  /\ outbox \subseteq Requests /\ planner \in Planners /\ off \subseteq KnownLinks
  /\ scene \in Scenes
  /\ solving \in Solves \cup {NoCall} /\ driving \in Drives \cup {NoCall}
  /\ base \in [Goals -> Scenes] /\ driven \in [Goals -> Seq(Nat)]
  /\ doubt \subseteq Doubts /\ overlapped \in BOOLEAN

(* The call a task has open says where it stands, and the reverse.         *)
CallAt(g) ==
  \/ pc[g] \in {"ensure", "aim"} /\ call[g].kind = "planner" /\ call[g].arg \in todo[g]
  \/ pc[g] = "allow" /\ call[g].kind = "links" /\ call[g].arg = Links(g, FALSE)
  \/ pc[g] = "restore" /\ call[g].kind = "links" /\ call[g].arg = Links(g, TRUE)
  \/ pc[g] = "solve" /\ call[g].kind = "solve"
  \/ pc[g] = "apply" /\ call[g].kind = "scene" /\ op[g] <= Len(S(g).ops) /\ call[g].arg = Op(g)
  \/ pc[g] = "drive" /\ call[g].kind = "drive"

RowOK(g) ==
  /\ seg[g] \in DOMAIN Program[g] /\ op[g] \in 1 .. Len(S(g).ops) + 1
  /\ (reply[g] \in {"none", "raised"}) = (call[g] = NoCall)
  /\ call[g] # NoCall => call[g].by = g /\ call[g].seg = seg[g] /\ CallAt(g)
  /\ reply[g] = "raised" =>
       pc[g] \in {"ensure", "allow", "solve", "restore", "apply", "aim", "drive"}
  /\ verdict[g] # "none" => pc[g] \in {"report", "done"}
  /\ pc[g] \notin Playing \cup {"report"} => op[g] = 1

(* A request nobody waits for any more: its call was given up, and its     *)
(* task is about to abort, has aborted, or restores links after a solve.   *)
Lost(r) ==
  \/ /\ reply[r.by] = "raised"
     /\ pc[r.by] = "solve" => r.kind = "solve"
     /\ r.kind = "drive" => pc[r.by] = "drive"
  \/ pc[r.by] \in {"report", "done"} /\ verdict[r.by] = "aborted"
  \/ pc[r.by] \in {"restore", "next"} /\ ~solved[r.by] /\ r.kind = "solve"
Expected(r) == call[r.by] = r /\ reply[r.by] = "waiting"

(* The server has no request twice, and each is awaited or lost.           *)
RequestsOK ==
  /\ \A r \in outbox : Expected(r) \/ Lost(r)
  /\ solving.kind = "solve" =>
       /\ Request(solving) \notin outbox
       /\ Expected(Request(solving)) \/ Lost(Request(solving))
  /\ driving # NoCall =>
       /\ Request(driving) \notin outbox
       /\ Expected(Request(driving)) \/ Lost(Request(driving))

SolverOK == (solving.kind = "drive") = (driving.arg = "solving")

(* _solve_in_progress: while it kept tasks apart, it says whether one works. *)
OneTask ==
  ~overlapped => /\ \A g, h \in Goals : Working(g) /\ Working(h) => g = h
                 /\ inProgress = \E g \in Goals : Working(g)


LEMMA ChainFacts ==
  ASSUME TaskAssumption, NEW g \in Goals
  PROVE  /\ Program[g] \in Seq(Segments) /\ Len(Program[g]) \in Nat \ {0}
         /\ DOMAIN Program[g] = 1 .. Len(Program[g])
         /\ \A i \in DOMAIN Program[g] :
              /\ Program[g][i].ops \in Seq(SceneOps) /\ Program[g][i].moves \in BOOLEAN
              /\ Program[g][i].planner \in Planners \cup {Nothing}
              /\ Program[g][i].batch \in SUBSET Planners
              /\ Program[g][i].contacts \in SUBSET LinkNames
<1>1. Program[g] \in Seq(Segments) /\ Program[g] # <<>>
  BY DEF TaskAssumption
<1>2. Len(Program[g]) \in Nat \ {0} /\ DOMAIN Program[g] = 1 .. Len(Program[g])
  BY <1>1
<1>3. \A i \in DOMAIN Program[g] : Program[g][i] \in Segments
  BY <1>1
<1> QED
  BY <1>1, <1>2, <1>3 DEF Segments

LEMMA ChangedTyped ==
  ASSUME NEW o \in SceneOps, NEW sc \in Scenes
  PROVE  Changed(o, sc) \in Scenes
BY DEF Changed, Scenes, SceneOps

LEMMA PlayedTyped ==
  ASSUME NEW o \in SceneOps, NEW p \in Playbacks
  PROVE  Played(o, p) \in Playbacks
<1>1. p.scene \in Scenes /\ p.seen \subseteq SceneOps /\ p.once = TRUE
  BY DEF Playbacks
<1>2. Changed(o, p.scene) \in Scenes
  BY <1>1, ChangedTyped
<1> QED
  BY <1>1, <1>2 DEF Played, Playbacks

Rows == \A g \in Goals : RowOK(g)
Typed == ThreadTypes /\ ServerTypes /\ SolverOK /\ Rows

(* Every step of a task's own thread leaves the other tasks' rows alone.   *)
LEMMA RequestFields ==
  ASSUME NEW r \in Requests
  PROVE  /\ r.by \in Goals /\ r.seg \in Nat /\ r # NoCall
         /\ r.kind \in {"planner", "links", "scene", "solve", "drive"}
         /\ r.kind = "planner" => r.arg \in Planners
         /\ r.kind = "links" => r.arg \in [links : SUBSET LinkNames, on : BOOLEAN]
         /\ r.kind = "scene" => r.arg \in SceneOps
         /\ r.kind \in {"solve", "drive"} => r.arg = Nothing
         /\ \A x : [r EXCEPT !.arg = x] = [by |-> r.by, seg |-> r.seg, kind |-> r.kind, arg |-> x]
BY DEF Requests, NoCall

LEMMA DriveFields ==
  ASSUME driving \in Drives \cup {NoCall}, driving # NoCall
  PROVE  /\ driving.by \in Goals /\ driving.seg \in Nat /\ driving.kind = "drive"
         /\ driving.arg \in {"accepted", "solving", "moving"}
         /\ \A x : [driving EXCEPT !.arg = x] =
                     [by |-> driving.by, seg |-> driving.seg, kind |-> "drive", arg |-> x]
         /\ Request(driving) \in Requests
         /\ Request(driving) =
              [by |-> driving.by, seg |-> driving.seg, kind |-> "drive", arg |-> Nothing]
BY DEF Drives, Requests, Request

LEMMA SolveFields ==
  ASSUME solving \in Solves \cup {NoCall}, solving # NoCall
  PROVE  /\ solving.by \in Goals /\ solving.seg \in Nat /\ solving.kind \in {"solve", "drive"}
         /\ solving.arg \in Planners /\ Request(solving) \in Requests
         /\ Request(solving) =
              [by |-> solving.by, seg |-> solving.seg, kind |-> solving.kind, arg |-> Nothing]
BY DEF Solves, Requests, Request

LEMMA AskTyped ==
  ASSUME ThreadTypes, ServerTypes, NEW g \in Goals, NEW kind, NEW arg, Ask(g, kind, arg),
         \/ kind = "planner" /\ arg \in Planners
         \/ kind = "links" /\ arg \in [links : SUBSET LinkNames, on : BOOLEAN]
         \/ kind = "scene" /\ arg \in SceneOps
         \/ kind \in {"solve", "drive"} /\ arg = Nothing
  PROVE  /\ call' \in [Goals -> Requests \cup {NoCall}]
         /\ reply' \in [Goals -> Replies]
         /\ outbox' \subseteq Requests
         /\ call'[g] = [by |-> g, seg |-> seg[g], kind |-> kind, arg |-> arg]
         /\ call'[g] # NoCall /\ reply'[g] = "waiting"
<1> DEFINE r == [by |-> g, seg |-> seg[g], kind |-> kind, arg |-> arg]
<1>1. seg[g] \in Nat
  BY DEF ThreadTypes, PlaceTypes
<1>2. r \in Requests
  BY <1>1 DEF Requests
<1>3. r # NoCall
  BY <1>2, RequestFields
<1>4. call' = [call EXCEPT ![g] = r] /\ reply' = [reply EXCEPT ![g] = "waiting"]
      /\ outbox' = outbox \cup {r}
  BY DEF Ask
<1> HIDE DEF r
<1>5. /\ call' \in [Goals -> Requests \cup {NoCall}] /\ call'[g] = r
      /\ reply' \in [Goals -> Replies]
      /\ outbox' \subseteq Requests /\ reply'[g] = "waiting"
  BY <1>2, <1>4 DEF ThreadTypes, CallTypes, Replies, ServerTypes
<1> QED
  BY <1>3, <1>5 DEF r

LEMMA HeardTyped ==
  ASSUME ThreadTypes, NEW g \in Goals, Heard(g)
  PROVE  /\ call' \in [Goals -> Requests \cup {NoCall}]
         /\ reply' \in [Goals -> Replies]
         /\ call'[g] = NoCall /\ reply'[g] = "none"
BY DEF Heard, ThreadTypes, CallTypes, Replies

LEMMA TypedInit == ASSUME TaskAssumption, Init PROVE Typed
<1>1. ThreadTypes
  <2>1. todo \in [Goals -> SUBSET Planners] /\ call \in [Goals -> Requests \cup {NoCall}]
        /\ applied \in [Goals -> SUBSET SceneOps] /\ mirror \in [objects : SUBSET Objects, attached : SUBSET Objects]
    BY DEF Init, TaskAssumption
  <2>2. results \in [Goals -> Seq(BOOLEAN)]
    BY DEF Init
  <2> QED
    BY <2>1, <2>2 DEF Init, ThreadTypes, PlaceTypes, CallTypes, Replies, RecordTypes, AdapterTypes, Places, TaskAssumption
<1>2. ServerTypes
  <2>1. scene \in Scenes
    BY DEF Init, Scenes, TaskAssumption
  <2>2. solving \in Solves \cup {NoCall} /\ driving \in Drives \cup {NoCall}
    BY DEF Init
  <2>3. base \in [Goals -> Scenes] /\ driven \in [Goals -> Seq(Nat)]
    BY <2>1 DEF Init
  <2> QED
    BY <2>1, <2>2, <2>3 DEF Init, ServerTypes, TaskAssumption
<1>3. SolverOK
  BY DEF Init, SolverOK, NoCall
<1>4. Rows
  <2> SUFFICES ASSUME NEW g \in Goals PROVE RowOK(g)
    BY DEF Rows
  <2>1. 1 \in DOMAIN Program[g] /\ Len(Program[g][1].ops) \in Nat
    BY ChainFacts
  <2> QED
    BY <2>1 DEF Init, RowOK, S, NoCall
<1> QED
  BY <1>1, <1>2, <1>3, <1>4 DEF Typed

(* A step of one task's thread, or its deadline.                           *)
Turn(g) == GoalCallback(g) \/ Thread(g) \/ GiveUp(g)

SameRow(h) ==
  /\ pc'[h] = pc[h] /\ seg'[h] = seg[h] /\ op'[h] = op[h] /\ todo'[h] = todo[h]
  /\ call'[h] = call[h] /\ reply'[h] = reply[h] /\ solved'[h] = solved[h]
  /\ applied'[h] = applied[h] /\ results'[h] = results[h] /\ verdict'[h] = verdict[h]
  /\ base'[h] = base[h]
ServerStill ==
  UNCHANGED <<planner, off, scene, solving, driving, cache, driven>>

LEMMA OnlyOwnRow ==
  ASSUME ThreadTypes, ServerTypes, NEW g \in Goals, Turn(g), NEW h \in Goals, h # g
  PROVE  SameRow(h)
<1> USE DEF Goto, Stay, Heard, Ask, Abort, place, adapter, record, server, history,
            ThreadTypes, PlaceTypes, CallTypes, RecordTypes, AdapterTypes, ServerTypes, SameRow
<1>1. CASE GoalCallback(g) \/ GiveUp(g) \/ ExecuteCallback(g) \/ Report(g)
  BY <1>1 DEF GoalCallback, GiveUp, ExecuteCallback, Report
<1>2. CASE Segment(g) \/ SwitchPlanner(g) \/ PlannerSwitched(g) \/ PlanCall(g)
  <2>1. CASE PlanCall(g)
    BY <2>1 DEF PlanCall
  <2> QED
    BY <1>2, <2>1 DEF Segment, SwitchPlanner, PlannerSwitched
<1>3. CASE LinksAllowed(g) \/ SolveHeard(g) \/ LinksRestored(g) \/ NextSegment(g)
  BY <1>3 DEF LinksAllowed, SolveHeard, LinksRestored, NextSegment
<1>4. CASE StartPlayback(g) \/ ApplyOp(g) \/ OpApplied(g) \/ OpsDone(g)
  BY <1>4 DEF StartPlayback, ApplyOp, OpApplied, OpsDone, Advance
<1>5. CASE Drive(g) \/ DriveHeard(g)
  BY <1>5 DEF Drive, DriveHeard, Advance
<1> QED
  BY <1>1, <1>2, <1>3, <1>4, <1>5 DEF Turn, Thread

LEMMA TurnLeavesServer ==
  ASSUME NEW g \in Goals, Turn(g) PROVE ServerStill
BY DEF Turn, Thread, ServerStill, server, history, GoalCallback, GiveUp, ExecuteCallback,
       Report, Segment, SwitchPlanner, PlannerSwitched, PlanCall, LinksAllowed, SolveHeard,
       LinksRestored, NextSegment, StartPlayback, ApplyOp, OpApplied, OpsDone, Drive, DriveHeard

Handles(r) ==
  SetPlanner(r) \/ SetLinkCollision(r) \/ SceneService(r) \/ SolveBegin(r) \/ DriveGoal(r)

(* The server answers an open call, and moves nobody.                      *)
LEMMA ServerMovesNobody ==
  ASSUME Typed, Server
  PROVE  /\ UNCHANGED <<pc, seg, op, todo, call, active, mirror, applied, results, verdict,
                        solved, inProgress, base, overlapped>>
         /\ reply' \in [Goals -> Replies]
         /\ \A h \in Goals : \/ reply'[h] = reply[h]
                             \/ call[h] # NoCall /\ reply'[h] \in {"yes", "no"}
<1> USE DEF Elsewhere, Take, Answer, place, record, history, Request, Typed, ThreadTypes, CallTypes, Replies,
            ServerTypes
<1>1. ASSUME NEW r \in outbox, Handles(r)
      PROVE  \/ UNCHANGED reply
             \/ \E v \in {"yes", "no"} : call[r.by] = r /\ reply' = [reply EXCEPT ![r.by] = v]
  BY <1>1 DEF Handles, SetPlanner, SetLinkCollision, SceneService, Serves, Fails, SolveBegin, DriveGoal
<1>2. ASSUME SolveEnd \/ DriveSolve \/ DriveSolved \/ DriveEnd
      PROVE  \/ UNCHANGED reply
             \/ \E v \in {"yes", "no"} : \E r \in Requests :
                  call[r.by] = r /\ reply' = [reply EXCEPT ![r.by] = v]
  <2>1. CASE SolveEnd
    <3>1. Request(solving) \in Requests
      BY <2>1 DEF SolveEnd, Solving, Solves, Requests
    <3> QED
      BY <2>1, <3>1 DEF SolveEnd
  <2>2. CASE DriveSolve
    BY <2>2 DEF DriveSolve
  <2>3. CASE DriveSolved \/ DriveEnd
    <3>0. driving \in Drives
      BY <2>3 DEF DriveSolved, DriveEnd, NoCall
    <3>1. Request(driving) \in Requests
      BY <3>0 DEF Drives, Requests
    <3> QED
      BY <2>3, <3>1 DEF DriveSolved, DriveEnd
  <2> QED
    BY <1>2, <2>1, <2>2, <2>3
<1>3. \A r \in Requests : r.by \in Goals /\ r # NoCall
  BY DEF Requests, NoCall
<1>4. UNCHANGED <<pc, seg, op, todo, call, active, mirror, applied, results, verdict,
                  solved, inProgress, base, overlapped>>
  BY DEF Server, SetPlanner, SetLinkCollision, SceneService, SolveBegin, DriveGoal, SolveEnd,
         DriveSolve, DriveSolved, DriveEnd
<1>5. \/ UNCHANGED reply
      \/ \E v \in {"yes", "no"} : \E r \in Requests :
           call[r.by] = r /\ reply' = [reply EXCEPT ![r.by] = v]
  BY <1>1, <1>2 DEF Server, Handles
<1> QED
  BY <1>3, <1>4, <1>5

LEMMA RowFrame ==
  ASSUME NEW h \in Goals, SameRow(h), RowOK(h) PROVE RowOK(h)'
BY DEF SameRow, RowOK, CallAt, S, Op, Links

LEMMA AnsweredRow ==
  ASSUME NEW h \in Goals, RowOK(h), call[h] # NoCall, reply'[h] \in {"yes", "no"},
         UNCHANGED <<pc, seg, op, todo, call, verdict>>
  PROVE  RowOK(h)'
BY DEF RowOK, CallAt, S, Op, Links

(* The server's own state keeps its types.                                 *)
LEMMA ServerTyped ==
  ASSUME TaskAssumption, Typed, Server PROVE ServerTypes' /\ SolverOK'
<1> USE DEF Elsewhere, Take, history, Request, Typed, ThreadTypes, ServerTypes, SolverOK
<1>1. ASSUME NEW r \in outbox, SetPlanner(r) PROVE ServerTypes' /\ SolverOK'
  <2>1. r.arg \in Planners
    BY <1>1, RequestFields DEF SetPlanner
  <2> QED
    BY <1>1, <2>1 DEF SetPlanner, Effects, Doubts
<1>2. ASSUME NEW r \in outbox, SetLinkCollision(r) PROVE ServerTypes' /\ SolverOK'
  BY <1>2 DEF SetLinkCollision
<1>3. ASSUME NEW r \in outbox, SceneService(r) PROVE ServerTypes' /\ SolverOK'
  <2>1. r.arg \in SceneOps
    BY <1>3 DEF SceneService, Requests
  <2>2. scene' \in Scenes
    BY <1>3, <2>1, ChangedTyped DEF SceneService, Serves, Fails
  <2>3. Swapped(r.arg) \cup {"refused", "scene"} \subseteq Doubts
    BY DEF Swapped, Doubts, Effects
  <2>4. doubt' \subseteq Doubts
    BY <1>3, <2>3 DEF SceneService, Serves, Fails
  <2> QED
    BY <1>3, <2>2, <2>4 DEF SceneService
<1>4. ASSUME NEW r \in outbox, SolveBegin(r) PROVE ServerTypes' /\ SolverOK'
  <2>1. solving' \in Solves /\ solving'.kind = "solve"
    <3>1. solving' = [by |-> r.by, seg |-> r.seg, kind |-> "solve", arg |-> planner]
      BY <1>4, RequestFields DEF SolveBegin
    <3> QED
      BY <1>4, <3>1, RequestFields DEF Solves
  <2> QED
    BY <1>4, <2>1 DEF SolveBegin, Solving, NoCall
<1>5. ASSUME NEW r \in outbox, DriveGoal(r) PROVE ServerTypes' /\ SolverOK'
  <2>1. CASE UNCHANGED driving
    BY <1>5, <2>1 DEF DriveGoal
  <2>2. CASE driving = NoCall /\ driving' # driving
    <3>1. driving' \in Drives /\ driving'.arg # "solving"
      <4>1. r \in Requests /\ r.kind = "drive"
        BY <1>5 DEF DriveGoal
      <4>2. \/ driving' = [r EXCEPT !.arg = "moving"]
            \/ driving' = [r EXCEPT !.arg = "accepted"]
        BY <1>5, <2>2 DEF DriveGoal
      <4>0. \A x : [r EXCEPT !.arg = x] = [by |-> r.by, seg |-> r.seg, kind |-> "drive", arg |-> x]
        BY <4>1, RequestFields
      <4>3. \E x \in {"moving", "accepted"} :
              driving' = [by |-> r.by, seg |-> r.seg, kind |-> "drive", arg |-> x]
        BY <4>0, <4>2, Zenon
      <4> QED
        BY <4>1, <4>3, RequestFields DEF Drives
    <3> QED
      BY <1>5, <2>2, <3>1 DEF DriveGoal, NoCall
  <2> QED
    BY <1>5, <2>1, <2>2 DEF DriveGoal
<1>6. ASSUME SolveEnd PROVE ServerTypes' /\ SolverOK'
  BY <1>6 DEF SolveEnd, Solving, NoCall
<1>7. ASSUME DriveSolve PROVE ServerTypes' /\ SolverOK'
  <2>1. driving \in Drives
    BY <1>7 DEF DriveSolve, NoCall
  <2>2. /\ driving' \in Drives /\ driving'.arg = "solving"
        /\ solving' \in Solves /\ solving'.kind = "drive"
    BY <1>7, <2>1 DEF DriveSolve, Drives, Solves
  <2> QED
    BY <1>7, <2>2 DEF DriveSolve
<1>8. ASSUME DriveSolved PROVE ServerTypes' /\ SolverOK'
  <2>1. driving \in Drives
    BY <1>8 DEF DriveSolved, NoCall
  <2>2. driving' \in Drives \cup {NoCall} /\ driving'.arg # "solving"
    <3>1. \/ driving' = NoCall
          \/ driving' = [driving EXCEPT !.arg = "moving"]
      BY <1>8 DEF DriveSolved
    <3>2. CASE driving' = NoCall
      BY <3>2 DEF NoCall
    <3>3. CASE driving' = [driving EXCEPT !.arg = "moving"]
      BY <2>1, <3>3 DEF Drives
    <3> QED
      BY <3>1, <3>2, <3>3
  <2> QED
    BY <1>8, <2>2 DEF DriveSolved, NoCall
<1>9. ASSUME DriveEnd PROVE ServerTypes' /\ SolverOK'
  <2>1. driving \in Drives
    BY <1>9 DEF DriveEnd, NoCall
  <2>2. driven' \in [Goals -> Seq(Nat)]
    BY <1>9, <2>1 DEF DriveEnd, Drives
  <2> QED
    BY <1>9, <2>1, <2>2 DEF DriveEnd, NoCall
<1> QED
  BY <1>1, <1>2, <1>3, <1>4, <1>5, <1>6, <1>7, <1>8, <1>9 DEF Server

(* A thread's own step keeps its row and the types of what it writes.      *)
LEMMA TurnTyped ==
  ASSUME TaskAssumption, Typed, NEW g \in Goals, Turn(g)
  PROVE  ThreadTypes' /\ ServerTypes' /\ RowOK(g)'
<1> USE DEF Goto, Stay, Abort, place, adapter, record, server, history
<1>0. /\ PlaceTypes /\ CallTypes /\ RecordTypes /\ AdapterTypes /\ ServerTypes /\ RowOK(g)
      /\ ThreadTypes /\ seg[g] \in DOMAIN Program[g]
  BY DEF Typed, Rows, RowOK, ThreadTypes
<1>a. /\ Len(Program[g]) \in Nat /\ DOMAIN Program[g] = 1 .. Len(Program[g])
      /\ Len(Program[g]) # 0
      /\ \A i \in DOMAIN Program[g] : Len(Program[g][i].ops) \in Nat
  BY ChainFacts
<1>b. Switches(g) \in SUBSET Planners
  BY <1>0, ChainFacts DEF Switches, S
<1>1. ASSUME GoalCallback(g) PROVE ThreadTypes' /\ ServerTypes' /\ RowOK(g)'
  <2>1. PlaceTypes'
    BY <1>0, <1>1 DEF GoalCallback, PlaceTypes, Places
  <2>2. RecordTypes'
    BY <1>0, <1>1 DEF GoalCallback, RecordTypes
  <2>3. CallTypes' /\ AdapterTypes' /\ ServerTypes'
    BY <1>0, <1>1 DEF GoalCallback, CallTypes, AdapterTypes, ServerTypes
  <2>4. RowOK(g)'
    BY <1>0, <1>1 DEF GoalCallback, RowOK, PlaceTypes, CallTypes, RecordTypes, Playing, S, CallAt
  <2> QED
    BY <2>1, <2>2, <2>3, <2>4 DEF ThreadTypes
<1>2. ASSUME GiveUp(g) PROVE ThreadTypes' /\ ServerTypes' /\ RowOK(g)'
  <2>1. CallTypes'
    BY <1>0, <1>2 DEF GiveUp, CallTypes, Replies
  <2>2. ServerTypes'
    BY <1>0, <1>2 DEF GiveUp, ServerTypes, Effects, Doubts
  <2>3. PlaceTypes' /\ RecordTypes' /\ AdapterTypes'
    BY <1>0, <1>2 DEF GiveUp, PlaceTypes, RecordTypes, AdapterTypes
  <2>4. RowOK(g)'
    BY <1>0, <1>2 DEF GiveUp, RowOK, PlaceTypes, CallTypes, RecordTypes, Playing, S, CallAt, NoCall, Replies
  <2> QED
    BY <2>1, <2>2, <2>3, <2>4 DEF ThreadTypes
<1>3. ASSUME ExecuteCallback(g) PROVE ThreadTypes' /\ ServerTypes' /\ RowOK(g)'
  <2>1. PlaceTypes'
    BY <1>0, <1>3 DEF ExecuteCallback, PlaceTypes, Places
  <2>2. RecordTypes'
    BY <1>0, <1>3 DEF ExecuteCallback, RecordTypes
  <2>3. AdapterTypes'
    BY <1>0, <1>3 DEF ExecuteCallback, AdapterTypes
  <2>4. ServerTypes'
    BY <1>0, <1>3 DEF ExecuteCallback, ServerTypes
  <2>5. CallTypes'
    BY <1>0, <1>3 DEF ExecuteCallback, CallTypes
  <2>6. RowOK(g)'
    BY <1>0, <1>3 DEF ExecuteCallback, RowOK, PlaceTypes, CallTypes, RecordTypes, Playing, S, CallAt
  <2> QED
    BY <2>1, <2>2, <2>3, <2>4, <2>5, <2>6 DEF ThreadTypes
<1>4. ASSUME Report(g) PROVE ThreadTypes' /\ ServerTypes' /\ RowOK(g)'
  <2>1. PlaceTypes'
    BY <1>0, <1>4 DEF Report, PlaceTypes, Places
  <2>2. RecordTypes'
    BY <1>0, <1>4 DEF Report, RecordTypes
  <2>3. AdapterTypes'
    BY <1>0, <1>4 DEF Report, AdapterTypes
  <2>4. CallTypes' /\ ServerTypes'
    BY <1>0, <1>4 DEF Report, CallTypes, ServerTypes
  <2>5. RowOK(g)'
    BY <1>0, <1>4, <1>a DEF Report, RowOK, PlaceTypes, CallTypes, RecordTypes, Playing, S, CallAt
  <2> QED
    BY <2>1, <2>2, <2>3, <2>4, <2>5 DEF ThreadTypes
<1>5. ASSUME Segment(g) PROVE ThreadTypes' /\ ServerTypes' /\ RowOK(g)'
  <2>1. \/ Goto(g, "ensure") /\ todo' = [todo EXCEPT ![g] = Switches(g)] /\ UNCHANGED <<seg, op>>
        \/ Goto(g, "planned") /\ Stay
        \/ seg[g] # Len(Program[g]) /\ seg' = [seg EXCEPT ![g] = @ + 1] /\ UNCHANGED <<pc, op, todo>>
    BY <1>5 DEF Segment
  <2>0. pc[g] = "segment" /\ UNCHANGED <<call, reply, verdict>>
    BY <1>5 DEF Segment
  <2>c1. ASSUME Goto(g, "ensure") /\ todo' = [todo EXCEPT ![g] = Switches(g)] /\ UNCHANGED <<seg, op>>
        PROVE  PlaceTypes' /\ RowOK(g)'
    <3>2. PlaceTypes'
      BY <1>0, <1>b, <2>c1, <2>0 DEF PlaceTypes, Places
    <3>3. RowOK(g)'
      BY <1>0, <1>a, <2>c1, <2>0 DEF RowOK, PlaceTypes, RecordTypes, Playing, S, CallAt
    <3> QED
      BY <3>2, <3>3
  <2>c2. ASSUME Goto(g, "planned") /\ Stay
        PROVE  PlaceTypes' /\ RowOK(g)'
    <3>2. PlaceTypes'
      BY <1>0, <1>b, <2>c2, <2>0 DEF PlaceTypes, Places
    <3>3. RowOK(g)'
      BY <1>0, <1>a, <2>c2, <2>0 DEF RowOK, PlaceTypes, RecordTypes, Playing, S, CallAt
    <3> QED
      BY <3>2, <3>3
  <2>c3. ASSUME seg[g] # Len(Program[g]) /\ seg' = [seg EXCEPT ![g] = @ + 1] /\ UNCHANGED <<pc, op, todo>>
        PROVE  PlaceTypes' /\ RowOK(g)'
    <3>1. seg[g] + 1 \in DOMAIN Program[g] /\ seg[g] + 1 \in Nat /\ seg'[g] = seg[g] + 1
      BY <1>0, <1>a, <2>c3 DEF PlaceTypes
    <3>2. PlaceTypes'
      BY <1>0, <2>c3, <3>1, <2>0 DEF PlaceTypes, Places
    <3>4. S(g)' = Program[g][seg[g] + 1] /\ Len(Program[g][seg[g] + 1].ops) \in Nat
      BY <1>a, <3>1 DEF S
    <3>5. call[g] = NoCall /\ reply[g] \in {"none", "raised"} /\ reply[g] # "raised"
      BY <1>0, <2>0 DEF RowOK, CallAt
    <3>6. op[g] = 1
      BY <1>0, <2>0 DEF RowOK, Playing
    <3>7. verdict[g] = "none"
      BY <1>0, <2>0 DEF RowOK
    <3>3. RowOK(g)'
      <4>1. /\ call'[g] = NoCall /\ reply'[g] \in {"none", "raised"} /\ reply'[g] # "raised"
            /\ op'[g] = 1 /\ verdict'[g] = "none"
        BY <2>c3, <2>0, <3>5, <3>6, <3>7
      <4> QED
        BY <3>1, <3>4, <4>1 DEF RowOK
    <3> QED
      BY <3>2, <3>3
  <2>p. PlaceTypes' /\ RowOK(g)'
    BY <2>1, <2>c1, <2>c2, <2>c3
  <2>3. CallTypes' /\ RecordTypes' /\ AdapterTypes' /\ ServerTypes'
    BY <1>0, <1>5 DEF Segment, CallTypes, RecordTypes, AdapterTypes, ServerTypes
  <2> QED
    BY <2>3, <2>p DEF ThreadTypes
<1>6. ASSUME SwitchPlanner(g) PROVE ThreadTypes' /\ ServerTypes' /\ RowOK(g)'
  <2>1. CASE todo[g] = {}
    <3>1. Goto(g, IF pc[g] = "ensure" THEN "allow" ELSE "drive") /\ Stay /\ UNCHANGED <<adapter, outbox>>
          /\ pc[g] \in {"ensure", "aim"}
      BY <1>6, <2>1 DEF SwitchPlanner
    <3>2. PlaceTypes'
      BY <1>0, <3>1 DEF PlaceTypes, Places
    <3>3. CallTypes' /\ RecordTypes' /\ AdapterTypes' /\ ServerTypes'
      BY <1>0, <1>6, <3>1 DEF SwitchPlanner, CallTypes, RecordTypes, AdapterTypes, ServerTypes
    <3>4. RowOK(g)'
      BY <1>0, <1>6, <3>1 DEF SwitchPlanner, RowOK, PlaceTypes, Playing, S, CallAt
    <3> QED
      BY <3>2, <3>3, <3>4 DEF ThreadTypes
  <2>2. CASE todo[g] # {}
    <3>1. PICK p \in todo[g] : Ask(g, "planner", p)
      BY <1>6, <2>2 DEF SwitchPlanner
    <3>2. p \in Planners
      BY <1>0 DEF PlaceTypes
    <3>3. /\ CallTypes' /\ outbox' \subseteq Requests /\ call'[g] # NoCall /\ reply'[g] = "waiting"
          /\ call'[g] = [by |-> g, seg |-> seg[g], kind |-> "planner", arg |-> p]
      BY <1>0, <3>1, <3>2, AskTyped DEF CallTypes
    <3>4. PlaceTypes' /\ RecordTypes' /\ AdapterTypes' /\ ServerTypes'
      BY <1>0, <1>6, <2>2, <3>3 DEF SwitchPlanner, PlaceTypes, RecordTypes, AdapterTypes, ServerTypes
    <3>5. RowOK(g)'
      BY <1>0, <1>6, <2>2, <3>3 DEF SwitchPlanner, RowOK, Playing, S, CallAt
    <3> QED
      BY <3>3, <3>4, <3>5 DEF ThreadTypes
  <2> QED
    BY <2>1, <2>2
<1>7. ASSUME PlannerSwitched(g) PROVE ThreadTypes' /\ ServerTypes' /\ RowOK(g)'
  <2>h. /\ CallTypes' /\ call'[g] = NoCall /\ reply'[g] = "none"
    BY <1>0, <1>7, HeardTyped DEF PlannerSwitched, CallTypes
  <2>y. reply[g] = "yes" => call[g].arg \in Planners
    BY <1>0, <1>7 DEF PlannerSwitched, RowOK, CallAt, PlaceTypes
  <2>1. PlaceTypes'
    BY <1>0, <1>7 DEF PlannerSwitched, PlaceTypes, Places
  <2>2. CallTypes'
    BY <1>0, <1>7, <2>h DEF PlannerSwitched, CallTypes
  <2>3. RecordTypes'
    BY <1>0, <1>7 DEF PlannerSwitched, RecordTypes
  <2>4. AdapterTypes'
    BY <1>0, <1>7, <2>y DEF PlannerSwitched, AdapterTypes
  <2>5. ServerTypes'
    BY <1>0, <1>7 DEF PlannerSwitched, ServerTypes
  <2>6. RowOK(g)'
    BY <1>0, <1>7, <2>h DEF PlannerSwitched, RowOK, PlaceTypes, CallTypes, RecordTypes, Playing, S, CallAt
  <2> QED
    BY <2>1, <2>2, <2>3, <2>4, <2>5, <2>6 DEF ThreadTypes
<1>8. ASSUME PlanCall(g) PROVE ThreadTypes' /\ ServerTypes' /\ RowOK(g)'
  <2>1. CASE pc[g] # "solve" /\ S(g).contacts = {}
    <3>1. Goto(g, IF pc[g] = "allow" THEN "solve" ELSE "next") /\ UNCHANGED <<adapter, outbox>>
          /\ Stay /\ pc[g] \in {"allow", "restore"}
      BY <1>8, <2>1 DEF PlanCall
    <3>2. PlaceTypes'
      BY <1>0, <3>1 DEF PlaceTypes, Places
    <3>3. CallTypes' /\ RecordTypes' /\ AdapterTypes' /\ ServerTypes'
      BY <1>0, <1>8, <3>1 DEF PlanCall, CallTypes, RecordTypes, AdapterTypes, ServerTypes
    <3>4. RowOK(g)'
      BY <1>0, <1>8, <3>1 DEF PlanCall, RowOK, PlaceTypes, Playing, S, CallAt
    <3> QED
      BY <3>2, <3>3, <3>4 DEF ThreadTypes
  <2>2. CASE ~(pc[g] # "solve" /\ S(g).contacts = {})
    <3>1. /\ UNCHANGED <<pc, active, mirror>>
          /\ \/ pc[g] = "allow" /\ Ask(g, "links", Links(g, FALSE))
             \/ pc[g] = "solve" /\ Ask(g, "solve", Nothing)
             \/ pc[g] = "restore" /\ Ask(g, "links", Links(g, TRUE))
      BY <1>8, <2>2 DEF PlanCall
    <3>2. S(g).contacts \in SUBSET LinkNames
      BY <1>0, ChainFacts DEF S
    <3>3. /\ CallTypes' /\ outbox' \subseteq Requests /\ call'[g] # NoCall /\ reply'[g] = "waiting"
          /\ call'[g].by = g /\ call'[g].seg = seg[g]
          /\ \/ pc[g] = "allow" /\ call'[g].kind = "links" /\ call'[g].arg = Links(g, FALSE)
             \/ pc[g] = "solve" /\ call'[g].kind = "solve"
             \/ pc[g] = "restore" /\ call'[g].kind = "links" /\ call'[g].arg = Links(g, TRUE)
      <4>1. CASE pc[g] = "allow" /\ Ask(g, "links", Links(g, FALSE))
        <5>1. /\ CallTypes' /\ outbox' \subseteq Requests /\ call'[g] # NoCall /\ reply'[g] = "waiting"
              /\ call'[g] = [by |-> g, seg |-> seg[g], kind |-> "links",
                             arg |-> [links |-> S(g).contacts, on |-> FALSE]]
          <6> DEFINE a == [links |-> S(g).contacts, on |-> FALSE]
          <6>1. a \in [links : SUBSET LinkNames, on : BOOLEAN]
            BY <3>2
          <6>2. Ask(g, "links", a)
            BY <4>1 DEF Links
          <6> HIDE DEF a
          <6>3. /\ CallTypes' /\ outbox' \subseteq Requests /\ call'[g] # NoCall /\ reply'[g] = "waiting"
                /\ call'[g] = [by |-> g, seg |-> seg[g], kind |-> "links", arg |-> a]
            BY <1>0, <6>1, <6>2, AskTyped DEF CallTypes
          <6> QED
            BY <6>3 DEF a
        <5> QED
          BY <4>1, <5>1 DEF Links
      <4>2. CASE pc[g] = "solve" /\ Ask(g, "solve", Nothing)
        <5>1. /\ CallTypes' /\ outbox' \subseteq Requests /\ call'[g] # NoCall /\ reply'[g] = "waiting"
              /\ call'[g] = [by |-> g, seg |-> seg[g], kind |-> "solve", arg |-> Nothing]
          BY <1>0, <4>2, AskTyped DEF CallTypes
        <5> QED
          BY <4>2, <5>1
      <4>3. CASE pc[g] = "restore" /\ Ask(g, "links", Links(g, TRUE))
        <5>1. /\ CallTypes' /\ outbox' \subseteq Requests /\ call'[g] # NoCall /\ reply'[g] = "waiting"
              /\ call'[g] = [by |-> g, seg |-> seg[g], kind |-> "links",
                             arg |-> [links |-> S(g).contacts, on |-> TRUE]]
          <6> DEFINE a == [links |-> S(g).contacts, on |-> TRUE]
          <6>1. a \in [links : SUBSET LinkNames, on : BOOLEAN]
            BY <3>2
          <6>2. Ask(g, "links", a)
            BY <4>3 DEF Links
          <6> HIDE DEF a
          <6>3. /\ CallTypes' /\ outbox' \subseteq Requests /\ call'[g] # NoCall /\ reply'[g] = "waiting"
                /\ call'[g] = [by |-> g, seg |-> seg[g], kind |-> "links", arg |-> a]
            BY <1>0, <6>1, <6>2, AskTyped DEF CallTypes
          <6> QED
            BY <6>3 DEF a
        <5> QED
          BY <4>3, <5>1 DEF Links
      <4> QED
        BY <3>1, <4>1, <4>2, <4>3
    <3>4. PlaceTypes' /\ RecordTypes' /\ AdapterTypes' /\ ServerTypes'
      BY <1>0, <1>8, <3>1, <3>3 DEF PlanCall, PlaceTypes, RecordTypes, AdapterTypes, ServerTypes
    <3>5. UNCHANGED <<pc, seg, op, todo, verdict>>
      BY <1>8, <3>1 DEF PlanCall
    <3>6. RowOK(g)'
      BY <1>0, <3>3, <3>5 DEF RowOK, Playing, S, CallAt, Links
    <3> QED
      BY <3>3, <3>4, <3>6 DEF ThreadTypes
  <2> QED
    BY <2>1, <2>2
<1>9. ASSUME LinksAllowed(g) PROVE ThreadTypes' /\ ServerTypes' /\ RowOK(g)'
  <2>h. /\ CallTypes' /\ call'[g] = NoCall /\ reply'[g] = "none"
    BY <1>0, <1>9, HeardTyped DEF LinksAllowed, CallTypes
  <2>1. PlaceTypes'
    BY <1>0, <1>9 DEF LinksAllowed, PlaceTypes, Places
  <2>2. CallTypes'
    BY <1>0, <1>9, <2>h DEF LinksAllowed, CallTypes
  <2>3. RecordTypes'
    BY <1>0, <1>9 DEF LinksAllowed, RecordTypes
  <2>4. AdapterTypes' /\ ServerTypes'
    BY <1>0, <1>9 DEF LinksAllowed, AdapterTypes, ServerTypes
  <2>5. RowOK(g)'
    BY <1>0, <1>9, <2>h DEF LinksAllowed, RowOK, PlaceTypes, CallTypes, RecordTypes, Playing, S, CallAt
  <2> QED
    BY <2>1, <2>2, <2>3, <2>4, <2>5 DEF ThreadTypes
<1>10. ASSUME SolveHeard(g) PROVE ThreadTypes' /\ ServerTypes' /\ RowOK(g)'
  <2>h. /\ CallTypes' /\ call'[g] = NoCall /\ reply'[g] = "none"
    BY <1>0, <1>10, HeardTyped DEF SolveHeard, CallTypes
  <2>1. PlaceTypes'
    BY <1>0, <1>10 DEF SolveHeard, PlaceTypes, Places
  <2>2. CallTypes'
    BY <1>0, <1>10, <2>h DEF SolveHeard, CallTypes
  <2>3. RecordTypes'
    BY <1>0, <1>10 DEF SolveHeard, RecordTypes
  <2>4. AdapterTypes' /\ ServerTypes'
    BY <1>0, <1>10 DEF SolveHeard, AdapterTypes, ServerTypes
  <2>5. RowOK(g)'
    BY <1>0, <1>10, <2>h DEF SolveHeard, RowOK, PlaceTypes, CallTypes, RecordTypes, Playing, S, CallAt
  <2> QED
    BY <2>1, <2>2, <2>3, <2>4, <2>5 DEF ThreadTypes
<1>11. ASSUME LinksRestored(g) PROVE ThreadTypes' /\ ServerTypes' /\ RowOK(g)'
  <2>h. /\ CallTypes' /\ call'[g] = NoCall /\ reply'[g] = "none"
    BY <1>0, <1>11, HeardTyped DEF LinksRestored, CallTypes
  <2>1. PlaceTypes'
    BY <1>0, <1>11 DEF LinksRestored, PlaceTypes, Places
  <2>2. CallTypes'
    BY <1>0, <1>11, <2>h DEF LinksRestored, CallTypes
  <2>3. RecordTypes'
    BY <1>0, <1>11 DEF LinksRestored, RecordTypes
  <2>4. AdapterTypes' /\ ServerTypes'
    BY <1>0, <1>11 DEF LinksRestored, AdapterTypes, ServerTypes
  <2>5. RowOK(g)'
    BY <1>0, <1>11, <2>h DEF LinksRestored, RowOK, PlaceTypes, CallTypes, RecordTypes, Playing, S, CallAt
  <2> QED
    BY <2>1, <2>2, <2>3, <2>4, <2>5 DEF ThreadTypes
<1>12. ASSUME NextSegment(g) PROVE ThreadTypes' /\ ServerTypes' /\ RowOK(g)'
  <2>1. \/ Goto(g, "report") /\ UNCHANGED seg
        \/ Goto(g, "planned") /\ UNCHANGED <<seg, verdict>>
        \/ /\ Goto(g, "segment") /\ seg[g] # Len(Program[g]) /\ UNCHANGED verdict
           /\ seg' = [seg EXCEPT ![g] = @ + 1]
    BY <1>12 DEF NextSegment
  <2>2. pc[g] = "next" /\ UNCHANGED <<op, todo, call, reply>>
    BY <1>12 DEF NextSegment
  <2>v. verdict'[g] # verdict[g] => pc'[g] = "report"
    BY <1>0, <1>12 DEF NextSegment, PlaceTypes
  <2>c1. ASSUME Goto(g, "report") /\ UNCHANGED seg
        PROVE  PlaceTypes' /\ RowOK(g)'
    <3>2. PlaceTypes'
      BY <1>0, <1>b, <2>c1, <2>2, <2>v DEF PlaceTypes, Places
    <3>3. RowOK(g)'
      BY <1>0, <1>a, <2>c1, <2>2, <2>v DEF RowOK, PlaceTypes, RecordTypes, Playing, S, CallAt
    <3> QED
      BY <3>2, <3>3
  <2>c2. ASSUME Goto(g, "planned") /\ UNCHANGED <<seg, verdict>>
        PROVE  PlaceTypes' /\ RowOK(g)'
    <3>2. PlaceTypes'
      BY <1>0, <1>b, <2>c2, <2>2, <2>v DEF PlaceTypes, Places
    <3>3. RowOK(g)'
      BY <1>0, <1>a, <2>c2, <2>2, <2>v DEF RowOK, PlaceTypes, RecordTypes, Playing, S, CallAt
    <3> QED
      BY <3>2, <3>3
  <2>c3. ASSUME Goto(g, "segment") /\ seg[g] # Len(Program[g]) /\ UNCHANGED verdict /\ seg' = [seg EXCEPT ![g] = @ + 1]
        PROVE  PlaceTypes' /\ RowOK(g)'
    <3>1. seg[g] + 1 \in DOMAIN Program[g] /\ seg[g] + 1 \in Nat /\ seg'[g] = seg[g] + 1
      BY <1>0, <1>a, <2>c3 DEF PlaceTypes
    <3>2. PlaceTypes'
      BY <1>0, <2>c3, <3>1, <2>2, <2>v DEF PlaceTypes, Places
    <3>4. S(g)' = Program[g][seg[g] + 1] /\ Len(Program[g][seg[g] + 1].ops) \in Nat
      BY <1>a, <3>1 DEF S
    <3>5. call[g] = NoCall /\ reply[g] \in {"none", "raised"} /\ reply[g] # "raised"
      BY <1>0, <2>2, <2>v DEF RowOK, CallAt
    <3>6. op[g] = 1
      BY <1>0, <2>2, <2>v DEF RowOK, Playing
    <3>7. verdict[g] = "none"
      BY <1>0, <2>2, <2>v DEF RowOK
    <3>3. RowOK(g)'
      <4>1. /\ call'[g] = NoCall /\ reply'[g] \in {"none", "raised"} /\ reply'[g] # "raised"
            /\ op'[g] = 1 /\ verdict'[g] = "none"
        BY <2>c3, <2>2, <2>v, <3>5, <3>6, <3>7
      <4> QED
        BY <3>1, <3>4, <4>1 DEF RowOK
    <3> QED
      BY <3>2, <3>3
  <2>p. PlaceTypes' /\ RowOK(g)'
    BY <2>1, <2>c1, <2>c2, <2>c3
  <2>4. RecordTypes'
    BY <1>0, <1>12 DEF NextSegment, RecordTypes
  <2>5. CallTypes' /\ AdapterTypes' /\ ServerTypes'
    BY <1>0, <1>12 DEF NextSegment, CallTypes, AdapterTypes, ServerTypes
  <2> QED
    BY <2>4, <2>5, <2>p DEF ThreadTypes
<1>13. ASSUME StartPlayback(g) PROVE ThreadTypes' /\ ServerTypes' /\ RowOK(g)'
  <2>1. PlaceTypes'
    BY <1>0, <1>13 DEF StartPlayback, PlaceTypes, Places
  <2>2. RecordTypes'
    BY <1>0, <1>13 DEF StartPlayback, RecordTypes
  <2>3. CallTypes' /\ AdapterTypes' /\ ServerTypes'
    BY <1>0, <1>13 DEF StartPlayback, CallTypes, AdapterTypes, ServerTypes
  <2>4. RowOK(g)'
    <3>1. /\ 1 \in DOMAIN Program[g] /\ seg'[g] = 1 /\ op'[g] = 1 /\ UNCHANGED <<call, reply>>
          /\ reply[g] = "none" /\ pc'[g] \in {"report", "apply"} /\ (verdict'[g] # "none" => pc'[g] = "report")
      BY <1>0, <1>a, <1>13 DEF StartPlayback, RowOK, PlaceTypes, CallTypes, RecordTypes, CallAt, Replies
    <3>2. S(g)' = Program[g][1] /\ Len(Program[g][1].ops) \in Nat
      BY <1>a, <3>1 DEF S
    <3>3. call'[g] = NoCall
      BY <1>0, <3>1 DEF RowOK
    <3> QED
      BY <1>a, <3>1, <3>2, <3>3 DEF RowOK, Playing
  <2> QED
    BY <2>1, <2>2, <2>3, <2>4 DEF ThreadTypes
<1>14. ASSUME ApplyOp(g) PROVE ThreadTypes' /\ ServerTypes' /\ RowOK(g)'
  <2>0. Op(g) \in SceneOps /\ op[g] \in Nat
    BY <1>0, <1>14, ChainFacts DEF ApplyOp, Op, S, RowOK
  <2>1. CASE Applied(g)
    <3>1. /\ op' = [op EXCEPT ![g] = @ + 1] /\ UNCHANGED <<adapter, outbox, applied, pc, seg, todo>>
          /\ pc[g] = "apply" /\ op[g] <= Len(S(g).ops)
      BY <1>14, <2>1 DEF ApplyOp
    <3>2. PlaceTypes'
      BY <1>0, <3>1 DEF PlaceTypes
    <3>3. CallTypes' /\ RecordTypes' /\ AdapterTypes' /\ ServerTypes'
      BY <1>0, <1>14, <3>1 DEF ApplyOp, CallTypes, RecordTypes, AdapterTypes, ServerTypes
    <3>4. reply[g] = "none" /\ UNCHANGED verdict
      BY <1>14 DEF ApplyOp
    <3>5. RowOK(g)'
      BY <1>0, <1>a, <2>0, <3>1, <3>4 DEF RowOK, PlaceTypes, Playing, S, CallAt
    <3> QED
      BY <3>2, <3>3, <3>5 DEF ThreadTypes
  <2>2. CASE ~Applied(g)
    <3>1. Ask(g, "scene", Op(g)) /\ UNCHANGED <<pc, seg, op, todo, verdict, active, mirror>>
          /\ applied' = [applied EXCEPT ![g] = @ \cup {Op(g)}] /\ pc[g] = "apply"
          /\ op[g] <= Len(S(g).ops)
      BY <1>14, <2>2 DEF ApplyOp
    <3>2. /\ CallTypes' /\ outbox' \subseteq Requests /\ call'[g] # NoCall /\ reply'[g] = "waiting"
          /\ call'[g] = [by |-> g, seg |-> seg[g], kind |-> "scene", arg |-> Op(g)]
      BY <1>0, <2>0, <3>1, AskTyped DEF CallTypes
    <3>3. PlaceTypes' /\ AdapterTypes' /\ ServerTypes'
      BY <1>0, <1>14, <3>1, <3>2 DEF ApplyOp, PlaceTypes, AdapterTypes, ServerTypes
    <3>4. RecordTypes'
      BY <1>0, <1>14, <2>0, <3>1 DEF ApplyOp, RecordTypes
    <3>5. RowOK(g)'
      BY <1>0, <3>1, <3>2 DEF RowOK, Playing, S, CallAt, Op
    <3> QED
      BY <3>2, <3>3, <3>4, <3>5 DEF ThreadTypes
  <2> QED
    BY <2>1, <2>2
<1>15. ASSUME OpApplied(g) PROVE ThreadTypes' /\ ServerTypes' /\ RowOK(g)'
  <2>h. /\ CallTypes' /\ call'[g] = NoCall /\ reply'[g] = "none"
    BY <1>0, <1>15, HeardTyped DEF OpApplied, CallTypes
  <2>o. reply[g] # "raised" => call[g].arg \in SceneOps /\ op[g] <= Len(S(g).ops)
    BY <1>0, <1>15, ChainFacts DEF OpApplied, Op, S, RowOK, CallAt
  <2>m. mirror' \in [objects : SUBSET Objects, attached : SUBSET Objects]
    <3>1. CASE reply[g] = "raised"
      BY <1>0, <1>15, <3>1 DEF OpApplied, AdapterTypes
    <3>2. CASE reply[g] # "raised"
      BY <1>0, <1>15, <2>o, <3>2 DEF OpApplied, Mirrored, SceneOps, AdapterTypes
    <3> QED
      BY <3>1, <3>2
  <2>1. PlaceTypes'
    <3>1. op[g] + 1 \in Nat
      BY <1>0 DEF PlaceTypes
    <3> QED
      BY <1>0, <1>15, <3>1 DEF OpApplied, PlaceTypes, Places
  <2>2. CallTypes'
    BY <1>0, <1>15, <2>h DEF OpApplied, CallTypes
  <2>3. RecordTypes'
    BY <1>0, <1>15 DEF OpApplied, RecordTypes
  <2>4. AdapterTypes'
    BY <1>0, <1>15, <2>m DEF OpApplied, AdapterTypes
  <2>5. ServerTypes'
    BY <1>0, <1>15 DEF OpApplied, ServerTypes
  <2>6. RowOK(g)'
    BY <1>0, <1>15, <1>a, <2>h, <2>o DEF OpApplied, RowOK, PlaceTypes, CallTypes, RecordTypes, Playing, S, CallAt
  <2> QED
    BY <2>1, <2>2, <2>3, <2>4, <2>5, <2>6 DEF ThreadTypes
<1>16. ASSUME OpsDone(g) PROVE ThreadTypes' /\ ServerTypes' /\ RowOK(g)'
  <2>1. \/ /\ Goto(g, "aim") /\ todo' = [todo EXCEPT ![g] = Switches(g)]
           /\ UNCHANGED <<seg, op, verdict>>
        \/ Goto(g, "report") /\ UNCHANGED <<seg, op, todo>>
           /\ \E v \in {"aborted", "succeeded"} : verdict' = [verdict EXCEPT ![g] = v]
        \/ /\ Goto(g, "apply") /\ seg[g] # Len(Program[g]) /\ UNCHANGED <<todo, verdict>>
           /\ seg' = [seg EXCEPT ![g] = @ + 1] /\ op' = [op EXCEPT ![g] = 1]
    BY <1>16 DEF OpsDone, Advance, Outcome
  <2>2. pc[g] = "apply" /\ reply[g] = "none" /\ UNCHANGED <<call, reply>>
    BY <1>16 DEF OpsDone
  <2>c1. ASSUME Goto(g, "aim") /\ todo' = [todo EXCEPT ![g] = Switches(g)] /\ UNCHANGED <<seg, op, verdict>>
        PROVE  PlaceTypes' /\ RowOK(g)'
    <3>2. PlaceTypes'
      BY <1>0, <1>b, <2>c1, <2>2 DEF PlaceTypes, Places
    <3>3. RowOK(g)'
      BY <1>0, <1>a, <2>c1, <2>2 DEF RowOK, PlaceTypes, RecordTypes, Playing, S, CallAt
    <3> QED
      BY <3>2, <3>3
  <2>c2. ASSUME Goto(g, "report") /\ UNCHANGED <<seg, op, todo>> /\ \E v \in {"aborted", "succeeded"} : verdict' = [verdict EXCEPT ![g] = v]
        PROVE  PlaceTypes' /\ RowOK(g)'
    <3>2. PlaceTypes'
      BY <1>0, <1>b, <2>c2, <2>2 DEF PlaceTypes, Places
    <3>3. RowOK(g)'
      BY <1>0, <1>a, <2>c2, <2>2 DEF RowOK, PlaceTypes, RecordTypes, Playing, S, CallAt
    <3> QED
      BY <3>2, <3>3
  <2>c3. ASSUME Goto(g, "apply") /\ seg[g] # Len(Program[g]) /\ UNCHANGED <<todo, verdict>> /\ seg' = [seg EXCEPT ![g] = @ + 1] /\ op' = [op EXCEPT ![g] = 1]
        PROVE  PlaceTypes' /\ RowOK(g)'
    <3>1. seg[g] + 1 \in DOMAIN Program[g] /\ seg[g] + 1 \in Nat /\ seg'[g] = seg[g] + 1
      BY <1>0, <1>a, <2>c3 DEF PlaceTypes
    <3>2. PlaceTypes'
      BY <1>0, <2>c3, <3>1, <2>2 DEF PlaceTypes, Places
    <3>4. S(g)' = Program[g][seg[g] + 1] /\ Len(Program[g][seg[g] + 1].ops) \in Nat
      BY <1>a, <3>1 DEF S
    <3>3. RowOK(g)'
      BY <1>0, <2>c3, <3>1, <3>4, <2>2 DEF RowOK, PlaceTypes, Playing, CallAt
    <3> QED
      BY <3>2, <3>3
  <2>p. PlaceTypes' /\ RowOK(g)'
    BY <2>1, <2>c1, <2>c2, <2>c3
  <2>4. RecordTypes'
    BY <1>0, <1>16, <2>1 DEF OpsDone, RecordTypes
  <2>5. CallTypes' /\ AdapterTypes' /\ ServerTypes'
    BY <1>0, <1>16 DEF OpsDone, CallTypes, AdapterTypes, ServerTypes
  <2> QED
    BY <2>4, <2>5, <2>p DEF ThreadTypes
<1>17. ASSUME Drive(g) PROVE ThreadTypes' /\ ServerTypes' /\ RowOK(g)'
  <2>1. /\ CallTypes' /\ outbox' \subseteq Requests /\ call'[g] # NoCall /\ reply'[g] = "waiting"
        /\ call'[g] = [by |-> g, seg |-> seg[g], kind |-> "drive", arg |-> Nothing]
    BY <1>0, <1>17, AskTyped DEF Drive, CallTypes
  <2>2. PlaceTypes' /\ RecordTypes' /\ AdapterTypes' /\ ServerTypes'
    BY <1>0, <1>17, <2>1 DEF Drive, PlaceTypes, RecordTypes, AdapterTypes, ServerTypes
  <2>3. RowOK(g)'
    BY <1>0, <1>17, <2>1 DEF Drive, RowOK, Playing, S, CallAt
  <2> QED
    BY <2>1, <2>2, <2>3 DEF ThreadTypes
<1>18. ASSUME DriveHeard(g) PROVE ThreadTypes' /\ ServerTypes' /\ RowOK(g)'
  <2>h. /\ CallTypes' /\ call'[g] = NoCall /\ reply'[g] = "none"
    BY <1>0, <1>18, HeardTyped DEF DriveHeard, CallTypes
  <2>1. \/ Goto(g, "report") /\ UNCHANGED <<seg, op>>
           /\ \E v \in {"aborted", "succeeded"} : verdict' = [verdict EXCEPT ![g] = v]
        \/ /\ Goto(g, "apply") /\ seg[g] # Len(Program[g]) /\ UNCHANGED verdict
           /\ seg' = [seg EXCEPT ![g] = @ + 1] /\ op' = [op EXCEPT ![g] = 1]
    BY <1>18 DEF DriveHeard, Advance, Outcome
  <2>2. pc[g] = "drive" /\ UNCHANGED todo
    BY <1>18 DEF DriveHeard
  <2>c1. ASSUME Goto(g, "report") /\ UNCHANGED <<seg, op>> /\ \E v \in {"aborted", "succeeded"} : verdict' = [verdict EXCEPT ![g] = v]
        PROVE  PlaceTypes' /\ RowOK(g)'
    <3>2. PlaceTypes'
      BY <1>0, <1>b, <2>c1, <2>2, <2>h DEF PlaceTypes, Places
    <3>3. RowOK(g)'
      BY <1>0, <1>a, <2>c1, <2>2, <2>h DEF RowOK, PlaceTypes, RecordTypes, Playing, S, CallAt
    <3> QED
      BY <3>2, <3>3
  <2>c2. ASSUME Goto(g, "apply") /\ seg[g] # Len(Program[g]) /\ UNCHANGED verdict /\ seg' = [seg EXCEPT ![g] = @ + 1] /\ op' = [op EXCEPT ![g] = 1]
        PROVE  PlaceTypes' /\ RowOK(g)'
    <3>1. seg[g] + 1 \in DOMAIN Program[g] /\ seg[g] + 1 \in Nat /\ seg'[g] = seg[g] + 1
      BY <1>0, <1>a, <2>c2 DEF PlaceTypes
    <3>2. PlaceTypes'
      BY <1>0, <2>c2, <3>1, <2>2, <2>h DEF PlaceTypes, Places
    <3>3. RowOK(g)'
      BY <1>0, <1>a, <2>c2, <3>1, <2>2, <2>h DEF RowOK, PlaceTypes, Playing, S, CallAt
    <3> QED
      BY <3>2, <3>3
  <2>p. PlaceTypes' /\ RowOK(g)'
    BY <2>1, <2>c1, <2>c2
  <2>4. results' \in [Goals -> Seq(BOOLEAN)]
    <3>1. results \in [Goals -> Seq(BOOLEAN)] /\ Append(results[g], reply[g] = "yes") \in Seq(BOOLEAN)
      BY <1>0 DEF RecordTypes
    <3>2. \/ UNCHANGED results
          \/ results' = [results EXCEPT ![g] = Append(@, reply[g] = "yes")]
      BY <1>18 DEF DriveHeard
    <3> QED
      BY <3>1, <3>2
  <2>5. RecordTypes'
    BY <1>0, <1>18, <2>1, <2>4 DEF DriveHeard, RecordTypes
  <2>6. AdapterTypes' /\ ServerTypes'
    BY <1>0, <1>18 DEF DriveHeard, AdapterTypes, ServerTypes
  <2> QED
    BY <2>h, <2>5, <2>6, <2>p DEF ThreadTypes
<1> QED
  BY <1>1, <1>2, <1>3, <1>4, <1>5, <1>6, <1>7, <1>8, <1>9, <1>10, <1>11, <1>12, <1>13, <1>14, <1>15, <1>16, <1>17, <1>18 DEF Turn, Thread

LEMMA TypedStep ==
  ASSUME TaskAssumption, Typed, [Next]_vars PROVE Typed'
<1>1. CASE UNCHANGED vars
  BY <1>1 DEF vars, place, adapter, record, server, history, Typed, ThreadTypes, PlaceTypes, CallTypes, RecordTypes, AdapterTypes, ServerTypes,
              SolverOK, Rows, RowOK, CallAt, S, Op, Links
<1>2. ASSUME NEW g \in Goals, Turn(g) PROVE Typed'
  <2>1. ThreadTypes' /\ ServerTypes' /\ RowOK(g)'
    BY <1>2, TurnTyped
  <2>2. \A h \in Goals \ {g} : RowOK(h)'
    BY <1>2, OnlyOwnRow, RowFrame DEF Typed, Rows
  <2>3. SolverOK'
    BY <1>2, TurnLeavesServer DEF Typed, SolverOK, ServerStill
  <2> QED
    BY <2>1, <2>2, <2>3 DEF Typed, Rows
<1>3. CASE Server
  <2>1. ServerTypes' /\ SolverOK'
    BY <1>3, ServerTyped
  <2>2. ThreadTypes'
    BY <1>3, ServerMovesNobody DEF Typed, ThreadTypes, PlaceTypes, CallTypes, Replies, RecordTypes, AdapterTypes
  <2>3. ASSUME NEW h \in Goals PROVE RowOK(h)'
    <3>1. CASE reply'[h] = reply[h]
      BY <1>3, <3>1, ServerMovesNobody, RowFrame DEF Typed, Rows, SameRow
    <3>2. CASE call[h] # NoCall /\ reply'[h] \in {"yes", "no"}
      BY <1>3, <3>2, ServerMovesNobody, AnsweredRow DEF Typed, Rows
    <3> QED
      BY <1>3, <3>1, <3>2, ServerMovesNobody
  <2> QED
    BY <2>1, <2>2, <2>3 DEF Typed, Rows
<1> QED
  BY <1>1, <1>2, <1>3 DEF Next, Turn

(* The state has its types: a thread waits in _await exactly while its     *)
(* call is open, within its chain, whatever the server answers or loses.   *)
THEOREM TaskServerTyped == Spec => []TaskServerTypeOK
<1>1. Init => Typed
  BY TypedInit, TaskAssumption
<1>2. Typed /\ [Next]_vars => Typed'
  BY TypedStep, TaskAssumption
<1>3. Typed => TaskServerTypeOK
  <2> SUFFICES ASSUME Typed PROVE TaskServerTypeOK
    OBVIOUS
  <2>1. inProgress \in BOOLEAN /\ off \subseteq KnownLinks /\ doubt \subseteq Doubts
    BY DEF Typed, ThreadTypes, AdapterTypes, ServerTypes
  <2>2. (solving.kind = "drive") = (driving.arg = "solving")
    BY DEF Typed, SolverOK
  <2>3. ASSUME NEW g \in Goals
        PROVE  /\ seg[g] \in DOMAIN Program[g] /\ op[g] \in 1 .. Len(S(g).ops) + 1
               /\ (reply[g] \in {"none", "raised"}) = (call[g] = NoCall)
               /\ call[g] # NoCall => Working(g)
               /\ verdict[g] \in {"none", "rejected", "aborted", "solved", "succeeded"}
    BY <2>3 DEF Typed, ThreadTypes, RecordTypes, Rows, RowOK, CallAt, Working
  <2> QED
    BY <2>1, <2>2, <2>3 DEF TaskServerTypeOK
<1> QED
  BY <1>1, <1>2, <1>3, PTL DEF Spec

-----------------------------------------------------------------------------
(* Requests: whatever the server has is awaited, or its task is lost.      *)

Fine(r) == Expected(r) \/ Lost(r)
NewRequest(g) ==
  /\ reply[g] = "none" /\ outbox' = outbox \cup {call'[g]} /\ UNCHANGED <<pc, seg, solved, verdict>>
  /\ call'[g] # NoCall /\ reply'[g] = "waiting" /\ call'[g] \in Requests /\ call'[g].by = g

LEMMA TurnOutbox ==
  ASSUME TaskAssumption, Typed, NEW g \in Goals, Turn(g)
  PROVE  (outbox' \subseteq outbox /\ call'[g] \in {call[g], NoCall}) \/ NewRequest(g)
<1>0. call \in [Goals -> Requests \cup {NoCall}]
  BY DEF Typed, ThreadTypes, CallTypes
<1>1. ASSUME NEW kind, NEW arg, Ask(g, kind, arg), reply[g] = "none",
             UNCHANGED <<pc, seg, solved, verdict>>
      PROVE  NewRequest(g)
  <2>1. /\ call'[g] = [by |-> g, seg |-> seg[g], kind |-> kind, arg |-> arg]
        /\ reply'[g] = "waiting" /\ outbox' = outbox \cup {call'[g]}
    BY <1>1 DEF Ask, Typed, ThreadTypes, CallTypes
  <2>2. ThreadTypes' /\ ServerTypes' /\ RowOK(g)'
    BY TurnTyped
  <2>3. call'[g] \in Requests \cup {NoCall} /\ call'[g] # NoCall
    BY <2>1, <2>2 DEF ThreadTypes, CallTypes, RowOK
  <2> QED
    BY <1>1, <2>1, <2>3 DEF NewRequest
<1>2. CASE SwitchPlanner(g)
  <2>1. CASE todo[g] = {}
    BY <1>2, <2>1 DEF SwitchPlanner, adapter
  <2>2. CASE todo[g] # {}
    <3>1. PICK p \in todo[g] : Ask(g, "planner", p)
      BY <1>2, <2>2 DEF SwitchPlanner
    <3>2. reply[g] = "none" /\ UNCHANGED <<pc, seg, solved, verdict>>
      BY <1>2, <2>2 DEF SwitchPlanner, record
    <3> QED
      BY <3>1, <3>2, <1>1
  <2> QED
    BY <2>1, <2>2
<1>3. CASE PlanCall(g)
  <2>1. CASE pc[g] # "solve" /\ S(g).contacts = {}
    BY <1>3, <2>1 DEF PlanCall, adapter
  <2>2. CASE ~(pc[g] # "solve" /\ S(g).contacts = {})
    <3>1. reply[g] = "none" /\ UNCHANGED <<pc, seg, solved, verdict>>
      BY <1>3, <2>2 DEF PlanCall, record
    <3>2. \/ Ask(g, "links", Links(g, FALSE)) \/ Ask(g, "solve", Nothing)
          \/ Ask(g, "links", Links(g, TRUE))
      BY <1>3, <2>2 DEF PlanCall
    <3>3. \E kind \in {"links", "solve"} : \E arg \in {Links(g, FALSE), Links(g, TRUE), Nothing} :
            Ask(g, kind, arg)
      BY <3>2, Zenon
    <3> QED
      BY <3>1, <3>3, <1>1
  <2> QED
    BY <2>1, <2>2
<1>4. CASE ApplyOp(g)
  <2>1. CASE Applied(g)
    BY <1>4, <2>1 DEF ApplyOp, adapter
  <2>2. CASE ~Applied(g)
    <3>1. Ask(g, "scene", Op(g)) /\ reply[g] = "none" /\ UNCHANGED <<pc, seg, solved, verdict>>
      BY <1>4, <2>2 DEF ApplyOp
    <3> QED
      BY <3>1, <1>1
  <2> QED
    BY <2>1, <2>2
<1>5. CASE Drive(g)
  <2>1. Ask(g, "drive", Nothing) /\ reply[g] = "none" /\ UNCHANGED <<pc, seg, solved, verdict>>
    BY <1>5 DEF Drive, place, record
  <2> QED
    BY <2>1, <1>1
<1>6. CASE GoalCallback(g) \/ GiveUp(g) \/ ExecuteCallback(g) \/ Report(g) \/ Segment(g)
           \/ PlannerSwitched(g) \/ LinksAllowed(g) \/ SolveHeard(g)
  BY <1>0, <1>6 DEF adapter, Heard, GoalCallback, GiveUp, ExecuteCallback, Report, Segment, PlannerSwitched,
              LinksAllowed, SolveHeard
<1>7. CASE LinksRestored(g) \/ NextSegment(g) \/ StartPlayback(g) \/ OpApplied(g)
           \/ OpsDone(g) \/ DriveHeard(g)
  BY <1>0, <1>7 DEF adapter, Heard, LinksRestored, NextSegment, StartPlayback, OpApplied, OpsDone, DriveHeard
<1> QED
  BY <1>2, <1>3, <1>4, <1>5, <1>6, <1>7 DEF Turn, Thread

(* A thread's step leaves its own open requests awaited or lost.           *)
LEMMA TurnKeepsFine ==
  ASSUME TaskAssumption, Typed, NEW g \in Goals, Turn(g), NEW r \in Requests, r.by = g, Fine(r)
  PROVE  Fine(r)'
<1> USE DEF Goto, Stay, Heard, Abort, place, adapter, record
<1>0. PlaceTypes /\ CallTypes /\ RecordTypes /\ RowOK(g)
  BY DEF Typed, Rows, ThreadTypes
<1>1. CASE GoalCallback(g) \/ ExecuteCallback(g) \/ Report(g) \/ Segment(g) \/ StartPlayback(g)
  <2>1. Lost(r) /\ pc[g] \in {"idle", "accepted", "report", "segment", "planned"} /\ reply[g] = "none"
    BY <1>0, <1>1 DEF GoalCallback, ExecuteCallback, Report, Segment, StartPlayback, Fine, Expected,
                      RowOK, CallAt, Lost, CallTypes, Replies
  <2>2. pc[g] = "report" /\ verdict[g] = "aborted"
    BY <2>1 DEF Lost
  <2>3. Report(g)
    BY <1>1, <2>2 DEF GoalCallback, ExecuteCallback, Segment, StartPlayback
  <2> QED
    BY <1>0, <2>2, <2>3 DEF Report, PlaceTypes, Fine, Lost
<1>2. CASE GiveUp(g)
  <2>1. reply'[g] = "raised" /\ reply[g] = "waiting" /\ UNCHANGED <<pc, solved, verdict>>
    BY <1>0, <1>2 DEF GiveUp, CallTypes
  <2>2. Expected(r) => CallAt(g)
    BY <1>0, <2>1 DEF Expected, RowOK
  <2> QED
    BY <2>1, <2>2 DEF Fine, Lost, Expected, CallAt
<1>3. CASE SwitchPlanner(g) \/ ApplyOp(g) \/ OpsDone(g) \/ Drive(g)
  <2>1. pc[g] \in {"ensure", "aim", "apply", "drive"} /\ reply[g] = "none"
    BY <1>3 DEF SwitchPlanner, ApplyOp, OpsDone, Drive
  <2> QED
    BY <2>1 DEF Fine, Expected, Lost
<1>4. CASE PlanCall(g) \/ NextSegment(g)
  <2>1. pc[g] \in {"allow", "solve", "restore", "next"} /\ reply[g] = "none"
    BY <1>0, <1>4 DEF PlanCall, NextSegment, RowOK, CallAt, CallTypes, Replies
  <2>2. pc[g] \in {"restore", "next"} /\ ~solved[g] /\ r.kind = "solve"
    BY <2>1 DEF Fine, Expected, Lost
  <2>3. CASE NextSegment(g)
    BY <1>0, <2>2, <2>3 DEF NextSegment, PlaceTypes, RecordTypes, Fine, Lost
  <2>4. CASE PlanCall(g)
    <3>1. UNCHANGED solved /\ (pc' = pc \/ Goto(g, "next"))
      BY <2>2, <2>4 DEF PlanCall
    <3> QED
      BY <1>0, <2>2, <3>1 DEF PlaceTypes, Fine, Lost
  <2> QED
    BY <1>4, <2>3, <2>4
<1>5. CASE PlannerSwitched(g) \/ LinksAllowed(g) \/ OpApplied(g) \/ DriveHeard(g)
  <2>1. /\ pc[g] \in {"ensure", "aim", "allow", "apply", "drive"}
        /\ reply[g] \in {"yes", "no", "raised"}
    BY <1>5 DEF PlannerSwitched, LinksAllowed, OpApplied, DriveHeard
  <2>2. reply[g] = "raised"
    BY <2>1 DEF Fine, Expected, Lost
  <2>3. Abort(g)
    BY <1>5, <2>2 DEF PlannerSwitched, LinksAllowed, OpApplied, DriveHeard
  <2> QED
    BY <1>0, <2>3 DEF PlaceTypes, RecordTypes, Fine, Lost
<1>6. CASE SolveHeard(g)
  <2>1. pc[g] = "solve" /\ reply[g] = "raised" /\ r.kind = "solve"
    BY <1>6 DEF SolveHeard, Fine, Expected, Lost
  <2> QED
    BY <1>0, <1>6, <2>1 DEF SolveHeard, PlaceTypes, RecordTypes, Fine, Lost
<1>7. CASE LinksRestored(g)
  <2>1. /\ pc[g] = "restore" /\ reply[g] \in {"yes", "no", "raised"} /\ UNCHANGED solved
        /\ IF reply[g] = "yes" THEN Goto(g, "next") ELSE Abort(g)
    BY <1>7 DEF LinksRestored
  <2>0. pc[g] = "restore" /\ reply[g] # "waiting"
    BY <2>1
  <2>2. reply[g] = "raised" \/ (~solved[g] /\ r.kind = "solve")
    BY <2>0, Zenon DEF Fine, Expected, Lost
  <2> QED
    BY <1>0, <2>1, <2>2 DEF PlaceTypes, RecordTypes, Fine, Lost
<1> QED
  BY <1>1, <1>2, <1>3, <1>4, <1>5, <1>6, <1>7 DEF Turn, Thread

LEMMA OthersFine ==
  ASSUME NEW r, SameRow(r.by), Fine(r) PROVE Fine(r)'
BY DEF SameRow, Fine, Expected, Lost

(* An answer settles one request and no other.                             *)
LEMMA AnswerKeepsFine ==
  ASSUME Typed, NEW r \in Requests, NEW q \in Requests, q # r, Fine(q),
         UNCHANGED <<pc, call, verdict, solved>>,
         \/ UNCHANGED reply
         \/ call[r.by] = r /\ \E v \in {"yes", "no"} : reply' = [reply EXCEPT ![r.by] = v]
  PROVE  Fine(q)'
<1>1. r.by \in Goals /\ q.by \in Goals /\ r # NoCall
  BY RequestFields
<1>2. CASE UNCHANGED reply
  BY <1>2 DEF Fine, Expected, Lost
<1>3. CASE call[r.by] = r /\ \E v \in {"yes", "no"} : reply' = [reply EXCEPT ![r.by] = v]
  <2>1. reply[r.by] # "raised"
    BY <1>1, <1>3 DEF Typed, Rows, RowOK
  <2>2. reply \in [Goals -> Replies]
    BY DEF Typed, ThreadTypes, CallTypes
  <2>3. CASE q.by = r.by
    BY <1>3, <2>1, <2>3 DEF Fine, Expected, Lost
  <2>4. CASE q.by # r.by
    BY <1>1, <1>3, <2>2, <2>4 DEF Fine, Expected, Lost
  <2> QED
    BY <2>3, <2>4
<1> QED
  BY <1>2, <1>3

LEMMA RequestsTurn ==
  ASSUME TaskAssumption, Typed, RequestsOK, NEW g \in Goals, Turn(g)
  PROVE  RequestsOK'
<1>1. UNCHANGED <<solving, driving>>
  BY TurnLeavesServer DEF ServerStill
<1>2. ASSUME NEW r \in Requests, Fine(r) PROVE Fine(r)'
  <2>1. CASE r.by = g
    BY <1>2, <2>1, TurnKeepsFine
  <2>2. CASE r.by # g
    BY <1>2, <2>2, OnlyOwnRow, OthersFine, RequestFields DEF Typed
  <2> QED
    BY <2>1, <2>2
<1>3. outbox \subseteq Requests /\ solving \in Solves \cup {NoCall} /\ driving \in Drives \cup {NoCall}
  BY DEF Typed, ServerTypes
<1>4. solving.kind = "solve" =>
        /\ Request(solving) \in Requests /\ Request(solving).kind = "solve" /\ Fine(Request(solving))
        /\ Request(solving) \notin outbox
  BY <1>3, SolveFields DEF RequestsOK, Fine, NoCall
<1>5. driving # NoCall =>
        /\ Request(driving) \in Requests /\ Request(driving).kind = "drive" /\ Fine(Request(driving))
        /\ Request(driving) \notin outbox
  BY <1>3, DriveFields DEF RequestsOK, Fine
<1>6. ASSUME NewRequest(g), NEW r, r = call'[g] PROVE Fine(r)'
  BY <1>6 DEF NewRequest, Fine, Expected
<1>7. ASSUME NewRequest(g), NEW r \in Requests, Fine(r), r.kind \in {"solve", "drive"}
      PROVE  r # call'[g]
  <2>1. CASE r.by # g
    BY <1>7, <2>1 DEF NewRequest
  <2>2. CASE r.by = g
    <3>1. RowOK(g)'
      BY TurnTyped
    <3> QED
      BY <1>7, <2>2, <3>1 DEF NewRequest, Fine, Expected, Lost, RowOK, CallAt
  <2> QED
    BY <2>1, <2>2
<1>8. \A r \in outbox : Fine(r)
  BY DEF RequestsOK, Fine
<1>9. outbox' \subseteq outbox \/ NewRequest(g)
  BY TurnOutbox
<1>10. \A r \in outbox' : Fine(r)'
  <2>1. CASE outbox' \subseteq outbox
    BY <2>1, <1>2, <1>3, <1>8
  <2>2. CASE NewRequest(g)
    BY <2>2, <1>2, <1>3, <1>6, <1>8 DEF NewRequest
  <2> QED
    BY <1>9, <2>1, <2>2
<1>11. solving.kind = "solve" => Request(solving) \notin outbox' /\ Fine(Request(solving))'
  BY <1>1, <1>2, <1>4, <1>7, <1>9 DEF NewRequest
<1>12. driving # NoCall => Request(driving) \notin outbox' /\ Fine(Request(driving))'
  BY <1>1, <1>2, <1>5, <1>7, <1>9 DEF NewRequest
<1> QED
  BY <1>1, <1>10, <1>11, <1>12 DEF RequestsOK, Fine, Request

-----------------------------------------------------------------------------
(* Answers: one goes to the thread that still waits for it, or to nobody.  *)
Settled(r) ==
  \/ UNCHANGED reply
  \/ call[r.by] = r /\ \E v \in {"yes", "no"} : reply' = [reply EXCEPT ![r.by] = v]

LEMMA RequestsServer ==
  ASSUME TaskAssumption, Typed, RequestsOK, Server
  PROVE  RequestsOK'
<1> DEFINE inSolve == Request(solving)
           inDrive == Request(driving)
<1>1. UNCHANGED <<pc, call, verdict, solved>>
  BY ServerMovesNobody
<1>2. outbox \subseteq Requests /\ solving \in Solves \cup {NoCall} /\ driving \in Drives \cup {NoCall}
  BY DEF Typed, ServerTypes
<1>3. \A r \in outbox : Fine(r)
  BY DEF RequestsOK, Fine
<1>4. solving.kind = "solve" =>
        /\ solving # NoCall /\ inSolve \in Requests /\ inSolve.kind = "solve" /\ Fine(inSolve)
        /\ inSolve \notin outbox
  BY <1>2, SolveFields DEF RequestsOK, Fine, NoCall
<1>5. driving # NoCall =>
        /\ inDrive \in Requests /\ inDrive.kind = "drive" /\ Fine(inDrive) /\ inDrive \notin outbox
  BY <1>2, DriveFields DEF RequestsOK, Fine
<1>6. ASSUME NEW r \in Requests, Settled(r), NEW q \in Requests, q # r, Fine(q)
      PROVE  Fine(q)'
  BY <1>1, <1>6, AnswerKeepsFine DEF Settled
<1>7. ASSUME NEW r, NEW ok, Answer(r, ok) PROVE Settled(r)
  BY <1>7 DEF Answer, Settled
<1>8. ASSUME UNCHANGED reply, NEW q, Fine(q) PROVE Fine(q)'
  BY <1>1, <1>8 DEF Fine, Expected, Lost
<1>9. \A r : r \notin outbox \ {r}
  OBVIOUS
<1>10. ASSUME NEW r \in outbox, outbox' = outbox \ {r}, Settled(r), UNCHANGED <<solving, driving>>
       PROVE  RequestsOK'
  <2>1. \A q \in outbox' : Fine(q)'
    BY <1>2, <1>3, <1>6, <1>10
  <2>2. solving.kind = "solve" => inSolve \notin outbox' /\ Fine(inSolve)'
    BY <1>2, <1>4, <1>6, <1>10
  <2>3. driving # NoCall => inDrive \notin outbox' /\ Fine(inDrive)'
    BY <1>2, <1>5, <1>6, <1>10
  <2> QED
    BY <1>10, <2>1, <2>2, <2>3 DEF RequestsOK, Fine, Request
<1>11. ASSUME NEW r \in outbox, SetPlanner(r) \/ SetLinkCollision(r) \/ SceneService(r)
       PROVE  RequestsOK'
  <2>1. outbox' = outbox \ {r} /\ UNCHANGED <<solving, driving>> /\ \E ok : Answer(r, ok)
    BY <1>11 DEF SetPlanner, SetLinkCollision, SceneService, Serves, Fails, Take
  <2> QED
    BY <2>1, <1>7, <1>10
<1>12. ASSUME NEW r \in outbox, SolveBegin(r) PROVE RequestsOK'
  <2>1. /\ r \in Requests /\ r.kind = "solve" /\ outbox' = outbox \ {r}
        /\ UNCHANGED <<reply, driving>> /\ solving' = [r EXCEPT !.arg = planner]
    BY <1>2, <1>12 DEF SolveBegin, Take
  <2>2. Request(solving') = r
    BY <2>1 DEF Request, Requests
  <2>3. \A q \in outbox' : Fine(q)'
    BY <1>3, <1>8, <2>1
  <2>4. Fine(r)'
    BY <1>3, <1>8, <2>1
  <2>5. driving # NoCall => inDrive \notin outbox' /\ Fine(inDrive)'
    BY <1>5, <1>8, <2>1
  <2>6. solving'.kind = "solve" =>
          /\ Request(solving') \notin outbox' /\ (Expected(Request(solving)) \/ Lost(Request(solving)))'
    <3>1. ASSUME NEW q, q = Request(solving') PROVE (Expected(q) \/ Lost(q))'
      BY <2>2, <2>4, <3>1 DEF Fine
    <3> QED
      BY <2>1, <2>2, <3>1
  <2> QED
    BY <2>1, <2>3, <2>5, <2>6 DEF RequestsOK, Fine, Request
<1>13. ASSUME SolveEnd PROVE RequestsOK'
  <2>1. /\ solving.kind = "solve" /\ solving' = NoCall /\ UNCHANGED <<outbox, driving>>
        /\ Settled(inSolve)
    BY <1>7, <1>13 DEF SolveEnd
  <2>2. \A q \in outbox' : Fine(q)'
    BY <1>2, <1>3, <1>4, <1>6, <2>1
  <2>3. driving # NoCall => inDrive \notin outbox' /\ Fine(inDrive)'
    BY <1>4, <1>5, <1>6, <2>1
  <2> QED
    BY <2>1, <2>2, <2>3 DEF RequestsOK, Fine, Request, inDrive, NoCall
<1>14. ASSUME NEW r \in outbox, DriveGoal(r) PROVE RequestsOK'
  <2>1. /\ r \in Requests /\ r.kind = "drive" /\ outbox' = outbox \ {r} /\ UNCHANGED solving
    BY <1>2, <1>14 DEF DriveGoal, Take
  <2>2. CASE driving # NoCall
    <3>1. UNCHANGED driving /\ Answer(r, FALSE)
      BY <1>14, <2>2 DEF DriveGoal
    <3> QED
      BY <1>7, <1>10, <2>1, <3>1
  <2>3. CASE driving = NoCall
    <3>1. /\ UNCHANGED reply
          /\ driving' = [r EXCEPT !.arg = "moving"] \/ driving' = [r EXCEPT !.arg = "accepted"]
      BY <1>14, <2>3 DEF DriveGoal
    <3>2. Request(driving') = r
      BY <2>1, <3>1 DEF Request, Requests
    <3>3. \A q \in outbox' : Fine(q)'
      BY <1>3, <1>8, <2>1, <3>1
    <3>4. ASSUME NEW q, q = Request(driving') PROVE (Expected(q) \/ Lost(q))'
      BY <1>3, <1>8, <3>1, <3>2, <3>4 DEF Fine
    <3>5. solving.kind = "solve" => inSolve \notin outbox' /\ Fine(inSolve)'
      BY <1>4, <1>8, <2>1, <3>1
    <3>6. /\ Request(driving') \notin outbox'
          /\ (Expected(Request(driving)) \/ Lost(Request(driving)))'
      BY <2>1, <3>2, <3>4
    <3> QED
      BY <2>1, <3>3, <3>5, <3>6 DEF RequestsOK, Fine, Request
  <2> QED
    BY <2>2, <2>3
<1>15. ASSUME DriveSolve PROVE RequestsOK'
  <2>0. driving # NoCall
    BY <1>15 DEF DriveSolve, NoCall
  <2>1. /\ UNCHANGED <<reply, outbox>> /\ solving'.kind = "drive"
        /\ driving' = [driving EXCEPT !.arg = "solving"]
    BY <1>2, <1>15, <2>0 DEF DriveSolve, Drives
  <2>2. Request(driving') = inDrive
    BY <1>2, <2>0, <2>1 DEF Request, Drives
  <2>3. \A q \in outbox' : Fine(q)'
    BY <1>3, <1>8, <2>1
  <2>4. ASSUME NEW q, q = Request(driving') PROVE (Expected(q) \/ Lost(q))'
    BY <1>5, <1>8, <2>0, <2>1, <2>2, <2>4 DEF Fine
  <2>5. Request(driving') \notin outbox' /\ (Expected(Request(driving)) \/ Lost(Request(driving)))'
    BY <1>5, <2>0, <2>1, <2>2, <2>4
  <2> QED
    BY <2>1, <2>3, <2>5 DEF RequestsOK, Fine
<1>16. ASSUME DriveSolved PROVE RequestsOK'
  <2>0. driving # NoCall
    BY <1>16 DEF DriveSolved, NoCall
  <2>1. UNCHANGED outbox /\ solving' = NoCall
    BY <1>16 DEF DriveSolved
  <2>2. CASE driving' = [driving EXCEPT !.arg = "moving"] /\ UNCHANGED reply
    <3>2. Request(driving') = inDrive
      BY <1>2, <2>0, <2>2 DEF Request, Drives
    <3>3. \A q \in outbox' : Fine(q)'
      BY <1>3, <1>8, <2>1, <2>2
    <3>4. ASSUME NEW q, q = Request(driving') PROVE (Expected(q) \/ Lost(q))'
      BY <1>5, <1>8, <2>0, <2>2, <3>2, <3>4 DEF Fine
    <3>5. Request(driving') \notin outbox' /\ (Expected(Request(driving)) \/ Lost(Request(driving)))'
      BY <1>5, <2>0, <2>1, <3>2, <3>4
    <3> QED
      BY <2>1, <3>3, <3>5 DEF RequestsOK, Fine, NoCall
  <2>3. CASE driving' = NoCall /\ Answer(Request(driving), FALSE)
    <3>1. Settled(inDrive)
      BY <1>7, <2>3
    <3>2. \A q \in outbox' : Fine(q)'
      BY <1>2, <1>3, <1>5, <1>6, <2>0, <2>1, <3>1
    <3> QED
      BY <2>1, <2>3, <3>2 DEF RequestsOK, Fine, NoCall
  <2> QED
    BY <1>16, <2>2, <2>3 DEF DriveSolved
<1>17. ASSUME DriveEnd PROVE RequestsOK'
  <2>0. driving # NoCall
    BY <1>17 DEF DriveEnd, NoCall
  <2>1. UNCHANGED <<outbox, solving>> /\ driving' = NoCall /\ Settled(inDrive)
    BY <1>7, <1>17 DEF DriveEnd
  <2>2. \A q \in outbox' : Fine(q)'
    BY <1>2, <1>3, <1>5, <1>6, <2>0, <2>1
  <2>3. solving.kind = "solve" => inSolve \notin outbox' /\ Fine(inSolve)'
    BY <1>4, <1>5, <1>6, <2>0, <2>1
  <2> QED
    BY <2>1, <2>2, <2>3 DEF RequestsOK, Fine, Request
<1> QED
  BY <1>11, <1>12, <1>13, <1>14, <1>15, <1>16, <1>17 DEF Server

Core == Typed /\ RequestsOK /\ OneTask

LEMMA RequestsStep ==
  ASSUME TaskAssumption, Typed, RequestsOK, [Next]_vars PROVE RequestsOK'
<1>1. CASE UNCHANGED vars
  BY <1>1 DEF vars, place, adapter, record, server, RequestsOK, Expected, Lost, Request
<1> QED
  BY <1>1, RequestsTurn, RequestsServer DEF Next, Turn

LEMMA OneTaskStep ==
  ASSUME TaskAssumption, Typed, OneTask, [Next]_vars PROVE OneTask'
<1>1. CASE UNCHANGED vars
  BY <1>1 DEF vars, place, history, OneTask, Working
<1>2. CASE Server
  BY <1>2, ServerMovesNobody DEF OneTask, Working
<1>3. ASSUME NEW g \in Goals, Turn(g) PROVE OneTask'
  <2>0. PlaceTypes /\ CallTypes /\ RowOK(g) /\ inProgress \in BOOLEAN
    BY DEF Typed, ThreadTypes, AdapterTypes, Rows
  <2>1. \A h \in Goals : h # g => (Working(h)' <=> Working(h))
    BY <1>3, OnlyOwnRow DEF SameRow, Working, Typed
  <2>2. CASE ExecuteCallback(g)
    <3>1. /\ ~Working(g) /\ Working(g)' /\ inProgress' = TRUE
          /\ overlapped' = (overlapped \/ inProgress)
      BY <2>0, <2>2 DEF ExecuteCallback, Abort, Goto, Working, PlaceTypes
    <3> QED
      BY <2>0, <2>1, <3>1 DEF OneTask
  <2>3. CASE Report(g)
    <3>1. Working(g) /\ ~Working(g)' /\ inProgress' = FALSE /\ UNCHANGED overlapped
      BY <2>0, <2>3 DEF Report, Goto, Working, PlaceTypes, history
    <3> QED
      BY <2>0, <2>1, <3>1 DEF OneTask
  <2>4. CASE ~ExecuteCallback(g) /\ ~Report(g)
    <3>1. UNCHANGED <<inProgress, overlapped>>
      BY <1>3, <2>4 DEF Turn, Thread, history, GoalCallback, GiveUp, Segment, SwitchPlanner,
         PlannerSwitched, PlanCall, LinksAllowed, SolveHeard, LinksRestored, NextSegment,
         StartPlayback, ApplyOp, OpApplied, OpsDone, Drive, DriveHeard
    <3>2. Working(g)' <=> Working(g)
      <4>1. CASE GoalCallback(g) \/ GiveUp(g)
        BY <2>0, <4>1 DEF GoalCallback, GiveUp, Goto, Working, PlaceTypes, place
      <4>2. CASE Segment(g) \/ SwitchPlanner(g) \/ PlannerSwitched(g) \/ PlanCall(g)
        <5>1. pc[g] \in {"segment", "ensure", "aim", "allow", "solve", "restore"}
          BY <4>2 DEF Segment, SwitchPlanner, PlannerSwitched, PlanCall
        <5>2. \/ UNCHANGED pc
              \/ \E l \in {"ensure", "planned", "allow", "drive", "report", "solve", "next"} : Goto(g, l)
          BY <4>2 DEF Segment, SwitchPlanner, PlannerSwitched, PlanCall, Abort
        <5> QED
          BY <2>0, <5>1, <5>2 DEF Goto, Working, PlaceTypes
      <4>3. CASE LinksAllowed(g) \/ SolveHeard(g) \/ LinksRestored(g) \/ NextSegment(g)
        BY <2>0, <4>3 DEF LinksAllowed, SolveHeard, LinksRestored, NextSegment, Abort, Goto,
                          Working, PlaceTypes
      <4>4. CASE StartPlayback(g) \/ ApplyOp(g) \/ OpApplied(g) \/ OpsDone(g)
        BY <2>0, <4>4 DEF StartPlayback, ApplyOp, OpApplied, OpsDone, Advance, Abort, Goto,
                          Working, PlaceTypes
      <4>5. CASE Drive(g) \/ DriveHeard(g)
        BY <2>0, <4>5 DEF Drive, DriveHeard, Advance, Abort, Goto, Working, PlaceTypes, place
      <4> QED
        BY <1>3, <2>4, <4>1, <4>2, <4>3, <4>4, <4>5 DEF Turn, Thread
    <3> QED
      BY <2>1, <3>1, <3>2 DEF OneTask
  <2> QED
    BY <2>2, <2>3, <2>4
<1> QED
  BY <1>1, <1>2, <1>3 DEF Next, Turn

LEMMA CoreInit == ASSUME TaskAssumption, Init PROVE Core
<1>1. Typed
  BY TypedInit
<1>2. RequestsOK
  BY DEF Init, RequestsOK, NoCall
<1>3. OneTask
  BY DEF Init, OneTask, Working
<1> QED
  BY <1>1, <1>2, <1>3 DEF Core

LEMMA CoreStep ==
  ASSUME TaskAssumption, Core, [Next]_vars PROVE Core'
BY TypedStep, RequestsStep, OneTaskStep DEF Core

-----------------------------------------------------------------------------
(* Doubt: while no request of a kind was given up or misreported, every    *)
(* request of that kind the server has is awaited, and served while its    *)
(* task is the only one at work.                                           *)
LEMMA TurnReplies ==
  ASSUME TaskAssumption, Typed, NEW g \in Goals, Turn(g)
  PROVE  /\ reply[g] = "waiting" => GiveUp(g)
         /\ reply'[g] = "raised" => GiveUp(g)
         /\ doubt \subseteq doubt'
         /\ reply'[g] \in {"yes", "no"} => reply[g] = reply'[g] /\ UNCHANGED <<pc, call>>
<1> USE DEF place, adapter, record, history, Heard
<1>0. CallTypes /\ RowOK(g)
  BY DEF Typed, ThreadTypes, Rows
<1>1. CASE GiveUp(g)
  BY <1>0, <1>1 DEF GiveUp, CallTypes
<1>2. CASE GoalCallback(g) \/ ExecuteCallback(g) \/ Report(g) \/ Segment(g) \/ NextSegment(g)
           \/ StartPlayback(g)
  <2>0. doubt \subseteq doubt'
    BY <1>2 DEF GoalCallback, ExecuteCallback, Report, Segment, NextSegment, StartPlayback,
                Typed, ServerTypes
  <2>1. UNCHANGED <<call, reply>> /\ reply[g] = "none"
    BY <1>0, <1>2 DEF GoalCallback, ExecuteCallback, Report, Segment, NextSegment, StartPlayback,
                      RowOK, CallAt, CallTypes, Replies
  <2> QED
    BY <2>0, <2>1
<1>3. CASE SwitchPlanner(g) \/ PlanCall(g) \/ ApplyOp(g) \/ OpsDone(g) \/ Drive(g)
  <2>1. reply[g] = "none" /\ UNCHANGED doubt
    BY <1>3 DEF SwitchPlanner, PlanCall, ApplyOp, OpsDone, Drive
  <2>2. UNCHANGED reply \/ reply' = [reply EXCEPT ![g] = "waiting"]
    BY <1>3 DEF SwitchPlanner, PlanCall, ApplyOp, OpsDone, Drive, Ask
  <2> QED
    BY <1>0, <2>1, <2>2 DEF CallTypes
<1>4. CASE PlannerSwitched(g) \/ LinksAllowed(g) \/ SolveHeard(g) \/ LinksRestored(g)
           \/ OpApplied(g) \/ DriveHeard(g)
  <2>1. reply[g] \in {"yes", "no", "raised"} /\ Heard(g) /\ UNCHANGED doubt
    BY <1>4 DEF PlannerSwitched, LinksAllowed, SolveHeard, LinksRestored, OpApplied, DriveHeard
  <2> QED
    BY <1>0, <2>1 DEF CallTypes
<1> QED
  BY <1>1, <1>2, <1>3, <1>4 DEF Turn, Thread

(* A request given up is counted as doubtful.                              *)
RaisedDoubts ==
  \A g \in Goals : reply[g] = "raised" =>
    /\ pc[g] \in {"ensure", "aim"} => "planner" \in doubt
    /\ pc[g] \in {"allow", "restore"} => "links" \in doubt
    /\ pc[g] = "apply" => "scene" \in doubt

LEMMA DoubtGrows ==
  ASSUME TaskAssumption, Typed, [Next]_vars
  PROVE  doubt \subseteq doubt' /\ (overlapped => overlapped')
<1>1. CASE UNCHANGED vars
  BY <1>1 DEF vars, history
<1>2. CASE Server
  <2>1. doubt \subseteq doubt'
    BY <1>2 DEF Server, history, SetPlanner, SetLinkCollision, SceneService, Serves, Fails,
                SolveBegin, DriveGoal, SolveEnd, DriveSolve, DriveSolved, DriveEnd
  <2> QED
    BY <1>2, <2>1, ServerMovesNobody
<1>3. ASSUME NEW g \in Goals, Turn(g) PROVE doubt \subseteq doubt' /\ (overlapped => overlapped')
  <2>1. doubt \subseteq doubt'
    BY <1>3, TurnReplies
  <2>2. overlapped => overlapped'
    BY <1>3 DEF Turn, Thread, history, GoalCallback, GiveUp, ExecuteCallback, Report, Segment,
         SwitchPlanner, PlannerSwitched, PlanCall, LinksAllowed, SolveHeard, LinksRestored,
         NextSegment, StartPlayback, ApplyOp, OpApplied, OpsDone, Drive, DriveHeard
  <2> QED
    BY <2>1, <2>2
<1> QED
  BY <1>1, <1>2, <1>3 DEF Next, Turn

LEMMA SoundBefore ==
  ASSUME TaskAssumption, Typed, [Next]_vars, NEW kinds, Sound(kinds)' PROVE Sound(kinds)
BY DoubtGrows DEF Sound

LEMMA RaisedStep ==
  ASSUME TaskAssumption, Typed, RaisedDoubts, [Next]_vars PROVE RaisedDoubts'
<1>1. CASE UNCHANGED vars
  BY <1>1 DEF vars, place, adapter, history, RaisedDoubts
<1>2. CASE Server
  BY <1>2, ServerMovesNobody, DoubtGrows DEF RaisedDoubts
<1>3. ASSUME NEW g \in Goals, Turn(g) PROVE RaisedDoubts'
  <2>1. ASSUME NEW h \in Goals, h # g, reply'[h] = "raised"
        PROVE  /\ pc'[h] \in {"ensure", "aim"} => "planner" \in doubt'
               /\ pc'[h] \in {"allow", "restore"} => "links" \in doubt'
               /\ pc'[h] = "apply" => "scene" \in doubt'
    BY <1>3, <2>1, OnlyOwnRow, DoubtGrows DEF Typed, SameRow, RaisedDoubts, Next, Turn
  <2>2. ASSUME reply'[g] = "raised"
        PROVE  /\ pc'[g] \in {"ensure", "aim"} => "planner" \in doubt'
               /\ pc'[g] \in {"allow", "restore"} => "links" \in doubt'
               /\ pc'[g] = "apply" => "scene" \in doubt'
    <3>1. /\ reply[g] = "waiting" /\ UNCHANGED pc
          /\ doubt' = doubt \cup ({call[g].kind} \cap Effects)
      BY <1>3, <2>2, TurnReplies DEF GiveUp, place
    <3>2. CallAt(g)
      BY <3>1 DEF Typed, Rows, RowOK
    <3> QED
      BY <3>1, <3>2 DEF CallAt, Effects
  <2> QED
    BY <2>1, <2>2 DEF RaisedDoubts
<1> QED
  BY <1>1, <1>2, <1>3 DEF Next, Turn

(* While no request of a kind was given up, those the server still has are *)
(* awaited.                                                                *)
AllAwaited(kind) == \A r \in outbox : r.kind = kind => Expected(r)

LEMMA AwaitedStays ==
  ASSUME TaskAssumption, Typed, NEW g \in Goals, Turn(g), NEW kind \in Effects,
         AllAwaited(kind), kind \notin doubt'
  PROVE  AllAwaited(kind)'
<1>0. outbox \subseteq Requests
  BY DEF Typed, ServerTypes
<1>1. ASSUME NEW r \in outbox, r.kind = kind, r \in outbox' PROVE Expected(r)'
  <2>1. Expected(r) /\ r.by \in Goals
    BY <1>0, <1>1, RequestFields DEF AllAwaited
  <2>2. CASE r.by # g
    BY <2>1, <2>2, OnlyOwnRow DEF Typed, SameRow, Expected
  <2>3. CASE r.by = g
    <3>1. GiveUp(g) /\ call[g] = r
      BY <2>1, <2>3, TurnReplies DEF Expected
    <3>2. doubt' = doubt \cup ({kind} \cap Effects)
      BY <1>1, <3>1 DEF GiveUp
    <3> QED
      BY <3>2
  <2> QED
    BY <2>2, <2>3
<1>2. ASSUME NEW r, NewRequest(g), r = call'[g] PROVE Expected(r)'
  BY <1>2 DEF NewRequest, Expected
<1>3. outbox' \subseteq outbox \/ NewRequest(g)
  BY TurnOutbox
<1>4. ASSUME NEW r \in outbox', r.kind = kind PROVE Expected(r)'
  BY <1>1, <1>2, <1>3, <1>4 DEF NewRequest
<1> QED
  BY <1>4 DEF AllAwaited

(* The server acts on the effect of a kind only through a request of it.   *)
LEMMA OtherEffects ==
  ASSUME Typed, Server, NEW kind \in Effects, ~\E r \in outbox : r.kind = kind /\ Handles(r)
  PROVE  /\ outbox' \subseteq outbox
         /\ \A h \in Goals : call[h].kind = kind => reply'[h] = reply[h]
         /\ kind = "planner" => UNCHANGED planner
         /\ kind = "links" => UNCHANGED off
         /\ kind = "scene" => UNCHANGED scene
<1>0. /\ outbox \subseteq Requests /\ reply \in [Goals -> Replies]
      /\ solving \in Solves \cup {NoCall} /\ driving \in Drives \cup {NoCall}
  BY DEF Typed, ServerTypes, ThreadTypes, CallTypes
<1>1. ASSUME NEW r, r.kind # kind, r.by \in Goals, NEW ok, Answer(r, ok), NEW h \in Goals, call[h].kind = kind
      PROVE  reply'[h] = reply[h]
  BY <1>0, <1>1 DEF Answer
<1>2. ASSUME NEW r \in outbox, Handles(r)
      PROVE  /\ outbox' \subseteq outbox
             /\ \A h \in Goals : call[h].kind = kind => reply'[h] = reply[h]
             /\ kind = "planner" => UNCHANGED planner
             /\ kind = "links" => UNCHANGED off
             /\ kind = "scene" => UNCHANGED scene
  <2>1. r.kind # kind /\ r.by \in Goals
    BY <1>0, <1>2, RequestFields
  <2>2. outbox' \subseteq outbox /\ ((\E ok : Answer(r, ok)) \/ UNCHANGED reply)
    BY <1>2 DEF Handles, SetPlanner, SetLinkCollision, SceneService, Serves, Fails, SolveBegin,
                DriveGoal, Take
  <2>3. /\ kind = "planner" => UNCHANGED planner
        /\ kind = "links" => UNCHANGED off
        /\ kind = "scene" => UNCHANGED scene
    <3>1. SetPlanner(r) => r.kind = "planner" /\ UNCHANGED <<off, scene>>
      BY DEF SetPlanner, Take
    <3>2. SetLinkCollision(r) => r.kind = "links" /\ UNCHANGED <<planner, scene, doubt>>
      BY DEF SetLinkCollision, Take, history
    <3>3. SceneService(r) => r.kind = "scene" /\ UNCHANGED <<planner, off>>
      BY DEF SceneService, Take
    <3>4. SolveBegin(r) \/ DriveGoal(r) => UNCHANGED <<planner, off, scene, doubt>>
      BY DEF SolveBegin, DriveGoal, history
    <3> QED
      BY <1>2, <2>1, <3>1, <3>2, <3>3, <3>4 DEF Handles
  <2> QED
    BY <1>1, <2>1, <2>2, <2>3
<1>3. ASSUME SolveEnd \/ DriveSolve \/ DriveSolved \/ DriveEnd
      PROVE  /\ UNCHANGED <<outbox, planner, doubt, off, scene>>
             /\ \A h \in Goals : call[h].kind = kind => reply'[h] = reply[h]
  <2>1. UNCHANGED <<outbox, planner, doubt, off, scene>>
    BY <1>3 DEF SolveEnd, DriveSolve, DriveSolved, DriveEnd, history
  <2>2. CASE SolveEnd
    <3>1. solving # NoCall /\ \E ok : Answer(Request(solving), ok)
      BY <2>2 DEF SolveEnd, Solving
    <3>2. Request(solving).kind # kind /\ Request(solving).by \in Goals
      BY <1>0, <3>1, SolveFields DEF Effects
    <3> QED
      BY <1>1, <2>1, <3>1, <3>2
  <2>3. CASE DriveSolve
    BY <2>1, <2>3 DEF DriveSolve
  <2>4. CASE DriveSolved \/ DriveEnd
    <3>1. driving # NoCall /\ ((\E ok : Answer(Request(driving), ok)) \/ UNCHANGED reply)
      <4>0. driving.arg \in {"solving", "moving"}
        BY <2>4 DEF DriveSolved, DriveEnd
      <4>1. driving # NoCall
        BY <4>0 DEF NoCall
      <4>2. DriveSolved => Answer(Request(driving), FALSE) \/ UNCHANGED reply
        BY DEF DriveSolved
      <4>3. DriveEnd => \E ok : Answer(Request(driving), ok)
        BY DEF DriveEnd
      <4> QED
        BY <2>4, <4>1, <4>2, <4>3
    <3>2. Request(driving).kind # kind /\ Request(driving).by \in Goals
      BY <1>0, <3>1, DriveFields DEF Effects
    <3> QED
      BY <1>1, <2>1, <3>1, <3>2
  <2> QED
    BY <1>3, <2>1, <2>2, <2>3, <2>4
<1> QED
  BY <1>2, <1>3 DEF Server, Handles

LEMMA AwaitedUnserved ==
  ASSUME Typed, Server, NEW kind \in Effects, ~\E r \in outbox : r.kind = kind /\ Handles(r),
         AllAwaited(kind)
  PROVE  AllAwaited(kind)'
<1>1. UNCHANGED call
  BY ServerMovesNobody
<1>2. ASSUME NEW r \in outbox', r.kind = kind PROVE Expected(r)'
  <2>1. r \in outbox /\ Expected(r) /\ r.by \in Goals
    BY <1>2, OtherEffects, RequestFields DEF AllAwaited, Typed, ServerTypes
  <2> QED
    BY <1>1, <1>2, <2>1, OtherEffects DEF Expected
<1> QED
  BY <1>2 DEF AllAwaited

(* A request the server handles is awaited; no other of its task's is.     *)
LEMMA AwaitedServed ==
  ASSUME Typed, Server, NEW kind \in Effects, NEW r \in outbox, r.kind = kind, Handles(r),
         AllAwaited(kind)
  PROVE  /\ AllAwaited(kind)' /\ r \in Requests /\ call[r.by] = r /\ reply[r.by] = "waiting"
         /\ \A h \in Goals : h # r.by => reply'[h] = reply[h]
<1>0. /\ outbox \subseteq Requests /\ reply \in [Goals -> Replies] /\ UNCHANGED call
      /\ r.by \in Goals
  BY ServerMovesNobody, RequestFields DEF Typed, ServerTypes, ThreadTypes, CallTypes
<1>1. outbox' = outbox \ {r} /\ ((\E ok : Answer(r, ok)) \/ UNCHANGED reply)
  BY DEF Handles, SetPlanner, SetLinkCollision, SceneService, Serves, Fails, SolveBegin, DriveGoal, Take
<1>2. \A h \in Goals : h # r.by => reply'[h] = reply[h]
  BY <1>0, <1>1 DEF Answer
<1>3. Expected(r)
  BY DEF AllAwaited
<1>4. ASSUME NEW q \in outbox', q.kind = kind PROVE Expected(q)'
  <2>1. q \in outbox /\ q # r /\ Expected(q) /\ q.by \in Goals
    BY <1>0, <1>1, <1>4, RequestFields DEF AllAwaited
  <2>2. q.by # r.by
    BY <1>3, <2>1 DEF Expected
  <2> QED
    BY <1>0, <1>2, <2>1, <2>2 DEF Expected
<1> QED
  BY <1>0, <1>2, <1>3, <1>4 DEF AllAwaited, Expected

-----------------------------------------------------------------------------
(* Links: while a task is the only one and no link request was given up,   *)
(* the spheres that are off are those its plan has turned off.             *)
InPlan == {"allow", "solve", "restore"}
Touchable(g) == S(g).contacts \cap KnownLinks
LinksAt(g) ==
  /\ pc[g] = "allow" => off = IF reply[g] = "yes" THEN Touchable(g) ELSE {}
  /\ pc[g] = "solve" => off = Touchable(g)
  /\ pc[g] = "restore" => off = IF reply[g] \in {"yes", "no"} THEN {} ELSE Touchable(g)
LinksOK ==
  Sound({"links"}) =>
    /\ AllAwaited("links")
    /\ (\A g \in Goals : pc[g] \notin InPlan) => off = {}
    /\ \A g \in Goals : LinksAt(g)

Alone(g) == \A h \in Goals : Working(h) => h = g

LEMMA LinksTurn ==
  ASSUME TaskAssumption, Typed, OneTask, LinksOK, RaisedDoubts, NEW g \in Goals, Turn(g),
         Sound({"links"})'
  PROVE  LinksOK'
<1> USE DEF Goto, Heard, Abort, place, adapter, record
<1>0. PlaceTypes /\ CallTypes /\ RowOK(g)
  BY DEF Typed, ThreadTypes, Rows
<1>1. Sound({"links"}) /\ "links" \notin doubt' /\ "links" \notin doubt
  <2>1. [Next]_vars
    BY DEF Next, Turn
  <2>2. Sound({"links"})
    BY <2>1, SoundBefore
  <2> QED
    BY <2>2 DEF Sound
<1>2. /\ AllAwaited("links") /\ ((\A h \in Goals : pc[h] \notin InPlan) => off = {})
      /\ \A h \in Goals : LinksAt(h)
  BY <1>1 DEF LinksOK
<1>3. AllAwaited("links")'
  BY <1>1, <1>2, AwaitedStays DEF Effects
<1>4. off' = off
  BY TurnLeavesServer DEF ServerStill
<1>5. ASSUME NEW h \in Goals, h # g PROVE LinksAt(h)' /\ pc'[h] = pc[h]
  <2>1. pc'[h] = pc[h] /\ seg'[h] = seg[h] /\ reply'[h] = reply[h] /\ LinksAt(h)
    BY <1>2, <1>5, OnlyOwnRow DEF Typed, SameRow
  <2> QED
    BY <1>4, <2>1 DEF LinksAt, Touchable, S
<1>6. Working(g) => Alone(g)
  BY <1>1 DEF OneTask, Sound, Alone
<1>7. CASE pc[g] \notin InPlan
  <2>1. CASE pc'[g] \notin InPlan
    <3>1. LinksAt(g)'
      BY <2>1 DEF LinksAt, InPlan
    <3>2. (\A h \in Goals : pc'[h] \notin InPlan) => off' = {}
      BY <1>2, <1>4, <1>5, <1>7
    <3> QED
      BY <1>3, <1>5, <3>1, <3>2 DEF LinksOK
  <2>2. CASE pc'[g] \in InPlan
    <3>1. pc[g] = "ensure" /\ pc'[g] = "allow" /\ reply'[g] = "none"
      <4>1. CASE SwitchPlanner(g)
        BY <1>0, <1>7, <2>2, <4>1 DEF SwitchPlanner, InPlan, PlaceTypes
      <4>2. CASE GoalCallback(g) \/ GiveUp(g) \/ ExecuteCallback(g) \/ Report(g) \/ Segment(g)
        BY <1>0, <1>7, <2>2, <4>2 DEF GoalCallback, GiveUp, ExecuteCallback, Report, Segment,
             InPlan, PlaceTypes
      <4>3. CASE PlannerSwitched(g) \/ PlanCall(g) \/ LinksAllowed(g) \/ SolveHeard(g) \/ LinksRestored(g) \/ NextSegment(g)
        <5>1. PlannerSwitched(g) \/ NextSegment(g)
          BY <1>7, <4>3 DEF PlanCall, LinksAllowed, SolveHeard, LinksRestored, InPlan
        <5> QED
          BY <1>0, <1>7, <2>2, <5>1 DEF PlannerSwitched, NextSegment, InPlan, PlaceTypes
      <4>4. CASE StartPlayback(g) \/ ApplyOp(g) \/ OpApplied(g)
        BY <1>0, <1>7, <2>2, <4>4 DEF StartPlayback, ApplyOp, OpApplied, InPlan, PlaceTypes
      <4>5. CASE OpsDone(g) \/ Drive(g) \/ DriveHeard(g)
        BY <1>0, <1>7, <2>2, <4>5 DEF OpsDone, Drive, DriveHeard, Advance, InPlan, PlaceTypes
      <4> QED
        BY <4>1, <4>2, <4>3, <4>4, <4>5 DEF Turn, Thread
    <3>2. \A h \in Goals : pc[h] \notin InPlan
      BY <1>6, <1>7, <3>1 DEF Alone, Working, InPlan
    <3>3. LinksAt(g)'
      BY <1>2, <1>4, <3>1, <3>2 DEF LinksAt
    <3> QED
      BY <1>3, <1>5, <2>2, <3>3 DEF LinksOK
  <2> QED
    BY <2>1, <2>2
<1>8. CASE pc[g] \in InPlan
  <2>0. \A h \in Goals : h # g => pc[h] \notin InPlan
    BY <1>6, <1>8 DEF Alone, Working, InPlan
  <2>1. GiveUp(g) \/ PlanCall(g) \/ LinksAllowed(g) \/ SolveHeard(g) \/ LinksRestored(g)
    BY <1>8 DEF Turn, Thread, InPlan, GoalCallback, ExecuteCallback, Report, Segment,
         SwitchPlanner, PlannerSwitched, NextSegment, StartPlayback, ApplyOp, OpApplied, OpsDone,
         Drive, DriveHeard
  <2>2. CASE GiveUp(g)
    <3>1. pc' = pc /\ reply[g] = "waiting" /\ doubt' = doubt \cup ({call[g].kind} \cap Effects)
          /\ UNCHANGED seg
      BY <2>2 DEF GiveUp
    <3>2. pc[g] = "solve"
      BY <1>0, <1>1, <1>8, <3>1 DEF RowOK, CallAt, InPlan, Effects
    <3>3. LinksAt(g)'
      BY <1>2, <1>4, <3>1, <3>2 DEF LinksAt, Touchable, S
    <3> QED
      BY <1>3, <1>5, <1>8, <3>1, <3>3 DEF LinksOK
  <2>3. CASE PlanCall(g)
    <3>0. UNCHANGED seg /\ reply[g] = "none"
      BY <2>3 DEF PlanCall
    <3>1. CASE pc[g] # "solve" /\ S(g).contacts = {}
      <4>1. UNCHANGED reply /\ pc' = [pc EXCEPT ![g] = IF pc[g] = "allow" THEN "solve" ELSE "next"]
        BY <2>3, <3>1 DEF PlanCall
      <4>2. off = {} /\ Touchable(g) = {} /\ Touchable(g)' = {}
        BY <1>2, <1>8, <3>0, <3>1 DEF LinksAt, Touchable, S, InPlan
      <4>3. LinksAt(g)'
        BY <1>0, <1>4, <1>8, <4>1, <4>2 DEF LinksAt, PlaceTypes, InPlan
      <4> QED
        BY <1>3, <1>4, <1>5, <4>2, <4>3 DEF LinksOK
    <3>2. CASE ~(pc[g] # "solve" /\ S(g).contacts = {})
      <4>1. UNCHANGED pc /\ reply'[g] = "waiting"
        <5>1. \E kind, arg : Ask(g, kind, arg)
          BY <2>3, <3>2 DEF PlanCall
        <5> QED
          BY <1>0, <2>3, <3>2, <5>1 DEF PlanCall, Ask, CallTypes
      <4>2. LinksAt(g)'
        BY <1>2, <1>4, <3>0, <4>1 DEF LinksAt, Touchable, S
      <4> QED
        BY <1>3, <1>5, <1>8, <4>1, <4>2 DEF LinksOK
    <3> QED
      BY <3>1, <3>2
  <2>4. CASE LinksAllowed(g)
    <3>1. pc[g] = "allow" /\ UNCHANGED seg /\ reply[g] # "raised" => reply[g] \in {"yes", "no"}
      BY <2>4 DEF LinksAllowed
    <3>2. CASE reply[g] = "yes"
      <4>1. pc'[g] = "solve" /\ off = Touchable(g) /\ UNCHANGED seg
        BY <1>0, <1>2, <2>4, <3>2 DEF LinksAllowed, LinksAt, PlaceTypes
      <4>2. LinksAt(g)'
        BY <1>4, <4>1 DEF LinksAt, Touchable, S
      <4> QED
        BY <1>3, <1>5, <4>1, <4>2 DEF LinksOK, InPlan
    <3>3. CASE reply[g] # "yes"
      <4>1. pc'[g] = "report" /\ off = {}
        BY <1>0, <1>2, <2>4, <3>3 DEF LinksAllowed, LinksAt, PlaceTypes
      <4>2. LinksAt(g)'
        BY <4>1 DEF LinksAt
      <4> QED
        BY <1>3, <1>4, <1>5, <4>1, <4>2 DEF LinksOK
    <3> QED
      BY <3>2, <3>3
  <2>5. CASE SolveHeard(g)
    <3>1. pc[g] = "solve" /\ pc'[g] = "restore" /\ reply'[g] = "none" /\ UNCHANGED seg
      BY <1>0, <2>5 DEF SolveHeard, PlaceTypes, CallTypes
    <3>2. LinksAt(g)'
      BY <1>2, <1>4, <3>1 DEF LinksAt, Touchable, S
    <3> QED
      BY <1>3, <1>5, <3>1, <3>2 DEF LinksOK, InPlan
  <2>6. CASE LinksRestored(g)
    <3>1. pc[g] = "restore" /\ pc'[g] \in {"next", "report"} /\ reply[g] \in {"yes", "no", "raised"}
      BY <1>0, <2>6 DEF LinksRestored, PlaceTypes
    <3>2. reply[g] # "raised"
      BY <1>1, <3>1 DEF RaisedDoubts
    <3>3. off = {} /\ LinksAt(g)'
      BY <1>2, <3>1, <3>2 DEF LinksAt
    <3> QED
      BY <1>3, <1>4, <1>5, <3>1, <3>3 DEF LinksOK
  <2> QED
    BY <2>1, <2>2, <2>3, <2>4, <2>5, <2>6
<1> QED
  BY <1>7, <1>8

LEMMA LinksServer ==
  ASSUME TaskAssumption, Typed, OneTask, LinksOK, Server, Sound({"links"})'
  PROVE  LinksOK'
<1>0. UNCHANGED <<pc, seg, op, call>>
  BY ServerMovesNobody
<1>1. Sound({"links"})
  BY SoundBefore DEF Next
<1>2. /\ AllAwaited("links") /\ ((\A h \in Goals : pc[h] \notin InPlan) => off = {})
      /\ \A h \in Goals : LinksAt(h) /\ RowOK(h)
  BY <1>1 DEF LinksOK, Typed, Rows
<1>3. CASE ~\E r \in outbox : r.kind = "links" /\ Handles(r)
  <2>1. AllAwaited("links")' /\ off' = off
    BY <1>2, <1>3, OtherEffects, AwaitedUnserved DEF Effects
  <2>2. ASSUME NEW h \in Goals PROVE LinksAt(h)'
    <3>1. CASE call[h].kind = "links"
      <4>1. reply'[h] = reply[h]
        BY <1>3, <3>1, OtherEffects DEF Effects
      <4> QED
        BY <1>0, <1>2, <2>1, <4>1 DEF LinksAt, Touchable, S
    <3>2. CASE call[h].kind # "links"
      <4>1. pc[h] \in {"allow", "restore"} => reply[h] \in {"none", "raised"} /\ call[h] = NoCall
        BY <1>2, <3>2 DEF RowOK, CallAt
      <4>2. pc[h] \in {"allow", "restore"} => reply'[h] = reply[h]
        BY <4>1, ServerMovesNobody
      <4> QED
        BY <1>0, <1>2, <2>1, <4>2 DEF LinksAt, Touchable, S
    <3> QED
      BY <3>1, <3>2
  <2> QED
    BY <1>0, <1>2, <2>1, <2>2 DEF LinksOK
<1>4. ASSUME NEW r \in outbox, r.kind = "links", Handles(r) PROVE LinksOK'
  <2>1. SetLinkCollision(r)
    BY <1>4 DEF Handles, SetPlanner, SceneService, SolveBegin, DriveGoal, Take
  <2> DEFINE g == r.by
  <2>2. /\ AllAwaited("links")' /\ r \in Requests /\ call[g] = r /\ reply[g] = "waiting" /\ g \in Goals
        /\ \A h \in Goals : h # g => reply'[h] = reply[h]
    BY <1>2, <1>4, AwaitedServed, RequestFields DEF Effects
  <2>3. /\ off' = IF r.arg.on THEN off \ r.arg.links ELSE off \cup (r.arg.links \cap KnownLinks)
        /\ reply' = [reply EXCEPT ![g] = IF r.arg.links \cap KnownLinks # {} THEN "yes" ELSE "no"]
    BY <2>1, <2>2 DEF SetLinkCollision, Answer
  <2>4. /\ r.arg.links = S(g).contacts
        /\ \/ pc[g] = "allow" /\ r.arg.on = FALSE
           \/ pc[g] = "restore" /\ r.arg.on = TRUE
    <3>1. RowOK(g) /\ r # NoCall
      BY <1>2, <2>2, RequestFields
    <3>2. CallAt(g)
      BY <2>2, <3>1 DEF RowOK
    <3>3. \/ pc[g] = "allow" /\ r.arg = Links(g, FALSE)
          \/ pc[g] = "restore" /\ r.arg = Links(g, TRUE)
      BY <1>4, <2>2, <3>2 DEF CallAt
    <3>4. CASE pc[g] = "allow" /\ r.arg = Links(g, FALSE)
      BY <3>4 DEF Links
    <3>5. CASE pc[g] = "restore" /\ r.arg = Links(g, TRUE)
      BY <3>5 DEF Links
    <3> QED
      BY <3>3, <3>4, <3>5
  <2>5. reply \in [Goals -> Replies] /\ off \subseteq KnownLinks
    BY DEF Typed, ThreadTypes, CallTypes, ServerTypes
  <2>6. LinksAt(g)'
    <3>1. CASE pc[g] = "allow"
      <4>1. off = {} /\ off' = Touchable(g) /\ Touchable(g)' = Touchable(g)
        BY <1>0, <1>2, <2>2, <2>3, <2>4, <3>1 DEF LinksAt, Touchable, S
      <4>2. reply'[g] = IF Touchable(g) # {} THEN "yes" ELSE "no"
        BY <2>2, <2>3, <2>4, <2>5 DEF Touchable
      <4> QED
        BY <1>0, <3>1, <4>1, <4>2 DEF LinksAt
    <3>2. CASE pc[g] = "restore"
      <4>1. off = Touchable(g) /\ off' = {}
        BY <1>2, <2>2, <2>3, <2>4, <3>2 DEF LinksAt, Touchable, S
      <4>2. reply'[g] \in {"yes", "no"}
        BY <2>2, <2>3, <2>5
      <4> QED
        BY <1>0, <3>2, <4>1, <4>2 DEF LinksAt
    <3> QED
      BY <2>4, <3>1, <3>2
  <2>7. pc[g] \in InPlan
    BY <2>4 DEF InPlan
  <2>8. \A h \in Goals : h # g => pc[h] \notin InPlan
    BY <1>1, <2>2, <2>7 DEF OneTask, Sound, Working, InPlan
  <2>9. \A h \in Goals : h # g => LinksAt(h)'
    BY <1>0, <2>8 DEF LinksAt, InPlan
  <2> QED
    BY <1>0, <2>2, <2>6, <2>7, <2>9 DEF LinksOK
<1> QED
  BY <1>3, <1>4

LEMMA LinksStep ==
  ASSUME TaskAssumption, Typed, OneTask, LinksOK, RaisedDoubts, [Next]_vars PROVE LinksOK'
<1>1. CASE UNCHANGED vars
  BY <1>1 DEF vars, place, adapter, server, history, LinksOK, LinksAt, AllAwaited, Expected,
              Touchable, S, Sound
<1>2. CASE ~Sound({"links"})'
  BY <1>2 DEF LinksOK
<1> QED
  BY <1>1, <1>2, LinksTurn, LinksServer DEF Next, Turn

-----------------------------------------------------------------------------
(* What the server works on is awaited no sooner than it was taken.        *)
LEMMA NewIsNew ==
  ASSUME TaskAssumption, Typed, NEW g \in Goals, Turn(g), NewRequest(g),
         NEW r \in Requests, Fine(r), r.kind \in {"solve", "drive"}
  PROVE  r # call'[g]
<1>1. CASE r.by # g
  BY <1>1 DEF NewRequest
<1>2. CASE r.by = g
  <2>1. RowOK(g)'
    BY TurnTyped
  <2> QED
    BY <1>2, <2>1 DEF NewRequest, Fine, Expected, Lost, RowOK, CallAt
<1> QED
  BY <1>1, <1>2

LEMMA AwaitedBefore ==
  ASSUME TaskAssumption, Typed, NEW g \in Goals, Turn(g),
         NEW r \in Requests, Fine(r), r.kind \in {"solve", "drive"}, call'[r.by] = r
  PROVE  call[r.by] = r
<1>1. r.by \in Goals /\ r # NoCall
  BY RequestFields
<1>2. CASE r.by # g
  BY <1>1, <1>2, OnlyOwnRow DEF Typed, SameRow
<1>3. CASE r.by = g
  BY <1>1, <1>3, TurnOutbox, NewIsNew
<1> QED
  BY <1>2, <1>3

(* The planner: while a task is the only one and no switch was given up,   *)
(* the server's planner is the one the adapter set last.                   *)
Switching(g) == call[g].kind = "planner" /\ reply[g] = "yes"
PlannerAt(g) ==
  Named(S(g)) # {Nothing} =>
    /\ pc[g] = "ensure" =>
         todo[g] \subseteq Named(S(g)) /\ (todo[g] # {} \/ active \in Named(S(g)))
    /\ pc[g] \in {"allow", "solve"} => planner \in Named(S(g))
MadeBy(s, p) == Named(s) = {Nothing} \/ p \in Named(s)
SolvedBy ==
  solving.kind = "solve" /\ Awaited(solving) =>
    MadeBy(Program[solving.by][solving.seg], solving.arg)
PlannerOK ==
  Sound({"planner"}) =>
    /\ AllAwaited("planner")
    /\ \A g \in Goals : Switching(g) => planner = call[g].arg
    /\ (\A g \in Goals : ~Switching(g)) => active \in {Nothing, planner}
    /\ \A g \in Goals : PlannerAt(g)
    /\ SolvedBy

LEMMA TurnSwitching ==
  ASSUME TaskAssumption, Typed, NEW g \in Goals, Turn(g)
  PROVE  /\ Switching(g)' => Switching(g) /\ call'[g] = call[g]
         /\ Switching(g) => \/ Switching(g)' /\ UNCHANGED active
                            \/ PlannerSwitched(g) /\ active' = call[g].arg
         /\ ~Switching(g) => UNCHANGED active
<1>0. RowOK(g) /\ CallTypes
  BY DEF Typed, Rows, ThreadTypes
<1>1. Switching(g)' => Switching(g) /\ call'[g] = call[g]
  BY TurnReplies DEF Switching
<1>2. Switching(g) => pc[g] \in {"ensure", "aim"} /\ reply[g] = "yes"
  BY <1>0 DEF Switching, RowOK, CallAt, NoCall
<1>3. Switching(g) => PlannerSwitched(g) /\ active' = call[g].arg
  BY <1>2 DEF Turn, Thread, GoalCallback, GiveUp, ExecuteCallback, Report, Segment, SwitchPlanner,
       PlannerSwitched, PlanCall, LinksAllowed, SolveHeard, LinksRestored, NextSegment,
       StartPlayback, ApplyOp, OpApplied, OpsDone, Drive, DriveHeard
<1>4. ~Switching(g) => UNCHANGED active
  <2>1. CASE PlannerSwitched(g)
    <3>1. call[g].kind # "planner" => call[g] = NoCall
      BY <1>0, <2>1 DEF PlannerSwitched, RowOK, CallAt
    <3>2. reply[g] = "yes" => Switching(g)
      BY <1>0, <3>1 DEF Switching, RowOK
    <3> QED
      BY <2>1, <3>2 DEF PlannerSwitched
  <2>2. CASE ~PlannerSwitched(g)
    BY <2>2 DEF Turn, Thread, adapter, GoalCallback, GiveUp, ExecuteCallback, Report, Segment,
       SwitchPlanner, PlanCall, LinksAllowed, SolveHeard, LinksRestored, NextSegment,
       StartPlayback, ApplyOp, OpApplied, OpsDone, Drive, DriveHeard
  <2> QED
    BY <2>1, <2>2
<1> QED
  BY <1>1, <1>3, <1>4

(* Which planner a task's own step leaves to it.                           *)
LEMMA PlannerAtTurn ==
  ASSUME TaskAssumption, Typed, NEW g \in Goals, Turn(g), PlannerAt(g),
         Switching(g) => planner = call[g].arg,
         pc[g] = "ensure" /\ ~Switching(g) => active \in {Nothing, planner}
  PROVE  PlannerAt(g)'
<1> USE DEF Goto, Heard, Abort, place, adapter, record
<1>0. PlaceTypes /\ CallTypes /\ RowOK(g) /\ seg[g] \in DOMAIN Program[g]
  BY DEF Typed, ThreadTypes, Rows, RowOK
<1>1. planner' = planner
  BY TurnLeavesServer DEF ServerStill
<1>2. CASE Segment(g)
  <2>1. CASE S(g).moves
    <3>1. pc'[g] = "ensure" /\ todo'[g] = Switches(g) /\ UNCHANGED <<seg, active>> /\ pc[g] = "segment"
      BY <1>0, <1>2, <2>1 DEF Segment, PlaceTypes
    <3>2. Switches(g) = IF S(g).batch # {} THEN S(g).batch ELSE {S(g).planner} \ {Nothing, active}
      BY <3>1 DEF Switches
    <3>3. Named(S(g)) # {Nothing} =>
            Switches(g) \subseteq Named(S(g)) /\ (Switches(g) # {} \/ active \in Named(S(g)))
      BY <3>2 DEF Named
    <3> QED
      BY <3>1, <3>3 DEF PlannerAt, S
  <2>2. CASE ~S(g).moves
    <3>1. pc'[g] \in {"segment", "planned"}
      BY <1>0, <1>2, <2>2 DEF Segment, PlaceTypes
    <3> QED
      BY <3>1 DEF PlannerAt
  <2> QED
    BY <2>1, <2>2
<1>3. CASE SwitchPlanner(g)
  <2>0. UNCHANGED <<seg, todo, active>> /\ reply[g] = "none"
    BY <1>3 DEF SwitchPlanner
  <2>1. CASE todo[g] = {} /\ pc[g] = "ensure"
    <3>1. pc'[g] = "allow"
      BY <1>0, <1>3, <2>1 DEF SwitchPlanner, PlaceTypes
    <3>2. ~Switching(g)
      BY <2>0 DEF Switching
    <3>3. Named(S(g)) # {Nothing} => planner \in Named(S(g))
      <4>1. SUFFICES ASSUME Named(S(g)) # {Nothing} PROVE planner \in Named(S(g))
        OBVIOUS
      <4>2. active \in Named(S(g)) /\ active \in {Nothing, planner}
        BY <2>1, <3>2, <4>1 DEF PlannerAt
      <4>3. Nothing \notin Named(S(g))
        <5>1. S(g).batch \subseteq Planners /\ Nothing \notin Planners
          BY <1>0, ChainFacts DEF S, TaskAssumption
        <5> QED
          BY <4>1, <5>1 DEF Named
      <4> QED
        BY <4>2, <4>3
    <3> QED
      BY <1>1, <2>0, <3>1, <3>3 DEF PlannerAt, S
  <2>2. CASE todo[g] # {}
    <3>1. UNCHANGED pc
      BY <1>3, <2>2 DEF SwitchPlanner
    <3> QED
      BY <1>1, <2>0, <3>1 DEF PlannerAt, S
  <2>3. CASE todo[g] = {} /\ pc[g] = "aim"
    <3>1. pc'[g] = "drive"
      BY <1>0, <1>3, <2>3 DEF SwitchPlanner, PlaceTypes
    <3> QED
      BY <3>1 DEF PlannerAt
  <2> QED
    BY <1>3, <2>1, <2>2, <2>3 DEF SwitchPlanner
<1>4. CASE PlannerSwitched(g)
  <2>1. CASE reply[g] = "yes"
    <3>1. /\ active' = call[g].arg /\ todo'[g] = todo[g] \ {call[g].arg} /\ UNCHANGED <<pc, seg>>
          /\ pc[g] \in {"ensure", "aim"}
      BY <1>0, <1>4, <2>1 DEF PlannerSwitched, PlaceTypes
    <3>2. call[g].arg \in todo[g]
      BY <1>0, <2>1, <3>1 DEF RowOK, CallAt
    <3> QED
      BY <3>1, <3>2 DEF PlannerAt, S
  <2>2. CASE reply[g] # "yes"
    <3>1. pc'[g] = "report"
      BY <1>0, <1>4, <2>2 DEF PlannerSwitched, PlaceTypes
    <3> QED
      BY <3>1 DEF PlannerAt
  <2> QED
    BY <2>1, <2>2
<1>5. CASE PlanCall(g) \/ LinksAllowed(g) \/ SolveHeard(g) \/ LinksRestored(g)
  <2>1. /\ pc[g] \in {"allow", "solve", "restore"} /\ UNCHANGED seg
        /\ pc'[g] \in {"allow", "solve"} => pc[g] \in {"allow", "solve"}
        /\ pc'[g] # "ensure"
    <3>1. CASE PlanCall(g)
      BY <1>0, <3>1 DEF PlanCall, PlaceTypes
    <3>2. CASE LinksAllowed(g) \/ SolveHeard(g) \/ LinksRestored(g)
      BY <1>0, <3>2 DEF LinksAllowed, SolveHeard, LinksRestored, PlaceTypes
    <3> QED
      BY <1>5, <3>1, <3>2
  <2> QED
    BY <1>1, <2>1 DEF PlannerAt, S
<1>6. CASE GiveUp(g)
  BY <1>1, <1>6 DEF GiveUp, PlannerAt, S
<1>7. CASE GoalCallback(g) \/ ExecuteCallback(g) \/ Report(g) \/ NextSegment(g) \/ StartPlayback(g)
  <2>1. pc'[g] \notin {"ensure", "allow", "solve"}
    BY <1>0, <1>7 DEF GoalCallback, ExecuteCallback, Report, NextSegment, StartPlayback, PlaceTypes
  <2> QED
    BY <2>1 DEF PlannerAt
<1>8. CASE ApplyOp(g) \/ OpApplied(g) \/ OpsDone(g)
  <2>1. pc'[g] \notin {"ensure", "allow", "solve"}
    BY <1>0, <1>8 DEF ApplyOp, OpApplied, OpsDone, Advance, PlaceTypes
  <2> QED
    BY <2>1 DEF PlannerAt
<1>9. CASE Drive(g) \/ DriveHeard(g)
  <2>1. pc'[g] \notin {"ensure", "allow", "solve"}
    BY <1>0, <1>9 DEF Drive, DriveHeard, Advance, PlaceTypes
  <2> QED
    BY <2>1 DEF PlannerAt
<1> QED
  BY <1>2, <1>3, <1>4, <1>5, <1>6, <1>7, <1>8, <1>9 DEF Turn, Thread

LEMMA CallerWorks == ASSUME Typed, NEW g \in Goals, call[g] # NoCall PROVE Working(g)
BY DEF Typed, Rows, RowOK, CallAt, Working

LEMMA PlannerTurn ==
  ASSUME TaskAssumption, Core, PlannerOK, NEW g \in Goals, Turn(g),
         Sound({"planner"})'
  PROVE  PlannerOK'
<1>0. Typed /\ RequestsOK /\ OneTask /\ [Next]_vars
  BY DEF Core, Next, Turn
<1>1. Sound({"planner"}) /\ "planner" \notin doubt'
  BY <1>0, SoundBefore DEF Sound
<1>2. /\ AllAwaited("planner")
      /\ \A h \in Goals : Switching(h) => planner = call[h].arg
      /\ (\A h \in Goals : ~Switching(h)) => active \in {Nothing, planner}
      /\ \A h \in Goals : PlannerAt(h)
      /\ SolvedBy
  BY <1>1 DEF PlannerOK
<1>3. UNCHANGED <<planner, solving>>
  BY TurnLeavesServer DEF ServerStill
<1>4. \A h \in Goals : h # g => SameRow(h)
  BY <1>0, OnlyOwnRow DEF Typed
<1>5. Working(g) => \A h \in Goals : h # g => ~Working(h)
  BY <1>1 DEF OneTask, Sound, Core
<1>6. Working(g) => \A h \in Goals : h # g => ~Switching(h)
  BY <1>0, <1>5, CallerWorks DEF Switching, NoCall
<1>7. AllAwaited("planner")'
  BY <1>0, <1>1, <1>2, AwaitedStays DEF Effects
<1>8. \A h \in Goals : Switching(h)' => planner' = call'[h].arg
  <2>1. ASSUME Switching(g)' PROVE planner' = call'[g].arg
    BY <1>0, <1>2, <1>3, <2>1, TurnSwitching
  <2>2. ASSUME NEW h \in Goals, h # g, Switching(h)' PROVE planner' = call'[h].arg
    BY <1>2, <1>3, <1>4, <2>2 DEF SameRow, Switching
  <2> QED
    BY <2>1, <2>2
<1>9. (\A h \in Goals : ~Switching(h)') => active' \in {Nothing, planner'}
  <2>1. SUFFICES ASSUME \A h \in Goals : ~Switching(h)' PROVE active' \in {Nothing, planner'}
    OBVIOUS
  <2>2. \A h \in Goals : h # g => ~Switching(h)
    BY <1>4, <2>1 DEF SameRow, Switching
  <2>3. CASE Switching(g)
    BY <1>0, <1>2, <1>3, <2>1, <2>3, TurnSwitching
  <2>4. CASE ~Switching(g)
    BY <1>0, <1>2, <1>3, <2>2, <2>4, TurnSwitching
  <2> QED
    BY <2>3, <2>4
<1>10. PlannerAt(g)'
  <2>1. pc[g] = "ensure" /\ ~Switching(g) => active \in {Nothing, planner}
    BY <1>2, <1>6 DEF Working
  <2> QED
    BY <1>0, <1>2, <2>1, PlannerAtTurn
<1>11. ASSUME NEW h \in Goals, h # g PROVE PlannerAt(h)'
  <2>1. /\ pc'[h] = pc[h] /\ seg'[h] = seg[h] /\ todo'[h] = todo[h] /\ PlannerAt(h)
    BY <1>2, <1>4, <1>11 DEF SameRow
  <2>2. active' = active \/ pc[h] # "ensure"
    <3>1. CASE Switching(g)
      BY <1>0, <1>5, <1>11, <3>1, CallerWorks DEF Switching, NoCall, Working
    <3>2. CASE ~Switching(g)
      BY <1>0, <3>2, TurnSwitching
    <3> QED
      BY <3>1, <3>2
  <2> QED
    BY <1>3, <2>1, <2>2 DEF PlannerAt, S
<1>12. SolvedBy'
  <2>1. SUFFICES ASSUME solving.kind = "solve", Awaited(solving)'
                 PROVE  Awaited(solving)
    BY <1>2, <1>3 DEF SolvedBy
  <2>2. solving # NoCall /\ solving \in Solves \cup {NoCall}
    BY <1>0, <2>1 DEF NoCall, Typed, ServerTypes
  <2>3. /\ Request(solving) \in Requests /\ Request(solving).kind = "solve" /\ Fine(Request(solving))
        /\ Request(solving).by = solving.by
    BY <1>0, <2>1, <2>2, SolveFields DEF RequestsOK, Fine
  <2>4. call'[solving.by] = Request(solving)
    BY <1>3, <2>1 DEF Awaited, Request
  <2>5. call[solving.by] = Request(solving)
    BY <1>0, <2>3, <2>4, AwaitedBefore
  <2> QED
    BY <2>2, <2>5 DEF Awaited
<1> QED
  BY <1>7, <1>8, <1>9, <1>10, <1>11, <1>12 DEF PlannerOK

LEMMA CallPlace ==
  ASSUME Typed, NEW g \in Goals, call[g] # NoCall
  PROVE  call[g].by = g /\ call[g].seg = seg[g] /\ (call[g].kind = "solve" => pc[g] = "solve")
<1>1. RowOK(g)
  BY DEF Typed, Rows
<1>2. call[g].by = g /\ call[g].seg = seg[g] /\ CallAt(g)
  BY <1>1 DEF RowOK
<1> QED
  BY <1>2 DEF CallAt

LEMMA PlannerServer ==
  ASSUME TaskAssumption, Core, PlannerOK, Server, Sound({"planner"})'
  PROVE  PlannerOK'
<1>0. /\ Typed /\ RequestsOK /\ OneTask /\ [Next]_vars
      /\ UNCHANGED <<pc, seg, todo, call, active>>
  BY ServerMovesNobody DEF Core, Next
<1>1. Sound({"planner"}) /\ "planner" \notin doubt'
  BY <1>0, SoundBefore DEF Sound
<1>2. /\ AllAwaited("planner")
      /\ \A h \in Goals : Switching(h) => planner = call[h].arg
      /\ (\A h \in Goals : ~Switching(h)) => active \in {Nothing, planner}
      /\ \A h \in Goals : PlannerAt(h)
      /\ SolvedBy
  BY <1>1 DEF PlannerOK
<1>3. ASSUME UNCHANGED solving PROVE SolvedBy'
  <2>1. Awaited(solving)' => Awaited(solving)
    BY <1>0, <1>3 DEF Awaited, Request
  <2> QED
    BY <1>2, <1>3, <2>1 DEF SolvedBy
<1>4. CASE ~\E r \in outbox : r.kind = "planner" /\ Handles(r)
  <2>1. planner' = planner /\ AllAwaited("planner")'
    BY <1>0, <1>2, <1>4, OtherEffects, AwaitedUnserved DEF Effects
  <2>2. \A h \in Goals : Switching(h)' <=> Switching(h)
    BY <1>0, <1>4, OtherEffects DEF Effects, Switching
  <2>3. \A h \in Goals : PlannerAt(h)'
    BY <1>0, <1>2, <2>1 DEF PlannerAt, S
  <2>4. SolvedBy'
    <3>1. CASE UNCHANGED solving
      BY <1>3, <3>1
    <3>2. CASE solving' = NoCall
      BY <3>2 DEF SolvedBy, NoCall
    <3>3. ASSUME NEW r \in outbox, SolveBegin(r) PROVE SolvedBy'
      <4>1. /\ r \in Requests /\ r.kind = "solve" /\ r.by \in Goals
            /\ solving' = [r EXCEPT !.arg = planner]
        BY <1>0, <3>3, RequestFields DEF SolveBegin, Take, Typed, ServerTypes
      <4>2. solving' = [by |-> r.by, seg |-> r.seg, kind |-> "solve", arg |-> planner]
        BY <4>1, RequestFields
      <4>3. Request(solving') = r
        BY <4>1 DEF Request, Requests
      <4>4. SUFFICES ASSUME call[r.by] = r
                     PROVE  MadeBy(Program[r.by][r.seg], planner)
        BY <1>0, <4>2, <4>3 DEF SolvedBy, Awaited
      <4>5. r.seg = seg[r.by] /\ pc[r.by] = "solve"
        BY <1>0, <4>1, <4>4, CallPlace, RequestFields
      <4> QED
        BY <1>2, <4>1, <4>5 DEF PlannerAt, MadeBy, S
    <3>4. ASSUME DriveSolve PROVE SolvedBy'
      <4>1. driving \in Drives
        BY <1>0, <3>4 DEF DriveSolve, Typed, ServerTypes, NoCall
      <4>2. solving'.kind = "drive"
        BY <3>4, <4>1 DEF DriveSolve, Drives
      <4> QED
        BY <4>2 DEF SolvedBy
    <3>5. \/ UNCHANGED solving \/ solving' = NoCall \/ DriveSolve \/ \E r \in outbox : SolveBegin(r)
      BY DEF Server, SetPlanner, SetLinkCollision, SceneService, DriveGoal, SolveEnd, DriveSolved,
             DriveEnd
    <3> QED
      BY <3>1, <3>2, <3>3, <3>4, <3>5
  <2> QED
    BY <1>0, <1>2, <2>1, <2>2, <2>3, <2>4 DEF PlannerOK
<1>5. ASSUME NEW r \in outbox, r.kind = "planner", Handles(r) PROVE PlannerOK'
  <2>1. SetPlanner(r)
    BY <1>5 DEF Handles, SetLinkCollision, SceneService, SolveBegin, DriveGoal, Take
  <2> DEFINE g == r.by
  <2>2. /\ AllAwaited("planner")' /\ r \in Requests /\ call[g] = r /\ reply[g] = "waiting" /\ g \in Goals
        /\ (\A h \in Goals : h # g => reply'[h] = reply[h]) /\ r # NoCall
    BY <1>0, <1>2, <1>5, AwaitedServed, RequestFields DEF Effects
  <2>3. SolvedBy'
    BY <1>3, <2>1 DEF SetPlanner
  <2>4. \A h \in Goals : h # g => ~Working(h)
    BY <1>0, <1>1, <2>2, CallerWorks DEF OneTask, Sound
  <2>5. \A h \in Goals : h # g => ~Switching(h) /\ ~Switching(h)'
    BY <1>0, <2>2, <2>4, CallerWorks DEF Switching, NoCall
  <2>6. pc[g] \in {"ensure", "aim"}
    BY <1>0, <1>5, <2>2 DEF Typed, Rows, RowOK, CallAt
  <2>7. \A h \in Goals : PlannerAt(h)'
    <3>1. \A h \in Goals : pc[h] \notin {"allow", "solve"}
      BY <2>4, <2>6 DEF Working
    <3> QED
      BY <1>0, <1>2, <3>1 DEF PlannerAt, S
  <2>8. reply \in [Goals -> Replies]
    BY <1>0 DEF Typed, ThreadTypes, CallTypes
  <2>9. CASE driving # NoCall
    <3>1. planner' = planner /\ reply'[g] = "no"
      BY <2>1, <2>2, <2>8, <2>9 DEF SetPlanner, Answer
    <3>2. ~Switching(g) /\ ~Switching(g)'
      BY <2>2, <3>1 DEF Switching
    <3>3. /\ \A h \in Goals : ~Switching(h)
          /\ \A h \in Goals : ~Switching(h)'
      BY <2>5, <3>2
    <3>4. active' \in {Nothing, planner'}
      BY <1>0, <1>2, <3>1, <3>3
    <3> QED
      BY <2>2, <2>3, <2>7, <3>3, <3>4 DEF PlannerOK
  <2>10. CASE driving = NoCall
    <3>1. PICK ok \in BOOLEAN : /\ planner' = r.arg /\ Answer(r, ok)
                                /\ doubt' = IF ok THEN doubt ELSE doubt \cup {"planner"}
      BY <2>1, <2>10 DEF SetPlanner
    <3>2. ok
      BY <1>1, <3>1
    <3>3. reply'[g] = "yes" /\ planner' = call'[g].arg
      BY <1>0, <2>2, <2>8, <3>1, <3>2 DEF Answer
    <3>4. Switching(g)'
      BY <1>0, <1>5, <2>2, <3>3 DEF Switching
    <3>5. \A h \in Goals : Switching(h)' => planner' = call'[h].arg
      BY <2>5, <3>3
    <3>6. ~\A h \in Goals : ~Switching(h)'
      BY <2>2, <3>4
    <3> QED
      BY <2>2, <2>3, <2>7, <3>5, <3>6 DEF PlannerOK
  <2> QED
    BY <2>9, <2>10
<1> QED
  BY <1>4, <1>5

LEMMA PlannerStep ==
  ASSUME TaskAssumption, Core, PlannerOK, [Next]_vars PROVE PlannerOK'
<1>1. CASE UNCHANGED vars
  BY <1>1 DEF vars, place, adapter, server, history, PlannerOK, PlannerAt, SolvedBy, Switching,
              AllAwaited, Expected, Awaited, Request, S, Sound
<1>2. CASE ~Sound({"planner"})'
  BY <1>2 DEF PlannerOK
<1> QED
  BY <1>1, <1>2, PlannerTurn, PlannerServer DEF Next, Turn

LEMMA EffectsInit ==
  ASSUME TaskAssumption, Init PROVE RaisedDoubts /\ LinksOK /\ PlannerOK
<1>1. RaisedDoubts
  BY DEF Init, RaisedDoubts
<1>2. LinksOK
  BY DEF Init, LinksOK, AllAwaited, LinksAt
<1>3. PlannerOK
  BY DEF Init, PlannerOK, AllAwaited, PlannerAt, SolvedBy, Switching, NoCall
<1> QED
  BY <1>1, <1>2, <1>3

(* plan of robot/curobo.py turns the spheres of the contact links off and  *)
(* back on in a "finally": no plan leaves a link without them, whether its *)
(* solve failed, timed out or raised.                                      *)
THEOREM ContactsRestored == Spec => []ContactsAreRestored
<1> DEFINE Inv == Core /\ RaisedDoubts /\ LinksOK
<1>1. Init => Inv
  BY CoreInit, EffectsInit, TaskAssumption
<1>2. Inv /\ [Next]_vars => Inv'
  BY CoreStep, RaisedStep, LinksStep, TaskAssumption DEF Core
<1>3. Inv => ContactsAreRestored
  BY DEF LinksOK, ContactsAreRestored, InPlan
<1> QED
  BY <1>1, <1>2, <1>3, PTL DEF Spec

(* A plan whose answer plan or plan_batch awaits was made by the planner   *)
(* its request names, and a batch by one of the planners of its requests:  *)
(* a switch is made to each of them and the last one plans them all.  The  *)
(* links whose spheres are off are exactly its contacts.                   *)
THEOREM PlansSolvedAsAsked == Spec => []SolvedAsAsked
<1> DEFINE Inv == Core /\ RaisedDoubts /\ LinksOK /\ PlannerOK
<1>1. Init => Inv
  BY CoreInit, EffectsInit, TaskAssumption
<1>2. Inv /\ [Next]_vars => Inv'
  BY CoreStep, RaisedStep, LinksStep, PlannerStep, TaskAssumption DEF Core
<1>3. Inv => SolvedAsAsked
  <2> SUFFICES ASSUME Inv, Sound({"links", "planner"}), solving.kind = "solve", Awaited(solving)
               PROVE  /\ off = Program[solving.by][solving.seg].contacts \cap KnownLinks
                      /\ MadeBy(Program[solving.by][solving.seg], solving.arg)
    BY DEF SolvedAsAsked, MadeBy
  <2>1. Sound({"links"}) /\ Sound({"planner"})
    BY DEF Sound
  <2>2. solving # NoCall /\ solving \in Solves \cup {NoCall}
    BY DEF NoCall, Core, Typed, ServerTypes
  <2>3. /\ solving.by \in Goals /\ call[solving.by] = Request(solving)
        /\ Request(solving).kind = "solve" /\ Request(solving).seg = solving.seg
        /\ Request(solving) # NoCall
    BY <2>2, SolveFields, RequestFields DEF Awaited
  <2>4. pc[solving.by] = "solve" /\ seg[solving.by] = solving.seg
    BY <2>3, CallPlace DEF Core
  <2>5. off = Program[solving.by][solving.seg].contacts \cap KnownLinks
    BY <2>1, <2>3, <2>4 DEF LinksOK, LinksAt, Touchable, S
  <2>6. MadeBy(Program[solving.by][solving.seg], solving.arg)
    BY <2>1 DEF PlannerOK, SolvedBy
  <2> QED
    BY <2>5, <2>6
<1> QED
  BY <1>1, <1>2, <1>3, PTL DEF Spec

-----------------------------------------------------------------------------
(* Drives: while no drive of the playback failed, the motions driven are   *)
(* those of the chain up to where the playback stands.                     *)
Drove(g, n) ==
  /\ {driven[g][k] : k \in DOMAIN driven[g]} = {i \in 1 .. n : Program[g][i].moves}
  /\ \A j, k \in DOMAIN driven[g] : j < k => driven[g][j] < driven[g][k]
AllDone(g) == \A i \in DOMAIN results[g] : results[g][i]
DrivenUpTo(g) == IF pc[g] = "drive" /\ reply[g] = "yes" THEN seg[g] ELSE seg[g] - 1
DrivenAt(g) ==
  /\ pc[g] \notin Playing \cup {"report", "done"} => driven[g] = <<>> /\ results[g] = <<>>
  /\ pc[g] \in Playing /\ reply[g] # "raised" /\ AllDone(g) => Drove(g, DrivenUpTo(g))
  /\ pc[g] \in {"aim", "drive"} => S(g).moves
  /\ verdict[g] = "succeeded" => Drove(g, Len(Program[g]))
DrivenOK == \A g \in Goals : DrivenAt(g)

LEMMA DroveNone == ASSUME NEW g \in Goals, driven[g] = <<>> PROVE Drove(g, 0)
BY DEF Drove

LEMMA DroveSkip ==
  ASSUME NEW g, NEW n \in Nat \ {0}, ~Program[g][n].moves, Drove(g, n - 1) PROVE Drove(g, n)
<1>1. {i \in 1 .. n : Program[g][i].moves} = {i \in 1 .. n - 1 : Program[g][i].moves}
  <2>1. \A i \in 1 .. n : i \in 1 .. n - 1 \/ i = n
    OBVIOUS
  <2>2. \A i \in 1 .. n - 1 : i \in 1 .. n
    OBVIOUS
  <2> QED
    BY <2>1, <2>2
<1> QED
  BY <1>1 DEF Drove

LEMMA DroveOne ==
  ASSUME NEW g \in Goals, driven[g] \in Seq(Nat), driven'[g] = Append(driven[g], seg[g]),
         seg' = seg, seg[g] \in Nat \ {0}, Program[g][seg[g]].moves, Drove(g, seg[g] - 1)
  PROVE  Drove(g, seg[g])'
<1> DEFINE n == seg[g]
           s == driven[g]
           t == driven'[g]
<1>1. /\ DOMAIN s = 1 .. Len(s) /\ DOMAIN t = 1 .. Len(s) + 1 /\ Len(s) \in Nat
      /\ t[Len(s) + 1] = n /\ \A k \in 1 .. Len(s) : t[k] = s[k]
  OBVIOUS
<1>2. {s[k] : k \in DOMAIN s} = {i \in 1 .. n - 1 : Program[g][i].moves}
  BY DEF Drove
<1>3. {t[k] : k \in DOMAIN t} = {s[k] : k \in DOMAIN s} \cup {n}
  <2>1. DOMAIN t = DOMAIN s \cup {Len(s) + 1}
    BY <1>1
  <2>2. \A k \in DOMAIN s : t[k] = s[k]
    BY <1>1
  <2> HIDE DEF s, t
  <2> QED
    BY <1>1, <2>1, <2>2
<1>4. {t[k] : k \in DOMAIN t} = {i \in 1 .. n : Program[g][i].moves}
  <2>1. {i \in 1 .. n : Program[g][i].moves} = {i \in 1 .. n - 1 : Program[g][i].moves} \cup {n}
    <3>1. \A i \in 1 .. n : i \in 1 .. n - 1 \/ i = n
      OBVIOUS
    <3>2. (\A i \in 1 .. n - 1 : i \in 1 .. n) /\ n \in 1 .. n
      OBVIOUS
    <3> QED
      BY <3>1, <3>2
  <2> QED
    BY <1>2, <1>3, <2>1
<1>5. ASSUME NEW j \in DOMAIN t, NEW k \in DOMAIN t, j < k PROVE t[j] < t[k]
  <2>1. CASE k \in 1 .. Len(s)
    <3>1. j \in DOMAIN s /\ k \in DOMAIN s
      BY <1>1, <1>5, <2>1
    <3> QED
      BY <1>1, <1>5, <3>1 DEF Drove
  <2>2. CASE k = Len(s) + 1
    <3>1. j \in 1 .. Len(s)
      BY <1>1, <1>5, <2>2
    <3>2. s[j] \in 1 .. n - 1
      BY <1>1, <1>2, <3>1
    <3> QED
      BY <1>1, <2>2, <3>1, <3>2
  <2> QED
    BY <1>1, <2>1, <2>2
<1> QED
  BY <1>4, <1>5 DEF Drove

(* Only the end of a drive answers a drive with success.                   *)
LEMMA DriveAnswers ==
  ASSUME Typed, Server, ~DriveEnd, NEW h \in Goals, call[h].kind = "drive", reply'[h] # reply[h]
  PROVE  reply'[h] = "no"
<1>0. /\ outbox \subseteq Requests /\ reply \in [Goals -> Replies]
      /\ solving \in Solves \cup {NoCall} /\ driving \in Drives \cup {NoCall}
  BY DEF Typed, ServerTypes, ThreadTypes, CallTypes
<1>1. ASSUME NEW r, r.by \in Goals, r.kind # "drive", NEW ok, Answer(r, ok) PROVE FALSE
  BY <1>0, <1>1 DEF Answer
<1>2. ASSUME NEW r, r.by \in Goals, Answer(r, FALSE) PROVE reply'[h] = "no"
  BY <1>0, <1>2 DEF Answer
<1>3. ASSUME NEW r \in outbox, SetPlanner(r) \/ SetLinkCollision(r) \/ SceneService(r) PROVE FALSE
  <2>1. (\E ok : Answer(r, ok)) /\ r.kind # "drive" /\ r.by \in Goals
    BY <1>0, <1>3, RequestFields DEF SetPlanner, SetLinkCollision, SceneService, Serves, Fails, Take
  <2> QED
    BY <1>1, <2>1
<1>4. ASSUME NEW r \in outbox, SolveBegin(r) \/ DriveGoal(r) PROVE reply'[h] = "no"
  <2>1. (Answer(r, FALSE) \/ UNCHANGED reply) /\ r.by \in Goals
    BY <1>0, <1>4, RequestFields DEF SolveBegin, DriveGoal
  <2> QED
    BY <1>2, <2>1
<1>5. ASSUME SolveEnd PROVE FALSE
  <2>1. solving # NoCall /\ solving.kind = "solve" /\ \E ok : Answer(Request(solving), ok)
    BY <1>5 DEF SolveEnd, Solving
  <2>2. Request(solving).by \in Goals /\ Request(solving).kind # "drive"
    BY <1>0, <2>1, SolveFields
  <2> QED
    BY <1>1, <2>1, <2>2
<1>6. ASSUME DriveSolve \/ DriveSolved PROVE reply'[h] = "no"
  <2>0. driving.arg \in {"accepted", "solving"}
    BY <1>6 DEF DriveSolve, DriveSolved
  <2>a. driving # NoCall
    BY <2>0 DEF NoCall
  <2>b. Answer(Request(driving), FALSE) \/ UNCHANGED reply
    BY <1>6 DEF DriveSolve, DriveSolved
  <2>1. driving # NoCall /\ (Answer(Request(driving), FALSE) \/ UNCHANGED reply)
    BY <2>a, <2>b
  <2>2. Request(driving).by \in Goals
    BY <1>0, <2>1, DriveFields
  <2> QED
    BY <1>2, <2>1, <2>2
<1> QED
  BY <1>3, <1>4, <1>5, <1>6 DEF Server

(* The server answers a request that is waited for, once.                  *)
LEMMA ServerSettles ==
  ASSUME Typed, RequestsOK, Server
  PROVE  UNCHANGED reply \/ \E r \in Requests : Fine(r) /\ Settled(r)
<1>0. /\ outbox \subseteq Requests
      /\ solving \in Solves \cup {NoCall} /\ driving \in Drives \cup {NoCall}
  BY DEF Typed, ServerTypes
<1>1. ASSUME NEW r, NEW ok, Answer(r, ok) PROVE Settled(r)
  BY <1>1 DEF Answer, Settled
<1>2. ASSUME NEW r \in outbox, Handles(r) PROVE UNCHANGED reply \/ (Fine(r) /\ Settled(r))
  <2>1. (\E ok : Answer(r, ok)) \/ UNCHANGED reply
    BY <1>2 DEF Handles, SetPlanner, SetLinkCollision, SceneService, Serves, Fails, SolveBegin,
                DriveGoal, Take
  <2> QED
    BY <1>1, <2>1 DEF RequestsOK, Fine
<1>3. ASSUME SolveEnd PROVE \E r \in Requests : Fine(r) /\ Settled(r)
  <2>1. solving # NoCall /\ solving.kind = "solve" /\ \E ok : Answer(Request(solving), ok)
    BY <1>3 DEF SolveEnd, Solving
  <2>2. Request(solving) \in Requests /\ Fine(Request(solving))
    BY <1>0, <2>1, SolveFields DEF RequestsOK, Fine
  <2> QED
    BY <1>1, <2>1, <2>2
<1>4. ASSUME DriveSolve \/ DriveSolved \/ DriveEnd
      PROVE  UNCHANGED reply \/ \E r \in Requests : Fine(r) /\ Settled(r)
  <2>0. driving.arg \in {"accepted", "solving", "moving"}
    BY <1>4 DEF DriveSolve, DriveSolved, DriveEnd
  <2>1. driving # NoCall
    BY <2>0 DEF NoCall
  <2>2. Request(driving) \in Requests /\ Fine(Request(driving))
    BY <1>0, <2>1, DriveFields DEF RequestsOK, Fine
  <2>3. DriveSolve \/ DriveSolved => UNCHANGED reply \/ Answer(Request(driving), FALSE)
    BY DEF DriveSolve, DriveSolved
  <2>4. DriveEnd => \E ok : Answer(Request(driving), ok)
    BY DEF DriveEnd
  <2> QED
    BY <1>1, <1>4, <2>2, <2>3, <2>4
<1> QED
  BY <1>0, <1>2, <1>3, <1>4 DEF Server, Handles

LEMMA FineCall ==
  ASSUME Typed, NEW r \in Requests, Fine(r), call[r.by] = r PROVE reply[r.by] = "waiting"
<1>1. r.by \in Goals /\ r # NoCall
  BY RequestFields
<1>2. CallAt(r.by) /\ reply[r.by] # "raised"
  BY <1>1 DEF Typed, Rows, RowOK
<1> QED
  BY <1>2 DEF Fine, Expected, Lost, CallAt

LEMMA AnsweredOnce ==
  ASSUME Typed, RequestsOK, Server, NEW h \in Goals, reply'[h] # reply[h]
  PROVE  reply[h] = "waiting" /\ reply'[h] \in {"yes", "no"}
<1>1. PICK r \in Requests : Fine(r) /\ call[r.by] = r /\ \E v \in {"yes", "no"} : reply' = [reply EXCEPT ![r.by] = v]
  BY ServerSettles DEF Settled
<1>2. reply[r.by] = "waiting"
  BY <1>1, FineCall
<1> QED
  BY <1>1, <1>2, ServerMovesNobody DEF Typed, ThreadTypes, CallTypes

LEMMA DrivenServer ==
  ASSUME TaskAssumption, Core, DrivenOK, Server PROVE DrivenOK'
<1>0. /\ Typed /\ RequestsOK
      /\ UNCHANGED <<pc, seg, call, results, verdict>>
  BY ServerMovesNobody DEF Core
<1>1. \A h \in Goals : RowOK(h) /\ DrivenAt(h) /\ seg[h] \in Nat \ {0}
  BY <1>0, ChainFacts DEF Typed, Rows, RowOK, DrivenOK
<1>2. driving \in Drives \cup {NoCall} /\ driven \in [Goals -> Seq(Nat)]
  BY <1>0 DEF Typed, ServerTypes
<1>3. ASSUME NEW h \in Goals, driven'[h] = driven[h],
             pc[h] = "drive" /\ reply'[h] = "yes" => reply[h] = "yes"
      PROVE  DrivenAt(h)'
  <2>1. \A n : Drove(h, n)' <=> Drove(h, n)
    BY <1>3 DEF Drove
  <2>2. reply[h] = "raised" => reply'[h] = "raised"
    BY <1>0, AnsweredOnce
  <2>3. reply[h] = "yes" => reply'[h] = "yes"
    BY <1>0, AnsweredOnce
  <2>4. DrivenUpTo(h)' = DrivenUpTo(h)
    BY <1>0, <1>3, <2>3 DEF DrivenUpTo
  <2>5. AllDone(h)' <=> AllDone(h)
    BY <1>0 DEF AllDone
  <2>6. Drove(h, DrivenUpTo(h))' <=> Drove(h, DrivenUpTo(h))
    BY <1>3, <2>4 DEF Drove
  <2>7. Drove(h, Len(Program[h]))' <=> Drove(h, Len(Program[h]))
    BY <1>3 DEF Drove
  <2>8. DrivenAt(h) /\ S(h)' = S(h)
    BY <1>0, <1>1 DEF S
  <2>9. pc'[h] \in Playing /\ reply'[h] # "raised" /\ AllDone(h)' => Drove(h, DrivenUpTo(h))'
    BY <1>0, <2>2, <2>5, <2>6, <2>8 DEF DrivenAt
  <2>10. /\ pc'[h] \notin Playing \cup {"report", "done"} => driven'[h] = <<>> /\ results'[h] = <<>>
         /\ pc'[h] \in {"aim", "drive"} => S(h)'.moves
         /\ verdict'[h] = "succeeded" => Drove(h, Len(Program[h]))'
    BY <1>0, <1>3, <2>7, <2>8 DEF DrivenAt
  <2> QED
    BY <2>9, <2>10 DEF DrivenAt
<1>4. CASE ~DriveEnd
  <2>1. UNCHANGED driven
    BY <1>4 DEF Server, history, SetPlanner, SetLinkCollision, SceneService, SolveBegin, DriveGoal,
                SolveEnd, DriveSolve, DriveSolved
  <2>2. ASSUME NEW h \in Goals, pc[h] = "drive", reply'[h] = "yes" PROVE reply[h] = "yes"
    <3>1. SUFFICES ASSUME reply'[h] # reply[h] PROVE FALSE
      BY <2>2
    <3>2. call[h] # NoCall
      BY <1>0, <1>1, <3>1, AnsweredOnce DEF RowOK
    <3>3. call[h].kind = "drive"
      BY <1>1, <2>2, <3>2 DEF RowOK, CallAt
    <3> QED
      BY <1>0, <1>4, <2>2, <3>1, <3>3, DriveAnswers
  <2> QED
    BY <1>3, <2>1, <2>2 DEF DrivenOK
<1>5. CASE DriveEnd
  <2>0. driving # NoCall
    BY <1>5 DEF DriveEnd, NoCall
  <2>a. PICK g \in Goals : g = driving.by
    BY <1>2, <2>0, DriveFields
  <2>1. /\ g \in Goals /\ driving.seg \in Nat /\ Request(driving) \in Requests
        /\ Request(driving).by = g /\ Request(driving).kind = "drive"
        /\ Request(driving).seg = driving.seg /\ Fine(Request(driving))
    BY <1>0, <1>2, <2>0, <2>a, DriveFields DEF RequestsOK, Fine
  <2>2. PICK ok \in BOOLEAN :
          /\ Answer(Request(driving), ok)
          /\ driven' = IF ok THEN [driven EXCEPT ![g] = Append(@, driving.seg)] ELSE driven
    BY <1>5, <2>a DEF DriveEnd
  <2>3. ASSUME NEW h \in Goals, h # g PROVE DrivenAt(h)'
    <3>1. driven'[h] = driven[h] /\ reply'[h] = reply[h]
      BY <1>0, <1>2, <2>1, <2>2, <2>3 DEF Answer, Typed, ThreadTypes, CallTypes
    <3> QED
      BY <1>3, <3>1
  <2>4. reply \in [Goals -> Replies]
    BY <1>0 DEF Typed, ThreadTypes, CallTypes
  <2>5. CASE ~ok
    <3>1. driven' = driven /\ (reply'[g] = reply[g] \/ reply'[g] = "no")
      BY <2>1, <2>2, <2>4, <2>5 DEF Answer
    <3> QED
      BY <1>3, <2>1, <2>3, <3>1 DEF DrivenOK
  <2>6. CASE ok /\ call[g] = Request(driving)
    <3>1. /\ reply[g] = "waiting" /\ pc[g] = "drive" /\ seg[g] = driving.seg
      <4>1. call[g] # NoCall /\ call[g].kind = "drive" /\ reply[g] = "waiting"
        BY <1>0, <2>1, <2>6, FineCall, RequestFields
      <4>2. seg[g] = driving.seg /\ CallAt(g)
        BY <1>1, <2>1, <2>6, <4>1 DEF RowOK
      <4> QED
        BY <4>1, <4>2 DEF CallAt
    <3>2. reply'[g] = "yes" /\ driven'[g] = Append(driven[g], seg[g])
      BY <1>2, <2>1, <2>2, <2>4, <2>6, <3>1 DEF Answer
    <3>3. S(g).moves /\ verdict[g] = "none"
      BY <1>1, <2>1, <3>1 DEF DrivenAt, RowOK
    <3>4. AllDone(g) => Drove(g, seg[g] - 1)
      BY <1>1, <2>1, <3>1 DEF DrivenAt, DrivenUpTo, Playing
    <3>5. AllDone(g) => Drove(g, seg[g])'
      BY <1>0, <1>1, <1>2, <2>1, <3>2, <3>3, <3>4, DroveOne DEF S
    <3>6. DrivenUpTo(g)' = seg[g]
      BY <1>0, <3>1, <3>2 DEF DrivenUpTo
    <3>7. AllDone(g)' => Drove(g, DrivenUpTo(g))'
      BY <1>0, <3>5, <3>6 DEF AllDone, Drove
    <3>8. DrivenAt(g)'
      BY <1>0, <3>1, <3>3, <3>7 DEF DrivenAt, Playing, S
    <3> QED
      BY <2>3, <3>8 DEF DrivenOK
  <2>7. CASE ok /\ call[g] # Request(driving)
    <3>1. Lost(Request(driving)) /\ UNCHANGED reply
      BY <2>1, <2>2, <2>7 DEF Fine, Expected, Answer
    <3>2. \/ reply[g] = "raised" /\ pc[g] = "drive" /\ verdict[g] = "none"
          \/ pc[g] \in {"report", "done"} /\ verdict[g] = "aborted"
      BY <1>1, <2>1, <3>1 DEF Lost, RowOK
    <3>3. pc[g] = "drive" => S(g).moves
      BY <1>1, <2>1 DEF DrivenAt
    <3>4. DrivenAt(g)'
      BY <1>0, <3>1, <3>2, <3>3 DEF DrivenAt, Playing, S
    <3> QED
      BY <2>3, <3>4 DEF DrivenOK
  <2> QED
    BY <2>5, <2>6, <2>7
<1> QED
  BY <1>4, <1>5

LEMMA DrivenTurn ==
  ASSUME TaskAssumption, Typed, NEW g \in Goals, Turn(g), DrivenAt(g)
  PROVE  DrivenAt(g)'
<1> USE DEF Goto, Abort, place, adapter, record
<1>0. PlaceTypes /\ CallTypes /\ RecordTypes /\ RowOK(g)
  BY DEF Typed, ThreadTypes, Rows
<1>1. driven' = driven
  BY TurnLeavesServer DEF ServerStill
<1>2. /\ seg[g] \in Nat \ {0} /\ seg[g] \in 1 .. Len(Program[g]) /\ Len(Program[g]) \in Nat \ {0}
      /\ results[g] \in Seq(BOOLEAN) /\ S(g).moves \in BOOLEAN
  BY <1>0, ChainFacts DEF RowOK, RecordTypes, S
<1>3. \A n : Drove(g, n)' <=> Drove(g, n)
  BY <1>1 DEF Drove
<1>3a. ASSUME NEW n, Drove(g, n), NEW m, m = n PROVE Drove(g, m)'
  BY <1>1, <1>3a DEF Drove
<1>4. verdict[g] # "none" => pc[g] \in {"report", "done"}
  BY <1>0 DEF RowOK
<1>5. CASE GoalCallback(g) \/ ExecuteCallback(g) \/ Segment(g) \/ NextSegment(g)
  <2>1. /\ UNCHANGED results /\ pc[g] \notin Playing \cup {"report", "done"} /\ pc'[g] \notin Playing
        /\ verdict'[g] # "succeeded"
    <3>1. pc[g] \in {"idle", "accepted", "segment", "next"}
      BY <1>5 DEF GoalCallback, ExecuteCallback, Segment, NextSegment
    <3>2. verdict'[g] \in {"none", "rejected", "aborted"}
      BY <1>0, <1>4, <1>5, <3>1 DEF GoalCallback, ExecuteCallback, Segment, NextSegment, RecordTypes
    <3>3. pc'[g] \in {"done", "accepted", "segment", "report", "ensure", "planned"}
      BY <1>0, <1>5, <3>1 DEF GoalCallback, ExecuteCallback, Segment, NextSegment, PlaceTypes
    <3>4. UNCHANGED results
      BY <1>5 DEF GoalCallback, ExecuteCallback, Segment, NextSegment
    <3> QED
      BY <3>1, <3>2, <3>3, <3>4 DEF Playing
  <2> QED
    BY <1>1, <2>1 DEF DrivenAt, Playing
<1>6. CASE PlanCall(g) \/ LinksAllowed(g) \/ SolveHeard(g) \/ LinksRestored(g)
  <2>1. pc[g] \in {"allow", "solve", "restore"} /\ UNCHANGED results
    BY <1>6 DEF PlanCall, LinksAllowed, SolveHeard, LinksRestored
  <2>2. pc'[g] \in {"allow", "solve", "restore", "next", "report"} /\ verdict'[g] \in {"none", "aborted"}
    <3>1. CASE PlanCall(g)
      BY <1>0, <1>4, <2>1, <3>1 DEF PlanCall, PlaceTypes, RecordTypes
    <3>2. CASE LinksAllowed(g) \/ SolveHeard(g) \/ LinksRestored(g)
      BY <1>0, <1>4, <2>1, <3>2 DEF LinksAllowed, SolveHeard, LinksRestored, PlaceTypes, RecordTypes
    <3> QED
      BY <1>6, <3>1, <3>2
  <2> QED
    BY <1>1, <2>1, <2>2 DEF DrivenAt, Playing
<1>7. CASE GiveUp(g)
  <2>1. reply'[g] = "raised" /\ UNCHANGED <<pc, seg, results, verdict>>
    BY <1>0, <1>7 DEF GiveUp, CallTypes
  <2>2. verdict'[g] = "succeeded" => Drove(g, Len(Program[g]))'
    BY <1>3a, <2>1 DEF DrivenAt
  <2> QED
    BY <1>1, <2>1, <2>2 DEF DrivenAt, S
<1>8. CASE Report(g)
  <2>1. pc'[g] = "done" /\ UNCHANGED verdict
    BY <1>0, <1>8 DEF Report, PlaceTypes
  <2>2. verdict'[g] = "succeeded" => Drove(g, Len(Program[g]))'
    BY <1>3a, <2>1 DEF DrivenAt
  <2> QED
    BY <2>1, <2>2 DEF DrivenAt, Playing
<1>9. CASE StartPlayback(g)
  <2>1. /\ pc[g] = "planned" /\ seg'[g] = 1 /\ UNCHANGED <<results, reply>>
        /\ pc'[g] \in {"report", "apply"} /\ verdict'[g] \in {"none", "solved"}
    BY <1>0, <1>4, <1>9 DEF StartPlayback, PlaceTypes, RecordTypes
  <2>2. Drove(g, 0)
    BY <2>1, DroveNone DEF DrivenAt, Playing
  <2>3. pc'[g] = "apply" => DrivenUpTo(g)' = 0
    BY <2>1 DEF DrivenUpTo
  <2>4. pc'[g] = "apply" => Drove(g, DrivenUpTo(g))'
    BY <1>3a, <2>2, <2>3
  <2> QED
    BY <2>1, <2>4 DEF DrivenAt, Playing
<1>10. CASE SwitchPlanner(g) \/ PlannerSwitched(g)
  <2>1. /\ pc[g] \in {"ensure", "aim"} /\ UNCHANGED <<seg, results>>
        /\ pc[g] = "ensure" => pc'[g] \in {"ensure", "allow", "report"}
        /\ pc[g] = "aim" => pc'[g] \in {"aim", "drive", "report"}
        /\ verdict'[g] \in {"none", "aborted"}
        /\ pc'[g] \in {"aim", "drive"} => reply[g] # "raised" /\ reply'[g] # "yes"
    <3>1. CASE SwitchPlanner(g)
      <4>1. pc[g] \in {"ensure", "aim"} /\ UNCHANGED <<seg, results, verdict>> /\ reply[g] = "none"
        BY <3>1 DEF SwitchPlanner
      <4>2. \/ UNCHANGED pc /\ reply'[g] = "waiting"
            \/ UNCHANGED reply /\ Goto(g, IF pc[g] = "ensure" THEN "allow" ELSE "drive")
        BY <1>0, <3>1 DEF SwitchPlanner, Ask, CallTypes
      <4> QED
        BY <1>0, <1>4, <4>1, <4>2 DEF PlaceTypes, RecordTypes
    <3>2. CASE PlannerSwitched(g)
      BY <1>0, <1>4, <3>2 DEF PlannerSwitched, Heard, PlaceTypes, RecordTypes, CallTypes
    <3> QED
      BY <1>10, <3>1, <3>2
  <2>2. CASE pc'[g] \in {"aim", "drive"}
    <3>1. S(g)' = S(g) /\ S(g).moves /\ (AllDone(g)' <=> AllDone(g)) /\ pc[g] = "aim"
      BY <2>1, <2>2 DEF DrivenAt, AllDone, S
    <3>2. DrivenUpTo(g)' = seg[g] - 1 /\ DrivenUpTo(g) = seg[g] - 1
      BY <2>1, <2>2, <3>1 DEF DrivenUpTo
    <3>3. AllDone(g)' => Drove(g, DrivenUpTo(g))'
      BY <1>3a, <2>1, <2>2, <3>1, <3>2 DEF DrivenAt, Playing
    <3> QED
      BY <2>1, <2>2, <3>1, <3>3 DEF DrivenAt, Playing
  <2>3. CASE pc'[g] \notin {"aim", "drive"}
    BY <1>1, <2>1, <2>3 DEF DrivenAt, Playing
  <2> QED
    BY <2>2, <2>3
<1>11. CASE ApplyOp(g) \/ OpApplied(g)
  <2>1. pc[g] = "apply" /\ UNCHANGED <<seg, results>> /\ pc'[g] \in {"apply", "report"}
        /\ verdict'[g] \in {"none", "aborted"} /\ (pc'[g] = "apply" => reply[g] # "raised")
    <3>1. CASE ApplyOp(g)
      BY <1>0, <1>4, <3>1 DEF ApplyOp, RecordTypes
    <3>2. CASE OpApplied(g)
      BY <1>0, <1>4, <3>2 DEF OpApplied, PlaceTypes, RecordTypes
    <3> QED
      BY <1>11, <3>1, <3>2
  <2>2. pc'[g] = "apply" => DrivenUpTo(g)' = seg[g] - 1 /\ DrivenUpTo(g) = seg[g] - 1
    BY <2>1 DEF DrivenUpTo
  <2>3. pc'[g] = "apply" /\ AllDone(g)' => Drove(g, DrivenUpTo(g))'
    BY <1>3a, <2>1, <2>2 DEF DrivenAt, AllDone, Playing
  <2> QED
    BY <2>1, <2>3 DEF DrivenAt, Playing
<1>12. ASSUME NEW rs \in Seq(BOOLEAN), rs = results'[g], Advance(g, rs), verdict[g] = "none",
              reply'[g] = "none",
              AllDone(g)' => Drove(g, seg[g])
       PROVE  DrivenAt(g)'
  <2>1. CASE seg[g] = Len(Program[g])
    <3>1. pc'[g] = "report" /\ verdict'[g] = Outcome(g, rs)
      BY <1>0, <1>12, <2>1 DEF Advance, PlaceTypes, RecordTypes
    <3>2. verdict'[g] = "succeeded" => AllDone(g)'
      BY <1>12, <3>1 DEF Outcome, AllDone
    <3>3. verdict'[g] = "succeeded" => Drove(g, Len(Program[g]))'
      BY <1>3a, <1>12, <2>1, <3>2
    <3> QED
      BY <3>1, <3>3 DEF DrivenAt, Playing
  <2>2. CASE seg[g] # Len(Program[g])
    <3>1. pc'[g] = "apply" /\ seg'[g] = seg[g] + 1 /\ verdict'[g] = "none"
      BY <1>0, <1>12, <2>2 DEF Advance, PlaceTypes
    <3>2. DrivenUpTo(g)' = seg[g]
      BY <1>2, <3>1 DEF DrivenUpTo
    <3>3. AllDone(g)' => Drove(g, DrivenUpTo(g))'
      BY <1>3a, <1>12, <3>2
    <3> QED
      BY <3>1, <3>3 DEF DrivenAt, Playing
  <2> QED
    BY <2>1, <2>2
<1>13. CASE OpsDone(g)
  <2>1. pc[g] = "apply" /\ reply[g] = "none" /\ UNCHANGED <<results, reply>> /\ verdict[g] = "none"
    BY <1>4, <1>13 DEF OpsDone
  <2>2. AllDone(g) => Drove(g, seg[g] - 1)
    BY <2>1 DEF DrivenAt, DrivenUpTo, Playing
  <2>3. CASE S(g).moves
    <3>1. pc'[g] = "aim" /\ UNCHANGED <<seg, verdict>>
      BY <1>0, <1>13, <2>3 DEF OpsDone, PlaceTypes
    <3>2. DrivenUpTo(g)' = seg[g] - 1
      BY <3>1 DEF DrivenUpTo
    <3>3. AllDone(g)' => Drove(g, DrivenUpTo(g))'
      BY <1>3a, <2>1, <2>2, <3>2 DEF AllDone
    <3> QED
      BY <2>1, <2>3, <3>1, <3>3 DEF DrivenAt, Playing, S
  <2>4. CASE ~S(g).moves
    <3>1. AllDone(g) => Drove(g, seg[g])
      BY <1>2, <2>2, <2>4, DroveSkip DEF S
    <3>2. Advance(g, results[g])
      BY <1>13, <2>4 DEF OpsDone
    <3> QED
      BY <1>2, <1>12, <2>1, <3>1, <3>2 DEF AllDone
  <2> QED
    BY <2>3, <2>4
<1>14. CASE Drive(g)
  <2>1. /\ pc[g] = "drive" /\ UNCHANGED <<pc, seg, results, verdict>> /\ reply[g] = "none"
        /\ reply'[g] = "waiting"
    BY <1>0, <1>14 DEF Drive, Ask, CallTypes
  <2>2. DrivenUpTo(g)' = seg[g] - 1 /\ DrivenUpTo(g) = seg[g] - 1
    BY <2>1 DEF DrivenUpTo
  <2>3. AllDone(g)' => Drove(g, DrivenUpTo(g))'
    BY <1>3a, <2>1, <2>2 DEF DrivenAt, AllDone, Playing
  <2>4. verdict'[g] = "none"
    BY <1>4, <2>1
  <2> QED
    BY <2>1, <2>3, <2>4 DEF DrivenAt, Playing, S
<1>15. CASE DriveHeard(g)
  <2>1. pc[g] = "drive" /\ reply[g] \in {"yes", "no", "raised"} /\ reply'[g] = "none" /\ verdict[g] = "none"
    BY <1>0, <1>4, <1>15 DEF DriveHeard, Heard, CallTypes
  <2>2. CASE reply[g] = "raised"
    <3>1. pc'[g] = "report" /\ verdict'[g] = "aborted"
      BY <1>0, <1>15, <2>2 DEF DriveHeard, PlaceTypes, RecordTypes
    <3> QED
      BY <3>1 DEF DrivenAt, Playing
  <2>3. CASE reply[g] # "raised"
    <3>1. /\ results'[g] = Append(results[g], reply[g] = "yes") /\ Advance(g, results'[g])
          /\ (reply[g] = "yes") \in BOOLEAN
      BY <1>0, <1>15, <2>3 DEF DriveHeard, RecordTypes
    <3>2. results'[g] \in Seq(BOOLEAN)
      BY <1>2, <3>1
    <3>3. AllDone(g)' => AllDone(g) /\ reply[g] = "yes"
      <4>1. /\ DOMAIN results'[g] = 1 .. Len(results[g]) + 1 /\ Len(results[g]) \in Nat
            /\ results'[g][Len(results[g]) + 1] = (reply[g] = "yes")
            /\ \A i \in DOMAIN results[g] : i \in DOMAIN results'[g] /\ results'[g][i] = results[g][i]
        BY <1>2, <3>1
      <4>2. Len(results[g]) + 1 \in DOMAIN results'[g]
        BY <4>1
      <4> QED
        BY <4>1, <4>2 DEF AllDone
    <3>4. AllDone(g)' => Drove(g, seg[g])
      BY <2>1, <3>3 DEF DrivenAt, DrivenUpTo, Playing
    <3> QED
      BY <1>12, <2>1, <3>1, <3>2, <3>4
  <2> QED
    BY <2>2, <2>3
<1> QED
  BY <1>5, <1>6, <1>7, <1>8, <1>9, <1>10, <1>11, <1>13, <1>14, <1>15 DEF Turn, Thread

LEMMA DrivenStep ==
  ASSUME TaskAssumption, Core, DrivenOK, [Next]_vars PROVE DrivenOK'
<1>1. CASE UNCHANGED vars
  BY <1>1 DEF vars, place, adapter, record, history, DrivenOK, DrivenAt, Drove, AllDone, DrivenUpTo, S
<1>2. ASSUME NEW g \in Goals, Turn(g) PROVE DrivenOK'
  <2>0. Typed /\ driven' = driven
    BY <1>2, TurnLeavesServer DEF Core, ServerStill
  <2>1. DrivenAt(g)'
    BY <1>2, <2>0, DrivenTurn DEF DrivenOK
  <2>2. ASSUME NEW h \in Goals, h # g PROVE DrivenAt(h)'
    <3>1. SameRow(h) /\ DrivenAt(h)
      BY <1>2, <2>0, <2>2, OnlyOwnRow DEF Typed, DrivenOK
    <3> QED
      BY <2>0, <3>1 DEF SameRow, DrivenAt, Drove, AllDone, DrivenUpTo, S
  <2> QED
    BY <2>1, <2>2 DEF DrivenOK
<1> QED
  BY <1>1, <1>2, DrivenServer DEF Next, Turn

LEMMA DrivenInit == ASSUME TaskAssumption, Init PROVE DrivenOK
BY DEF Init, DrivenOK, DrivenAt, Playing

(* The client is told of a success only when every motion of the chain was *)
(* driven to its end, once and in order: a drive that failed, or one that  *)
(* ended after its deadline, never counts (TaskExecutor.execute).          *)
THEOREM SuccessDriven == Spec => []SuccessIsDriven
<1> DEFINE Inv == Core /\ DrivenOK
<1>1. Init => Inv
  BY CoreInit, DrivenInit, TaskAssumption
<1>2. Inv /\ [Next]_vars => Inv'
  BY CoreStep, DrivenStep, TaskAssumption
<1>3. Inv => SuccessIsDriven
  <2> SUFFICES ASSUME Inv, NEW g \in Goals, verdict[g] = "succeeded"
               PROVE  /\ {driven[g][k] : k \in DOMAIN driven[g]} = {i \in DOMAIN Program[g] : Program[g][i].moves}
                      /\ \A j, k \in DOMAIN driven[g] : j < k => driven[g][j] < driven[g][k]
    BY DEF SuccessIsDriven
  <2>1. Drove(g, Len(Program[g])) /\ DOMAIN Program[g] = 1 .. Len(Program[g])
    BY ChainFacts, TaskAssumption DEF DrivenOK, DrivenAt
  <2> QED
    BY <2>1 DEF Drove
<1> QED
  BY <1>1, <1>2, <1>3, PTL DEF Spec

-----------------------------------------------------------------------------
(* The mirror: once the operation just answered is recorded, it is the     *)
(* server's scene.                                                         *)
SceneAwaited == Sound({"scene"}) => AllAwaited("scene")

LEMMA SceneAwaitedStep ==
  ASSUME TaskAssumption, Typed, SceneAwaited, [Next]_vars PROVE SceneAwaited'
<1>1. SUFFICES ASSUME Sound({"scene"})' PROVE AllAwaited("scene")'
  BY DEF SceneAwaited
<1>2. AllAwaited("scene") /\ "scene" \notin doubt'
  BY <1>1, SoundBefore DEF SceneAwaited, Sound
<1>3. CASE UNCHANGED vars
  BY <1>2, <1>3 DEF vars, adapter, AllAwaited, Expected
<1>4. CASE Server
  BY <1>2, <1>4, AwaitedServed, AwaitedUnserved DEF Effects
<1>5. ASSUME NEW g \in Goals, Turn(g) PROVE AllAwaited("scene")'
  BY <1>2, <1>5, AwaitedStays DEF Effects
<1> QED
  BY <1>3, <1>4, <1>5 DEF Next, Turn

Answered(g) == call[g].kind = "scene" /\ reply[g] \in {"yes", "no"}
Recorded(g) == Mirrored(call[g].arg, reply[g] = "yes")

LEMMA TurnRecords ==
  ASSUME TaskAssumption, Typed, NEW g \in Goals, Turn(g)
  PROVE  /\ scene' = scene
         /\ Answered(g)' => Answered(g) /\ call'[g] = call[g] /\ reply'[g] = reply[g] /\ mirror' = mirror
         /\ Answered(g) /\ ~Answered(g)' => mirror' = Recorded(g)
         /\ ~Answered(g) => mirror' = mirror
<1>0. RowOK(g) /\ CallTypes
  BY DEF Typed, Rows, ThreadTypes
<1>1. scene' = scene
  BY TurnLeavesServer DEF ServerStill
<1>2. Answered(g)' => Answered(g) /\ call'[g] = call[g] /\ reply'[g] = reply[g]
  BY TurnReplies DEF Answered
<1>3. Answered(g) => pc[g] = "apply" /\ reply[g] \in {"yes", "no"}
  BY <1>0 DEF Answered, RowOK, CallAt, NoCall
<1>4. Answered(g) => OpApplied(g)
  BY <1>3 DEF Turn, Thread, GoalCallback, GiveUp, ExecuteCallback, Report, Segment, SwitchPlanner,
       PlannerSwitched, PlanCall, LinksAllowed, SolveHeard, LinksRestored, NextSegment,
       StartPlayback, ApplyOp, OpsDone, Drive, DriveHeard
<1>5. Answered(g) => mirror' = Recorded(g) /\ reply'[g] = "none"
  BY <1>0, <1>3, <1>4 DEF OpApplied, Heard, Recorded, CallTypes
<1>6. ~Answered(g) => mirror' = mirror
  <2>1. CASE OpApplied(g)
    <3>1. call[g].kind # "scene" => call[g] = NoCall
      BY <1>0, <2>1 DEF OpApplied, RowOK, CallAt
    <3>2. reply[g] # "raised" => Answered(g)
      BY <1>0, <2>1, <3>1 DEF Answered, OpApplied, RowOK
    <3> QED
      BY <2>1, <3>2 DEF OpApplied
  <2>2. CASE ~OpApplied(g)
    BY <2>2 DEF Turn, Thread, adapter, GoalCallback, GiveUp, ExecuteCallback, Report, Segment,
       SwitchPlanner, PlannerSwitched, PlanCall, LinksAllowed, SolveHeard, LinksRestored,
       NextSegment, StartPlayback, ApplyOp, OpsDone, Drive, DriveHeard
  <2> QED
    BY <2>1, <2>2
<1>7. Answered(g)' => mirror' = mirror
  BY <1>2, <1>5 DEF Answered
<1> QED
  BY <1>1, <1>2, <1>5, <1>6, <1>7

(* The scene changes by the operation of the only task's open call, and it *)
(* is answered at once; or the operation is refused.                       *)
Done(g) ==
  /\ reply'[g] = IF Feasible(Op(g), scene) THEN "yes" ELSE "no"
  /\ scene' = Changed(Op(g), scene) /\ doubt' = doubt \cup Swapped(Op(g))
Refused(g) ==
  /\ Op(g).do \in {"add", "attach"} /\ reply'[g] = "no"
  /\ scene' = scene /\ doubt' = doubt \cup {"refused"}

LEMMA SceneServed ==
  ASSUME TaskAssumption, Core, SceneAwaited, Server, Sound({"scene"})'
  PROVE  \/ /\ scene' = scene
            /\ \A h \in Goals : call[h].kind = "scene" => reply'[h] = reply[h]
         \/ \E g \in Goals :
              /\ call[g].kind = "scene" /\ pc[g] = "apply" /\ call[g].arg = Op(g) /\ Op(g) \in SceneOps
              /\ op[g] \in DOMAIN S(g).ops
              /\ reply[g] = "waiting" /\ (Done(g) \/ Refused(g))
              /\ \A h \in Goals : h # g => ~Working(h) /\ reply'[h] = reply[h]
<1>0. Typed /\ OneTask /\ Sound({"scene"}) /\ AllAwaited("scene")
  BY SoundBefore DEF Core, SceneAwaited, Next
<1>1. CASE ~\E r \in outbox : r.kind = "scene" /\ Handles(r)
  BY <1>0, <1>1, OtherEffects DEF Effects
<1>2. ASSUME NEW r \in outbox, r.kind = "scene", Handles(r)
      PROVE  \E g \in Goals :
              /\ call[g].kind = "scene" /\ pc[g] = "apply" /\ call[g].arg = Op(g) /\ Op(g) \in SceneOps
              /\ op[g] \in DOMAIN S(g).ops
              /\ reply[g] = "waiting" /\ (Done(g) \/ Refused(g))
              /\ \A h \in Goals : h # g => ~Working(h) /\ reply'[h] = reply[h]
  <2>1. SceneService(r)
    BY <1>2 DEF Handles, SetPlanner, SetLinkCollision, SolveBegin, DriveGoal, Take
  <2>2. /\ r \in Requests /\ call[r.by] = r /\ reply[r.by] = "waiting" /\ r.by \in Goals /\ r # NoCall
        /\ (\A h \in Goals : h # r.by => reply'[h] = reply[h])
    BY <1>0, <1>2, AwaitedServed, RequestFields DEF Effects
  <2>3. \A h \in Goals : h # r.by => ~Working(h)
    BY <1>0, <2>2, CallerWorks DEF OneTask, Sound
  <2>4. RowOK(r.by)
    BY <1>0, <2>2 DEF Typed, Rows
  <2>5. pc[r.by] = "apply" /\ r.arg = Op(r.by) /\ op[r.by] <= Len(S(r.by).ops)
        /\ op[r.by] \in 1 .. Len(S(r.by).ops) + 1 /\ seg[r.by] \in DOMAIN Program[r.by]
    BY <1>2, <2>2, <2>4 DEF RowOK, CallAt
  <2>6. S(r.by).ops \in Seq(SceneOps)
    BY <2>2, <2>5, ChainFacts DEF S
  <2>7. op[r.by] \in DOMAIN S(r.by).ops
    BY <2>5, <2>6
  <2>8. Op(r.by) \in SceneOps
    BY <2>6, <2>7 DEF Op
  <2>9. reply \in [Goals -> Replies]
    BY <1>0 DEF Typed, ThreadTypes, CallTypes
  <2>10. "scene" \notin doubt'
    BY DEF Sound
  <2>11. Done(r.by) \/ Refused(r.by)
    <3>1. CASE Serves(r)
      BY <2>2, <2>5, <2>9, <3>1 DEF Serves, Answer, Done
    <3>2. CASE Fails(r)
      BY <2>2, <2>5, <2>9, <2>10, <3>2 DEF Fails, Answer, Refused
    <3> QED
      BY <2>1, <3>1, <3>2 DEF SceneService
  <2> QED
    BY <1>2, <2>2, <2>3, <2>5, <2>7, <2>8, <2>11
<1> QED
  BY <1>1, <1>2

Shows(m) ==
  /\ m.objects = scene.objects /\ scene.held \in m.attached \cup {Nothing}
  /\ "load" \notin doubt => m.attached \subseteq {scene.held}
MirrorOK ==
  Sound({"scene"}) =>
    /\ \A g \in Goals : Answered(g) => Shows(Recorded(g))
    /\ (\A g \in Goals : ~Answered(g)) => Shows(mirror)

(* What the adapter records of an operation is what the server did.        *)
LEMMA MirrorFollows ==
  ASSUME NEW o \in SceneOps, scene \in Scenes, Nothing \notin Objects, Shows(mirror),
         mirror \in [objects : SUBSET Objects, attached : SUBSET Objects]
  PROVE  /\ Mirrored(o, Feasible(o, scene)).objects = Changed(o, scene).objects
         /\ Changed(o, scene).held \in Mirrored(o, Feasible(o, scene)).attached \cup {Nothing}
         /\ "load" \notin doubt \cup Swapped(o) =>
              Mirrored(o, Feasible(o, scene)).attached \subseteq {Changed(o, scene).held}
<1> DEFINE O == scene.objects
           H == scene.held
           A == mirror.attached
<1>0. /\ mirror.objects = O /\ H \in A \cup {Nothing} /\ ("load" \notin doubt => A \subseteq {H})
      /\ H \in Objects \cup {Nothing} /\ o.name \in Objects /\ o.name # Nothing
      /\ A \subseteq Objects /\ Nothing \notin Objects
  BY DEF Shows, Scenes, SceneOps
<1>a. /\ \A x : [mirror EXCEPT !.objects = x] = [objects |-> x, attached |-> A]
      /\ \A x : [mirror EXCEPT !.attached = x] = [objects |-> O, attached |-> x]
  BY <1>0
<1>b. /\ \A x : [scene EXCEPT !.objects = x] = [objects |-> x, held |-> H]
      /\ \A x : [scene EXCEPT !.held = x] = [objects |-> O, held |-> x]
  BY DEF Scenes
<1> HIDE DEF O, H, A
<1>1. CASE o.do = "add"
  <2>1. CASE o.name \notin scene.objects
    <3>1. Feasible(o, scene) = TRUE
      BY <1>1, <2>1 DEF Feasible
    <3>2. Mirrored(o, Feasible(o, scene)) = [objects |-> O \cup {o.name}, attached |-> A]
          /\ Changed(o, scene) = [objects |-> O \cup {o.name}, held |-> H]
      BY <1>0, <1>a, <1>b, <1>1, <3>1 DEF Mirrored, Changed, O, H, A
    <3> QED
      BY <1>0, <1>1, <3>2 DEF O, H, A
  <2>2. CASE o.name \in scene.objects
    <3>1. Feasible(o, scene) = FALSE
      BY <1>1, <2>2 DEF Feasible
    <3>2. Mirrored(o, Feasible(o, scene)) = mirror /\ Changed(o, scene) = scene
      BY <1>1, <3>1 DEF Mirrored, Changed, O, H, A
    <3> QED
      BY <1>0, <3>2 DEF O, H, A
  <2> QED
    BY <2>1, <2>2
<1>2. CASE o.do = "remove"
  <2>1. CASE o.name \in scene.objects
    <3>1. Feasible(o, scene) = TRUE
      BY <1>2, <2>1 DEF Feasible
    <3>2. Mirrored(o, Feasible(o, scene)) = [objects |-> O \ {o.name}, attached |-> A]
          /\ Changed(o, scene) = [objects |-> O \ {o.name}, held |-> H]
      BY <1>0, <1>a, <1>b, <1>2, <3>1 DEF Mirrored, Changed, O, H, A
    <3> QED
      BY <1>0, <1>2, <3>2 DEF O, H, A
  <2>2. CASE o.name \notin scene.objects
    <3>1. Feasible(o, scene) = FALSE
      BY <1>2, <2>2 DEF Feasible
    <3>2. Mirrored(o, Feasible(o, scene)) = mirror /\ Changed(o, scene) = scene
      BY <1>2, <3>1 DEF Mirrored, Changed, O, H, A
    <3> QED
      BY <1>0, <3>2 DEF O, H, A
  <2> QED
    BY <2>1, <2>2
<1>3. CASE o.do = "attach"
  <2>1. CASE o.name \in scene.objects
    <3>1. Feasible(o, scene) = TRUE
      BY <1>3, <2>1 DEF Feasible
    <3>2. Mirrored(o, Feasible(o, scene)) = [objects |-> O, attached |-> A \cup {o.name}]
          /\ Changed(o, scene) = [objects |-> O, held |-> o.name]
      BY <1>a, <1>b, <1>3, <3>1 DEF Mirrored, Changed, O, H, A
    <3>3. "load" \notin Swapped(o) => H \in {Nothing, o.name}
      BY <1>3, <3>1 DEF Swapped, H
    <3> QED
      BY <1>0, <1>3, <3>2, <3>3 DEF O, H, A
  <2>2. CASE o.name \notin scene.objects
    <3>1. Feasible(o, scene) = FALSE
      BY <1>3, <2>2 DEF Feasible
    <3>2. Mirrored(o, Feasible(o, scene)) = mirror /\ Changed(o, scene) = scene
      BY <1>3, <3>1 DEF Mirrored, Changed, O, H, A
    <3> QED
      BY <1>0, <3>2 DEF O, H, A
  <2> QED
    BY <2>1, <2>2
<1>4. CASE o.do = "detach"
  <2>1. Feasible(o, scene) = TRUE
    BY <1>4 DEF Feasible
  <2>2. Mirrored(o, Feasible(o, scene)) = [objects |-> O, attached |-> A \ {o.name}]
        /\ Changed(o, scene) = [objects |-> O, held |-> Nothing]
    BY <1>a, <1>b, <1>4, <2>1 DEF Mirrored, Changed, O, H, A
  <2>3. "load" \notin Swapped(o) => H \in {Nothing, o.name}
    BY <1>4, <2>1 DEF Swapped, H
  <2> QED
    BY <1>0, <1>4, <2>2, <2>3 DEF O, H, A
<1> QED
  BY <1>1, <1>2, <1>3, <1>4 DEF SceneOps

LEMMA FeasibleBoolean ==
  ASSUME NEW o \in SceneOps, NEW sc PROVE Feasible(o, sc) \in BOOLEAN
<1>1. CASE o.do = "add"
  BY <1>1 DEF Feasible
<1>2. CASE o.do \in {"remove", "attach"}
  BY <1>2 DEF Feasible
<1>3. CASE o.do = "detach"
  BY <1>3 DEF Feasible
<1> QED
  BY <1>1, <1>2, <1>3 DEF SceneOps

LEMMA MirrorStep ==
  ASSUME TaskAssumption, Core, SceneAwaited, MirrorOK, [Next]_vars PROVE MirrorOK'
<1>1. SUFFICES ASSUME Sound({"scene"})' PROVE MirrorOK'
  BY DEF MirrorOK
<1>2. Typed /\ OneTask /\ Sound({"scene"})
  BY <1>1, SoundBefore DEF Core
<1>3. /\ \A g \in Goals : Answered(g) => Shows(Recorded(g))
      /\ (\A g \in Goals : ~Answered(g)) => Shows(mirror)
  BY <1>2 DEF MirrorOK
<1>d. doubt \subseteq doubt'
  BY <1>2, DoubtGrows
<1>4. CASE UNCHANGED vars
  <2>1. UNCHANGED <<call, reply, mirror, scene>>
    BY <1>4 DEF vars, adapter, server
  <2>2. \A h \in Goals : (Answered(h)' <=> Answered(h)) /\ Recorded(h)' = Recorded(h)
    BY <2>1 DEF Answered, Recorded, Mirrored
  <2>3. ASSUME NEW h \in Goals, Answered(h)' PROVE Shows(Recorded(h))'
    BY <1>d, <1>3, <2>1, <2>2, <2>3 DEF Shows
  <2>4. (\A h \in Goals : ~Answered(h)') => Shows(mirror)'
    BY <1>d, <1>3, <2>1, <2>2 DEF Shows
  <2> QED
    BY <1>d, <1>3, <2>1, <2>3, <2>4 DEF MirrorOK
<1>5. ASSUME NEW g \in Goals, Turn(g) PROVE MirrorOK'
  <2>1. \A h \in Goals : h # g => SameRow(h)
    BY <1>2, <1>5, OnlyOwnRow DEF Typed
  <2>2. \A h \in Goals : h # g => (Answered(h)' <=> Answered(h))
    BY <2>1 DEF SameRow, Answered
  <2>3. scene' = scene
    BY <1>2, <1>5, TurnRecords
  <2>4. CASE Answered(g)'
    <3>1. Answered(g) /\ call'[g] = call[g] /\ reply'[g] = reply[g] /\ mirror' = mirror
      BY <1>2, <1>5, <2>4, TurnRecords
    <3>2. Shows(Recorded(g))'
      BY <1>d, <1>3, <2>3, <3>1 DEF Shows, Recorded, Mirrored
    <3>3. ASSUME NEW h \in Goals, h # g, Answered(h)' PROVE Shows(Recorded(h))'
      <4>1. Answered(h) /\ Recorded(h)' = Recorded(h)
        BY <2>1, <2>2, <3>1, <3>3 DEF SameRow, Recorded, Mirrored
      <4> QED
        BY <1>d, <1>3, <2>3, <4>1 DEF Shows
    <3> QED
      BY <1>d, <1>3, <2>3, <2>4, <3>2, <3>3 DEF MirrorOK
  <2>5. CASE Answered(g) /\ ~Answered(g)'
    <3>1. mirror' = Recorded(g) /\ Shows(Recorded(g))
      BY <1>2, <1>3, <1>5, <2>5, TurnRecords
    <3>2. Shows(mirror)'
      BY <1>d, <2>3, <3>1 DEF Shows
    <3>3. \A h \in Goals : ~Answered(h)'
      BY <1>2, <2>2, <2>5, CallerWorks DEF OneTask, Sound, Answered, NoCall
    <3> QED
      BY <1>d, <1>3, <2>3, <3>2, <3>3 DEF MirrorOK
  <2>6. CASE ~Answered(g) /\ ~Answered(g)'
    <3>1. mirror' = mirror
      BY <1>2, <1>5, <2>6, TurnRecords
    <3>2. ASSUME NEW h \in Goals, Answered(h)' PROVE Shows(Recorded(h))'
      <4>1. Answered(h) /\ Recorded(h)' = Recorded(h)
        BY <2>1, <2>2, <2>6, <3>1, <3>2 DEF SameRow, Recorded, Mirrored
      <4> QED
        BY <1>d, <1>3, <2>3, <4>1 DEF Shows
    <3>3. (\A h \in Goals : ~Answered(h)') => Shows(mirror)'
      BY <1>d, <1>3, <2>2, <2>3, <2>6, <3>1 DEF Shows
    <3> QED
      BY <1>d, <1>3, <2>3, <3>2, <3>3 DEF MirrorOK
  <2> QED
    BY <2>4, <2>5, <2>6
<1>6. CASE Server
  <2>0. UNCHANGED <<pc, call, mirror>>
    BY <1>2, <1>6, ServerMovesNobody
  <2>1. CASE scene' = scene /\ \A h \in Goals : call[h].kind = "scene" => reply'[h] = reply[h]
    <3>1. \A h \in Goals : Answered(h)' <=> Answered(h)
      BY <2>0, <2>1 DEF Answered
    <3>2. ASSUME NEW h \in Goals, Answered(h)' PROVE Shows(Recorded(h))'
      <4>1. Answered(h) /\ Recorded(h)' = Recorded(h)
        BY <2>0, <2>1, <3>1, <3>2 DEF Recorded, Mirrored, Answered
      <4> QED
        BY <1>d, <1>3, <2>1, <4>1 DEF Shows
    <3>3. (\A h \in Goals : ~Answered(h)') => Shows(mirror)'
      BY <1>d, <1>3, <2>0, <2>1, <3>1 DEF Shows
    <3> QED
      BY <1>d, <1>3, <2>1, <3>2, <3>3 DEF MirrorOK
  <2>2. ASSUME NEW g \in Goals,
               call[g].kind = "scene", pc[g] = "apply", call[g].arg = Op(g), Op(g) \in SceneOps,
               op[g] \in DOMAIN S(g).ops,
               reply[g] = "waiting", Done(g) \/ Refused(g),
               \A h \in Goals : h # g => ~Working(h) /\ reply'[h] = reply[h]
        PROVE  MirrorOK'
    <3> DEFINE o == Op(g)
    <3>1. \A h \in Goals : ~Answered(h)
      BY <1>2, <2>2, CallerWorks DEF Answered, NoCall
    <3>2. \A h \in Goals : h # g => ~Answered(h)'
      BY <2>0, <2>2, <3>1 DEF Answered
    <3>3. Shows(mirror) /\ scene \in Scenes /\ Nothing \notin Objects
          /\ mirror \in [objects : SUBSET Objects, attached : SUBSET Objects]
      BY <1>2, <1>3, <3>1 DEF Typed, ServerTypes, ThreadTypes, AdapterTypes, TaskAssumption
    <3>4. call'[g].arg = o
      BY <2>0, <2>2
    <3>5. CASE Done(g)
      <4>1. /\ Mirrored(o, Feasible(o, scene)).objects = Changed(o, scene).objects
            /\ Changed(o, scene).held \in Mirrored(o, Feasible(o, scene)).attached \cup {Nothing}
            /\ "load" \notin doubt \cup Swapped(o) =>
                 Mirrored(o, Feasible(o, scene)).attached \subseteq {Changed(o, scene).held}
        BY <2>2, <3>3, MirrorFollows
      <4>2. (reply'[g] = "yes") = Feasible(o, scene)
        <5>1. Feasible(o, scene) \in BOOLEAN
          BY <2>2, FeasibleBoolean
        <5> QED
          BY <3>5, <5>1 DEF Done
      <4>3. Recorded(g)' = Mirrored(o, Feasible(o, scene))
        BY <2>0, <3>4, <4>2 DEF Recorded, Mirrored
      <4>4. Shows(Recorded(g))'
        BY <3>5, <4>1, <4>3 DEF Shows, Done
      <4>5. Answered(g)'
        BY <2>0, <2>2, <3>5 DEF Answered, Done
      <4> QED
        BY <3>2, <4>4, <4>5 DEF MirrorOK
    <3>6. CASE Refused(g)
      <4>1. Recorded(g)' = mirror
        BY <2>0, <3>4, <3>6 DEF Recorded, Mirrored, Refused
      <4>2. Shows(Recorded(g))'
        BY <1>d, <3>3, <3>6, <4>1 DEF Shows, Refused
      <4>3. Answered(g)'
        BY <2>0, <2>2, <3>6 DEF Answered, Refused
      <4> QED
        BY <3>2, <4>2, <4>3 DEF MirrorOK
    <3> QED
      BY <2>2, <3>5, <3>6
  <2> QED
    BY <1>1, <1>6, <2>1, <2>2, SceneServed
<1> QED
  BY <1>4, <1>5, <1>6 DEF Next, Turn

LEMMA SceneInit == ASSUME TaskAssumption, Init PROVE SceneAwaited /\ MirrorOK
<1>1. SceneAwaited
  BY DEF Init, SceneAwaited, AllAwaited
<1>2. Shows(mirror) /\ scene.held = Nothing
  BY DEF Init, Shows
<1> QED
  BY <1>1, <1>2 DEF MirrorOK, Answered, Init

(* The poses and attachments from which the next task's base scene is      *)
(* built are the server's scene, whatever it refused.  The adapter records *)
(* any number of attached objects where the server holds one: the loads    *)
(* agree both ways until one is taken up or set down while another is held.*)
THEOREM MirrorTrue == Spec => []MirrorIsTrue
<1> DEFINE Inv == Core /\ SceneAwaited /\ MirrorOK
<1>1. Init => Inv
  BY CoreInit, SceneInit, TaskAssumption
<1>2. Inv /\ [Next]_vars => Inv'
  BY CoreStep, SceneAwaitedStep, MirrorStep, TaskAssumption DEF Core
<1>3. Inv => MirrorIsTrue
  BY DEF MirrorOK, MirrorIsTrue, Answered, Shows
<1> QED
  BY <1>1, <1>2, <1>3, PTL DEF Spec

-----------------------------------------------------------------------------
(* Playbacks: the recursive functions Replay, PlaybackAfter.                 *)
LEMMA SmallestOf ==
  ASSUME NEW T, T \subseteq Nat, T # {} PROVE \E m \in T : \A k \in T : m <= k
<1> DEFINE R == {ss \in Nat \X Nat : ss[1] < ss[2]}
<1>1. IsWellFoundedOn(R, Nat)
  BY NatLessThanWellFounded DEF OpToRel
<1> HIDE DEF R
<1>2. \E m \in T : \A k \in T : <<k, m>> \notin R
  BY <1>1, WFMin
<1>3. \A k, m \in Nat : k < m => <<k, m>> \in R
  BY DEF R
<1>4. PICK m \in T : \A k \in T : <<k, m>> \notin R
  BY <1>2
<1>5. ASSUME NEW k \in T PROVE m <= k
  <2>1. k \in Nat /\ m \in Nat /\ ~(k < m)
    BY <1>3, <1>4
  <2> QED
    BY <2>1
<1> QED
  BY <1>4, <1>5

(* A finite iteration exists: a least length without one has a shorter one *)
(* to extend.                                                              *)
Iterates(f, x, m, step) == f[0] = x /\ \A k \in 1 .. m : f[k] = step[k][f[k - 1]]
LEMMA IterationExists ==
  ASSUME NEW U, NEW x, NEW n, NEW step,
         x \in U, n \in Nat, step \in [1 .. n -> [U -> U]]
  PROVE  \E f \in [0 .. n -> U] : Iterates(f, x, n, step)
<1> USE DEF Iterates
<1> DEFINE Is(m) == \E f \in [0 .. m -> U] : f[0] = x /\ \A k \in 1 .. m : f[k] = step[k][f[k - 1]]
           T == {m \in 0 .. n : ~Is(m)}
<1>1. SUFFICES ASSUME T # {} PROVE FALSE
  <2>1. n \in 0 .. n
    OBVIOUS
  <2> QED
    BY <2>1
<1>2. T \subseteq Nat
  OBVIOUS
<1>3. PICK m \in T : \A k \in T : m <= k
  BY <1>1, <1>2, SmallestOf
<1>4. m \in 0 .. n /\ ~Is(m)
  BY <1>3
<1>5. m # 0
  <2>1. [k \in 0 .. 0 |-> x] \in [0 .. 0 -> U]
    OBVIOUS
  <2>2. Is(0)
    <3> WITNESS [k \in 0 .. 0 |-> x] \in [0 .. 0 -> U]
    <3> QED
      OBVIOUS
  <2> QED
    BY <1>4, <2>2
<1>6. Is(m - 1)
  <2>1. m - 1 \in 0 .. n /\ ~(m <= m - 1)
    BY <1>4, <1>5
  <2> QED
    BY <1>3, <2>1
<1>7. PICK f \in [0 .. m - 1 -> U] : f[0] = x /\ \A k \in 1 .. m - 1 : f[k] = step[k][f[k - 1]]
  BY <1>6
<1> DEFINE h == [k \in 0 .. m |-> IF k = m THEN step[m][f[m - 1]] ELSE f[k]]
<1>8. step[m][f[m - 1]] \in U
  BY <1>4, <1>5, <1>7
<1>9. h \in [0 .. m -> U]
  <2> SUFFICES ASSUME NEW k \in 0 .. m PROVE h[k] \in U
    OBVIOUS
  <2>1. k # m => k \in 0 .. m - 1
    BY <1>4
  <2> QED
    BY <1>7, <1>8, <2>1
<1>10. h[0] = x
  BY <1>4, <1>5, <1>7
<1>11. ASSUME NEW k \in 1 .. m PROVE h[k] = step[k][h[k - 1]]
  <2>1. k - 1 \in 0 .. m - 1 /\ k - 1 \in 0 .. m /\ k \in 0 .. m /\ k - 1 # m
    BY <1>4, <1>11
  <2>2. h[k - 1] = f[k - 1]
    BY <2>1
  <2>3. CASE k = m
    BY <2>1, <2>2, <2>3
  <2>4. CASE k # m
    <3>1. k \in 1 .. m - 1
      BY <1>4, <1>11, <2>4
    <3> QED
      BY <1>7, <2>1, <2>2, <2>4, <3>1
  <2> QED
    BY <2>3, <2>4
<1> HIDE DEF h
<1>12. Is(m)
  BY <1>9, <1>10, <1>11
<1> QED
  BY <1>4, <1>12

LEMMA ReplayFacts ==
  ASSUME NEW p \in Playbacks, NEW ops \in Seq(SceneOps)
  PROVE  /\ Replay(p, ops) \in [0 .. Len(ops) -> Playbacks]
         /\ Replay(p, ops)[0] = p
         /\ \A k \in DOMAIN ops : Replay(p, ops)[k] = Played(ops[k], Replay(p, ops)[k - 1])
<1> DEFINE n == Len(ops)
           step == [k \in 1 .. n |-> [s \in Playbacks |-> Played(ops[k], s)]]
<1>1. n \in Nat /\ DOMAIN ops = 1 .. n /\ \A k \in 1 .. n : ops[k] \in SceneOps
  OBVIOUS
<1>2. step \in [1 .. n -> [Playbacks -> Playbacks]]
  BY <1>1, PlayedTyped
<1> HIDE DEF n
<1>3. PICK f \in [0 .. n -> Playbacks] : Iterates(f, p, n, step)
  <2> HIDE DEF step
  <2>1. p \in Playbacks
    OBVIOUS
  <2> QED
    BY <1>1, <1>2, <2>1, IterationExists, Zenon
<1>4. ASSUME NEW k \in 1 .. n PROVE f[k] = Played(ops[k], f[k - 1])
  <2>1. k - 1 \in 0 .. n
    BY <1>1
  <2> QED
    BY <1>3, <2>1 DEF Iterates
<1>5. f = [k \in 0 .. n |-> IF k = 0 THEN p ELSE Played(ops[k], f[k - 1])]
  <2>1. f = [k \in 0 .. n |-> f[k]]
    OBVIOUS
  <2>2. ASSUME NEW k \in 0 .. n PROVE f[k] = IF k = 0 THEN p ELSE Played(ops[k], f[k - 1])
    <3>1. k # 0 => k \in 1 .. n
      BY <1>1
    <3> QED
      BY <1>3, <1>4, <3>1 DEF Iterates
  <2> QED
    BY <2>1, <2>2
<1> DEFINE F == Replay(p, ops)
<1>6. F = [k \in 0 .. n |-> IF k = 0 THEN p ELSE Played(ops[k], F[k - 1])]
  BY <1>5, Zenon DEF Replay, n
<1> HIDE DEF F
<1>7. F[0] = p /\ \A k \in 1 .. n : F[k] = Played(ops[k], F[k - 1])
  <2>1. 0 \in 0 .. n /\ \A k \in 1 .. n : k \in 0 .. n /\ k # 0
    BY <1>1
  <2> QED
    BY <1>6, <2>1
<1>8. F \in [0 .. n -> Playbacks]
  <2> DEFINE T == {k \in 0 .. n : F[k] \notin Playbacks}
  <2>1. SUFFICES ASSUME T # {} PROVE FALSE
    BY <1>6
  <2>2. T \subseteq Nat
    BY <1>1
  <2>3. PICK m \in T : \A k \in T : m <= k
    BY <2>1, <2>2, SmallestOf
  <2>4. m \in 1 .. n
    BY <1>1, <1>7, <2>3
  <2>5. m - 1 \in 0 .. n /\ ~(m <= m - 1)
    BY <1>1, <2>4
  <2>6. F[m - 1] \in Playbacks
    BY <2>3, <2>5
  <2>7. F[m] \in Playbacks
    BY <1>1, <1>7, <2>4, <2>6, PlayedTyped
  <2> QED
    BY <2>3, <2>7
<1> QED
  BY <1>1, <1>7, <1>8 DEF F, n

LEMMA ChainReplayFacts ==
  ASSUME TaskAssumption, NEW g \in Goals, NEW p \in Playbacks
  PROVE  /\ PlaybackAfter(p, Program[g]) \in [0 .. Len(Program[g]) -> Playbacks]
         /\ PlaybackAfter(p, Program[g])[0] = p
         /\ \A i \in DOMAIN Program[g] :
              PlaybackAfter(p, Program[g])[i] =
                Replay(PlaybackAfter(p, Program[g])[i - 1], Program[g][i].ops)[Len(Program[g][i].ops)]
<1> DEFINE chain == Program[g]
           n == Len(chain)
           step == [i \in 1 .. n |->
                     [s \in Playbacks |-> Replay(s, chain[i].ops)[Len(chain[i].ops)]]]
<1>1. n \in Nat /\ DOMAIN chain = 1 .. n /\ \A i \in 1 .. n : chain[i].ops \in Seq(SceneOps)
  BY ChainFacts
<1> HIDE DEF n, chain
<1>a. ASSUME NEW s \in Playbacks, NEW i \in 1 .. n
      PROVE  Replay(s, chain[i].ops)[Len(chain[i].ops)] \in Playbacks
  <2>1. chain[i].ops \in Seq(SceneOps) /\ Len(chain[i].ops) \in 0 .. Len(chain[i].ops)
    BY <1>1
  <2>2. Replay(s, chain[i].ops) \in [0 .. Len(chain[i].ops) -> Playbacks]
    BY <2>1, ReplayFacts
  <2> QED
    BY <2>1, <2>2
<1>2. step \in [1 .. n -> [Playbacks -> Playbacks]]
  BY <1>a
<1>3. PICK f \in [0 .. n -> Playbacks] : Iterates(f, p, n, step)
  <2> HIDE DEF step
  <2> QED
    BY <1>1, <1>2, IterationExists, Zenon
<1>4. ASSUME NEW i \in 1 .. n PROVE f[i] = Replay(f[i - 1], chain[i].ops)[Len(chain[i].ops)]
  <2>1. i - 1 \in 0 .. n
    BY <1>1
  <2> QED
    BY <1>3, <2>1 DEF Iterates
<1>5. f = [i \in 0 .. n |->
            IF i = 0 THEN p ELSE Replay(f[i - 1], chain[i].ops)[Len(chain[i].ops)]]
  <2>1. f = [i \in 0 .. n |-> f[i]]
    OBVIOUS
  <2>2. ASSUME NEW i \in 0 .. n
        PROVE  f[i] = IF i = 0 THEN p ELSE Replay(f[i - 1], chain[i].ops)[Len(chain[i].ops)]
    <3>1. i # 0 => i \in 1 .. n
      BY <1>1
    <3> QED
      BY <1>3, <1>4, <3>1 DEF Iterates
  <2> QED
    BY <2>1, <2>2
<1> DEFINE F == PlaybackAfter(p, chain)
<1>6. F = [i \in 0 .. n |->
            IF i = 0 THEN p ELSE Replay(F[i - 1], chain[i].ops)[Len(chain[i].ops)]]
  BY <1>5, Zenon DEF PlaybackAfter, n
<1> HIDE DEF F
<1>7. F[0] = p /\ \A i \in 1 .. n : F[i] = Replay(F[i - 1], chain[i].ops)[Len(chain[i].ops)]
  <2>1. 0 \in 0 .. n /\ \A i \in 1 .. n : i \in 0 .. n /\ i # 0
    BY <1>1
  <2> QED
    BY <1>6, <2>1
<1>8. F \in [0 .. n -> Playbacks]
  <2> DEFINE T == {i \in 0 .. n : F[i] \notin Playbacks}
  <2>1. SUFFICES ASSUME T # {} PROVE FALSE
    BY <1>6
  <2>2. T \subseteq Nat
    BY <1>1
  <2>3. PICK m \in T : \A k \in T : m <= k
    BY <2>1, <2>2, SmallestOf
  <2>4. m \in 1 .. n
    BY <1>1, <1>7, <2>3
  <2>5. m - 1 \in 0 .. n /\ ~(m <= m - 1)
    BY <1>1, <2>4
  <2>6. F[m - 1] \in Playbacks
    BY <2>3, <2>5
  <2>7. F[m] \in Playbacks
    BY <1>7, <1>a, <2>4, <2>6
  <2> QED
    BY <2>3, <2>7
<1> QED
  BY <1>1, <1>7, <1>8 DEF F, n, chain

(* What the playback of a task makes of the scene: after the leaves of its *)
(* chain, and after the operations of the leaf it stands at.               *)
Reached(g) == PlaybackAfter(From(base[g], TRUE), Program[g])
Plays(g) == Replay(Reached(g)[seg[g] - 1], S(g).ops)

(* The scenes a chain passes through from b, and those of its n-th leaf.   *)
LEMMA LeafScenes ==
  ASSUME TaskAssumption, NEW g \in Goals, NEW b \in Playbacks, NEW n \in DOMAIN Program[g]
  PROVE  LET sc == PlaybackAfter(b, Program[g])[n - 1]
             ops == Program[g][n].ops
         IN  /\ PlaybackAfter(b, Program[g])[0] = b
             /\ n \in 1 .. Len(Program[g]) /\ ops \in Seq(SceneOps)
             /\ Replay(sc, ops) \in [0 .. Len(ops) -> Playbacks]
             /\ Replay(sc, ops)[0] = sc
             /\ \A k \in DOMAIN ops : Replay(sc, ops)[k] = Played(ops[k], Replay(sc, ops)[k - 1])
             /\ PlaybackAfter(b, Program[g])[n] = Replay(sc, ops)[Len(ops)]
<1> DEFINE sc == PlaybackAfter(b, Program[g])[n - 1]
           ops == Program[g][n].ops
<1>1. /\ n \in 1 .. Len(Program[g]) /\ Len(Program[g]) \in Nat /\ n - 1 \in 0 .. Len(Program[g])
      /\ ops \in Seq(SceneOps)
  BY ChainFacts
<1>2. /\ PlaybackAfter(b, Program[g]) \in [0 .. Len(Program[g]) -> Playbacks]
      /\ PlaybackAfter(b, Program[g])[0] = b
      /\ PlaybackAfter(b, Program[g])[n] = Replay(sc, ops)[Len(ops)]
  BY ChainReplayFacts
<1>3. sc \in Playbacks
  BY <1>1, <1>2
<1> HIDE DEF sc, ops
<1>4. /\ Replay(sc, ops) \in [0 .. Len(ops) -> Playbacks] /\ Replay(sc, ops)[0] = sc
      /\ \A k \in DOMAIN ops : Replay(sc, ops)[k] = Played(ops[k], Replay(sc, ops)[k - 1])
  BY <1>1, <1>3, ReplayFacts
<1> QED
  BY <1>1, <1>2, <1>4 DEF sc, ops

LEMMA LeafBegins ==
  ASSUME TaskAssumption, NEW g \in Goals, NEW b \in Playbacks, NEW n \in DOMAIN Program[g]
  PROVE  Replay(PlaybackAfter(b, Program[g])[n - 1], Program[g][n].ops)[0]
           = PlaybackAfter(b, Program[g])[n - 1]
BY LeafScenes

LEMMA ReachedFacts ==
  ASSUME TaskAssumption, Typed, NEW g \in Goals
  PROVE  /\ Reached(g)[0] = From(base[g], TRUE)
         /\ seg[g] \in DOMAIN Program[g] /\ S(g).ops \in Seq(SceneOps)
         /\ base[g] \in Scenes
         /\ Plays(g) \in [0 .. Len(S(g).ops) -> Playbacks]
         /\ Plays(g)[0] = Reached(g)[seg[g] - 1]
         /\ \A k \in DOMAIN S(g).ops : Plays(g)[k] = Played(S(g).ops[k], Plays(g)[k - 1])
         /\ Reached(g)[seg[g]] = Plays(g)[Len(S(g).ops)]
<1>1. seg[g] \in DOMAIN Program[g] /\ base[g] \in Scenes
  BY DEF Typed, Rows, ServerTypes, RowOK
<1>2. From(base[g], TRUE) \in Playbacks
  BY <1>1 DEF From, Playbacks
<1> DEFINE b == From(base[g], TRUE)
           n == seg[g]
<1>3. b \in Playbacks /\ n \in DOMAIN Program[g]
  BY <1>1, <1>2
<1> HIDE DEF b, n
<1>4. LET sc == PlaybackAfter(b, Program[g])[n - 1]
          ops == Program[g][n].ops
      IN  /\ PlaybackAfter(b, Program[g])[0] = b
          /\ ops \in Seq(SceneOps)
          /\ Replay(sc, ops) \in [0 .. Len(ops) -> Playbacks]
          /\ Replay(sc, ops)[0] = sc
          /\ \A k \in DOMAIN ops : Replay(sc, ops)[k] = Played(ops[k], Replay(sc, ops)[k - 1])
          /\ PlaybackAfter(b, Program[g])[n] = Replay(sc, ops)[Len(ops)]
  BY <1>3, LeafScenes
<1>5. PlaybackAfter(b, Program[g]) = Reached(g) /\ Program[g][n] = S(g)
  BY DEF b, n, Reached, S
<1>6. /\ Reached(g)[0] = b
      /\ S(g).ops \in Seq(SceneOps)
      /\ Plays(g) \in [0 .. Len(S(g).ops) -> Playbacks]
      /\ Plays(g)[0] = Reached(g)[seg[g] - 1]
      /\ \A k \in DOMAIN S(g).ops : Plays(g)[k] = Played(S(g).ops[k], Plays(g)[k - 1])
      /\ Reached(g)[seg[g]] = Plays(g)[Len(S(g).ops)]
  BY <1>4, <1>5 DEF n, Plays
<1> QED
  BY <1>1, <1>6 DEF b

(* One operation of the playback, made for the first time or again.        *)
LEMMA PlaysOp ==
  ASSUME TaskAssumption, Typed, NEW g \in Goals, op[g] \in DOMAIN S(g).ops
  PROVE  /\ Op(g) \in Plays(g)[op[g] - 1].seen => Plays(g)[op[g]] = Plays(g)[op[g] - 1]
         /\ Op(g) \notin Plays(g)[op[g] - 1].seen =>
              /\ Plays(g)[op[g]].scene = Changed(Op(g), Plays(g)[op[g] - 1].scene)
              /\ Plays(g)[op[g]].seen = Plays(g)[op[g] - 1].seen \cup {Op(g)}
<1> DEFINE p == Plays(g)[op[g] - 1]
<1>0. S(g).ops \in Seq(SceneOps)
  BY ReachedFacts
<1>1. op[g] \in 1 .. Len(S(g).ops) /\ Len(S(g).ops) \in Nat
  BY <1>0
<1>2. op[g] - 1 \in 0 .. Len(S(g).ops)
  BY <1>1
<1>3. p \in Playbacks /\ Plays(g)[op[g]] = Played(Op(g), p)
  BY <1>1, <1>2, ReachedFacts DEF Op
<1>4. p.once = TRUE
  BY <1>3 DEF Playbacks
<1> HIDE DEF p
<1>5. /\ Op(g) \in p.seen => Played(Op(g), p) = p
      /\ Op(g) \notin p.seen => /\ Played(Op(g), p).scene = Changed(Op(g), p.scene)
                                /\ Played(Op(g), p).seen = p.seen \cup {Op(g)}
  BY <1>4 DEF Played
<1> QED
  BY <1>3, <1>5 DEF p

(* The place of the next operation, and of the end of a leaf.              *)
LEMMA OpPlace ==
  ASSUME TaskAssumption, Typed, NEW g \in Goals
  PROVE  /\ op[g] \in Nat \ {0} /\ seg[g] \in Nat \ {0} /\ op[g] + 1 - 1 = op[g]
         /\ seg[g] + 1 - 1 = seg[g]
         /\ op[g] <= Len(S(g).ops) => op[g] \in DOMAIN S(g).ops
         /\ op[g] > Len(S(g).ops) => op[g] - 1 = Len(S(g).ops)
<1>1. RowOK(g)
  BY DEF Typed, Rows
<1>2. S(g).ops \in Seq(SceneOps) /\ Program[g] \in Seq(Segments)
  BY ReachedFacts, ChainFacts
<1>3. op[g] \in 1 .. Len(S(g).ops) + 1 /\ seg[g] \in 1 .. Len(Program[g])
  BY <1>1, <1>2 DEF RowOK
<1>4. Len(S(g).ops) \in Nat /\ Len(Program[g]) \in Nat /\ DOMAIN S(g).ops = 1 .. Len(S(g).ops)
  BY <1>2
<1> DEFINE m == Len(S(g).ops)
<1> HIDE DEF m
<1>5. op[g] \in 1 .. m + 1 /\ m \in Nat /\ DOMAIN S(g).ops = 1 .. m
  BY <1>3, <1>4 DEF m
<1>6. /\ op[g] \in Nat \ {0} /\ op[g] + 1 - 1 = op[g] /\ (op[g] <= m => op[g] \in DOMAIN S(g).ops)
      /\ (op[g] > m => op[g] - 1 = m)
  BY <1>5
<1>7. seg[g] \in Nat \ {0} /\ seg[g] + 1 - 1 = seg[g]
  BY <1>3, <1>4
<1> QED
  BY <1>6, <1>7 DEF m

(* The executor's record: it has applied what the playback has seen.       *)
SeenAt(g) ==
  /\ pc[g] \notin Playing \cup {"report"} => applied[g] = {}
  /\ pc[g] = "apply" =>
       /\ applied[g] = Plays(g)[IF reply[g] = "none" THEN op[g] - 1 ELSE op[g]].seen
       /\ reply[g] # "none" => Op(g) \notin Plays(g)[op[g] - 1].seen
  /\ pc[g] \in {"aim", "drive"} => applied[g] = Reached(g)[seg[g]].seen
SeenOK == \A g \in Goals : SeenAt(g)

LEMMA SameSeen ==
  ASSUME NEW g \in Goals, SeenAt(g), base'[g] = base[g], seg'[g] = seg[g], op'[g] = op[g],
         applied'[g] = applied[g],
         pc[g] = "apply" => (reply'[g] = "none" <=> reply[g] = "none"),
         \/ pc'[g] = pc[g]
         \/ pc'[g] = "report"
         \/ pc[g] = "aim" /\ pc'[g] = "drive"
  PROVE  SeenAt(g)'
<1>1. Reached(g)' = Reached(g) /\ S(g)' = S(g) /\ Plays(g)' = Plays(g) /\ Op(g)' = Op(g)
  BY DEF Reached, S, Plays, Op
<1>2. CASE pc'[g] = pc[g]
  BY <1>1, <1>2 DEF SeenAt
<1>3. CASE pc'[g] = "report"
  BY <1>3 DEF SeenAt, Playing
<1>4. CASE pc[g] = "aim" /\ pc'[g] = "drive"
  BY <1>1, <1>4 DEF SeenAt, Playing
<1> QED
  BY <1>2, <1>3, <1>4

(* A leaf begins where the one before it ended.                            *)
LEMMA AdvancedTo ==
  ASSUME TaskAssumption, Typed, [Next]_vars, NEW g \in Goals, base'[g] = base[g],
         seg'[g] - 1 = seg[g]
  PROVE  Plays(g)'[0] = Reached(g)[seg[g]]
<1>1. Typed'
  BY TypedStep
<1>2. seg'[g] \in DOMAIN Program[g]
  BY <1>1 DEF Typed, Rows, RowOK
<1>3. From(base[g], TRUE) \in Playbacks
  BY ReachedFacts DEF From, Playbacks
<1>4. Replay(Reached(g)[seg'[g] - 1], Program[g][seg'[g]].ops)[0] = Reached(g)[seg'[g] - 1]
  BY <1>2, <1>3, LeafBegins DEF Reached
<1>5. Plays(g)' = Replay(Reached(g)[seg'[g] - 1], Program[g][seg'[g]].ops)
  BY DEF Plays, Reached, S
<1> QED
  BY <1>4, <1>5

(* The first leaf begins with the scene the task found, and nothing seen.  *)
LEMMA StartsAt ==
  ASSUME TaskAssumption, Typed, NEW g \in Goals, base'[g] = base[g], seg'[g] = 1
  PROVE  Plays(g)'[0] = From(base[g], TRUE)
<1> DEFINE b == From(base[g], TRUE)
<1>1. b \in Playbacks
  BY ReachedFacts DEF From, Playbacks
<1>2. 1 \in DOMAIN Program[g]
  BY ChainFacts
<1> HIDE DEF b
<1>3. Replay(PlaybackAfter(b, Program[g])[1 - 1], Program[g][1].ops)[0] = PlaybackAfter(b, Program[g])[0]
  BY <1>1, <1>2, LeafBegins
<1>4. PlaybackAfter(b, Program[g])[0] = b
  BY <1>1, ChainReplayFacts
<1>5. Plays(g)' = Replay(PlaybackAfter(b, Program[g])[1 - 1], Program[g][1].ops)
  BY DEF Plays, Reached, S, b
<1> QED
  BY <1>3, <1>4, <1>5 DEF b

LEMMA SeenTurn ==
  ASSUME TaskAssumption, Typed, [Next]_vars, NEW g \in Goals, Turn(g), SeenAt(g)
  PROVE  SeenAt(g)'
<1> USE DEF Goto, Abort, Heard, place, adapter, record, history
<1>0. PlaceTypes /\ CallTypes /\ RecordTypes /\ RowOK(g)
  BY DEF Typed, ThreadTypes, Rows
<1>1. pc'[g] = "report" => SeenAt(g)'
  BY DEF SeenAt, Playing
<1>2. pc'[g] \notin Playing /\ applied'[g] = {} => SeenAt(g)'
  BY DEF SeenAt, Playing
<1>3. pc[g] \notin Playing \cup {"report"} => applied[g] = {}
  BY DEF SeenAt
<1>4. CASE GoalCallback(g) \/ ExecuteCallback(g) \/ Segment(g) \/ NextSegment(g)
  <2>1. pc[g] \in {"idle", "accepted", "segment", "next"} /\ UNCHANGED applied
    BY <1>4 DEF GoalCallback, ExecuteCallback, Segment, NextSegment
  <2>2. pc'[g] \in {"done", "accepted", "segment", "report", "ensure", "planned"}
    BY <1>0, <1>4, <2>1 DEF GoalCallback, ExecuteCallback, Segment, NextSegment, PlaceTypes
  <2> QED
    BY <1>2, <1>3, <2>1, <2>2 DEF Playing
<1>5. CASE PlanCall(g) \/ LinksAllowed(g) \/ SolveHeard(g) \/ LinksRestored(g)
  <2>1. pc[g] \in {"allow", "solve", "restore"} /\ UNCHANGED applied
    BY <1>5 DEF PlanCall, LinksAllowed, SolveHeard, LinksRestored
  <2>2. pc'[g] \in {"allow", "solve", "restore", "next", "report"}
    <3>1. CASE PlanCall(g)
      BY <1>0, <2>1, <3>1 DEF PlanCall, PlaceTypes
    <3>2. CASE LinksAllowed(g) \/ SolveHeard(g) \/ LinksRestored(g)
      BY <1>0, <2>1, <3>2 DEF LinksAllowed, SolveHeard, LinksRestored, PlaceTypes
    <3> QED
      BY <1>5, <3>1, <3>2
  <2> QED
    BY <1>2, <1>3, <2>1, <2>2 DEF Playing
<1>6. CASE GiveUp(g)
  <2>1. /\ UNCHANGED <<pc, seg, op, applied, base>>
        /\ reply[g] = "waiting" /\ reply'[g] = "raised"
    BY <1>0, <1>6 DEF GiveUp, CallTypes
  <2> QED
    BY <2>1, SameSeen
<1>7. CASE Report(g)
  <2>1. pc'[g] = "done" /\ applied'[g] = {}
    BY <1>0, <1>7 DEF Report, PlaceTypes, RecordTypes
  <2> QED
    BY <1>2, <2>1 DEF Playing
<1>8. CASE StartPlayback(g)
  <2>1. /\ pc[g] = "planned" /\ UNCHANGED <<base, applied, reply, call>>
        /\ seg'[g] = 1 /\ op'[g] = 1 /\ pc'[g] \in {"report", "apply"}
    BY <1>0, <1>8 DEF StartPlayback, PlaceTypes
  <2>2. applied'[g] = {} /\ reply'[g] = "none"
    BY <1>0, <1>3, <2>1 DEF Playing, RowOK, CallAt, CallTypes, Replies
  <2>5. Plays(g)'[0] = From(base[g], TRUE)
    BY <2>1, StartsAt
  <2>6. Plays(g)'[op'[g] - 1].seen = {}
    BY <2>1, <2>5 DEF From
  <2> QED
    BY <1>1, <2>1, <2>2, <2>6 DEF SeenAt, Playing
<1>9. CASE SwitchPlanner(g) \/ PlannerSwitched(g)
  <2>1. pc[g] \in {"ensure", "aim"} /\ UNCHANGED <<seg, op, applied, base>>
    BY <1>9 DEF SwitchPlanner, PlannerSwitched
  <2>2. /\ pc[g] = "ensure" => pc'[g] \in {"ensure", "allow", "report"}
        /\ pc[g] = "aim" => pc'[g] \in {"aim", "drive", "report"}
    BY <1>0, <1>9 DEF SwitchPlanner, PlannerSwitched, PlaceTypes
  <2>3. CASE pc[g] = "aim"
    BY <2>1, <2>2, <2>3, SameSeen
  <2>4. CASE pc[g] = "ensure"
    BY <1>1, <1>2, <1>3, <2>1, <2>2, <2>4 DEF Playing
  <2> QED
    BY <2>1, <2>3, <2>4
<1>10. CASE ApplyOp(g)
  <2>1. /\ pc[g] = "apply" /\ reply[g] = "none" /\ UNCHANGED <<pc, seg, base>>
        /\ op[g] \in DOMAIN S(g).ops
    BY <1>10, OpPlace DEF ApplyOp
  <2>2. applied[g] = Plays(g)[op[g] - 1].seen
    BY <2>1 DEF SeenAt
  <2>3. Plays(g)' = Plays(g)
    BY <2>1 DEF Plays, Reached, S
  <2>4. CASE Applied(g)
    <3>1. op'[g] = op[g] + 1 /\ UNCHANGED <<applied, reply>>
      BY <1>0, <1>10, <2>4 DEF ApplyOp, PlaceTypes
    <3>2. Plays(g)[op[g]].seen = applied[g]
      BY <2>1, <2>2, <2>4, PlaysOp DEF Applied
    <3>3. op'[g] - 1 = op[g]
      BY <3>1, OpPlace
    <3> QED
      BY <2>1, <2>3, <3>1, <3>2, <3>3 DEF SeenAt, Playing
  <2>5. CASE ~Applied(g)
    <3>1. /\ applied'[g] = applied[g] \cup {Op(g)} /\ UNCHANGED op /\ reply'[g] = "waiting"
      BY <1>0, <1>10, <2>5 DEF ApplyOp, Ask, RecordTypes, CallTypes
    <3>2. Op(g) \notin Plays(g)[op[g] - 1].seen /\ Plays(g)[op[g]].seen = applied'[g]
      BY <2>1, <2>2, <2>5, <3>1, PlaysOp DEF Applied
    <3>3. Op(g)' = Op(g)
      BY <2>1, <3>1 DEF Op, S
    <3> QED
      BY <2>1, <2>3, <3>1, <3>2, <3>3 DEF SeenAt, Playing
  <2> QED
    BY <2>4, <2>5
<1>11. CASE OpApplied(g)
  <2>1. CASE reply[g] = "raised"
    BY <1>0, <1>1, <1>11, <2>1 DEF OpApplied, PlaceTypes
  <2>2. CASE reply[g] # "raised"
    <3>1. /\ pc[g] = "apply" /\ UNCHANGED <<pc, seg, applied, base>> /\ op'[g] = op[g] + 1
          /\ reply[g] # "none" /\ reply'[g] = "none"
      BY <1>0, <1>11, <2>2 DEF OpApplied, PlaceTypes, CallTypes
    <3>2. applied[g] = Plays(g)[op[g]].seen
      BY <3>1 DEF SeenAt
    <3>3. Plays(g)' = Plays(g) /\ op'[g] - 1 = op[g]
      BY <3>1, OpPlace DEF Plays, Reached, S
    <3> QED
      BY <3>1, <3>2, <3>3 DEF SeenAt, Playing
  <2> QED
    BY <2>1, <2>2
<1>12. ASSUME NEW rs, Advance(g, rs), UNCHANGED <<applied, base>>, reply'[g] = "none",
              applied[g] = Reached(g)[seg[g]].seen
       PROVE  SeenAt(g)'
  <2>1. CASE seg[g] = Len(Program[g])
    BY <1>0, <1>1, <1>12, <2>1 DEF Advance, PlaceTypes
  <2>2. CASE seg[g] # Len(Program[g])
    <3>1. pc'[g] = "apply" /\ seg'[g] = seg[g] + 1 /\ op'[g] = 1
      BY <1>0, <1>12, <2>2 DEF Advance, PlaceTypes
    <3>2. seg'[g] - 1 = seg[g]
      BY <3>1, OpPlace
    <3>3. Plays(g)'[0] = Reached(g)[seg[g]]
      BY <1>12, <3>1, <3>2, AdvancedTo
    <3>4. applied'[g] = Plays(g)'[op'[g] - 1].seen
      BY <1>12, <3>1, <3>3
    <3> QED
      BY <1>12, <3>1, <3>4 DEF SeenAt, Playing
  <2> QED
    BY <2>1, <2>2
<1>13. CASE OpsDone(g)
  <2>1. /\ pc[g] = "apply" /\ reply[g] = "none" /\ UNCHANGED <<applied, base, reply>>
        /\ op[g] - 1 = Len(S(g).ops)
    BY <1>13, OpPlace DEF OpsDone
  <2>2. applied[g] = Reached(g)[seg[g]].seen
    BY <2>1, ReachedFacts DEF SeenAt
  <2>3. CASE S(g).moves
    <3>1. UNCHANGED seg /\ pc'[g] = "aim"
      BY <1>0, <1>13, <2>3 DEF OpsDone, PlaceTypes
    <3>2. Reached(g)' = Reached(g)
      BY <2>1 DEF Reached
    <3> QED
      BY <2>1, <2>2, <3>1, <3>2 DEF SeenAt, Playing
  <2>4. CASE ~S(g).moves
    BY <1>12, <1>13, <2>1, <2>2, <2>4 DEF OpsDone
  <2> QED
    BY <2>3, <2>4
<1>14. CASE Drive(g)
  <2>1. pc[g] = "drive" /\ UNCHANGED <<pc, seg, op, applied, base>>
    BY <1>14 DEF Drive
  <2> QED
    BY <2>1, SameSeen
<1>15. CASE DriveHeard(g)
  <2>1. CASE reply[g] = "raised"
    BY <1>0, <1>1, <1>15, <2>1 DEF DriveHeard, PlaceTypes
  <2>2. CASE reply[g] # "raised"
    <3>1. pc[g] = "drive" /\ UNCHANGED <<applied, base>> /\ reply'[g] = "none" /\ Advance(g, results'[g])
      BY <1>0, <1>15, <2>2 DEF DriveHeard, CallTypes
    <3>2. applied[g] = Reached(g)[seg[g]].seen
      BY <3>1 DEF SeenAt
    <3> QED
      BY <1>12, <3>1, <3>2
  <2> QED
    BY <2>1, <2>2
<1> QED
  BY <1>4, <1>5, <1>6, <1>7, <1>8, <1>9, <1>10, <1>11, <1>13, <1>14, <1>15 DEF Turn, Thread

LEMMA BaseStays ==
  ASSUME Typed, NEW g \in Goals, Turn(g), NEW h \in Goals, h # g PROVE base'[h] = base[h]
BY DEF Turn, Thread, history, GoalCallback, GiveUp, ExecuteCallback, Report, Segment,
   SwitchPlanner, PlannerSwitched, PlanCall, LinksAllowed, SolveHeard, LinksRestored, NextSegment,
   StartPlayback, ApplyOp, OpApplied, OpsDone, Drive, DriveHeard, Typed, ServerTypes

LEMMA SeenStep ==
  ASSUME TaskAssumption, Core, SeenOK, [Next]_vars PROVE SeenOK'
<1>0. Typed /\ RequestsOK
  BY DEF Core
<1>1. SUFFICES ASSUME NEW h \in Goals PROVE SeenAt(h)'
  BY DEF SeenOK
<1>2. SeenAt(h)
  BY DEF SeenOK
<1>3. CASE UNCHANGED vars
  BY <1>2, <1>3, SameSeen DEF vars, place, adapter, record, history
<1>4. ASSUME NEW g \in Goals, Turn(g) PROVE SeenAt(h)'
  <2>1. CASE h = g
    BY <1>0, <1>2, <1>4, <2>1, SeenTurn
  <2>2. CASE h # g
    <3>1. SameRow(h) /\ base'[h] = base[h]
      BY <1>0, <1>4, <2>2, OnlyOwnRow, BaseStays DEF Typed
    <3> QED
      BY <1>2, <3>1, SameSeen DEF SameRow
  <2> QED
    BY <2>1, <2>2
<1>5. CASE Server
  <2>1. UNCHANGED <<pc, seg, op, applied, base>>
    BY <1>0, <1>5, ServerMovesNobody
  <2>2. reply'[h] # reply[h] => reply[h] # "none" /\ reply'[h] # "none"
    BY <1>0, <1>5, AnsweredOnce
  <2> QED
    BY <1>2, <2>1, <2>2, SameSeen
<1> QED
  BY <1>3, <1>4, <1>5 DEF Next, Turn

LEMMA SeenInit == ASSUME TaskAssumption, Init PROVE SeenOK
BY DEF Init, SeenOK, SeenAt, Playing

(* The scene while a task is planned and played.                           *)
OpsMade(g) == IF Answered(g) THEN op[g] ELSE op[g] - 1
SceneAt(g) ==
  /\ pc[g] \in Planning => scene = base[g]
  /\ pc[g] = "apply" => scene = Plays(g)[OpsMade(g)].scene
  /\ pc[g] \in {"aim", "drive"} => scene = Reached(g)[seg[g]].scene
SceneOK == Sound({"scene", "refused"}) => \A g \in Goals : SceneAt(g)

LEMMA SameScene ==
  ASSUME NEW g \in Goals, SceneAt(g), scene' = scene, base'[g] = base[g], seg'[g] = seg[g],
         op'[g] = op[g], Answered(g)' <=> Answered(g),
         \/ pc'[g] = pc[g]
         \/ pc'[g] \notin Planning \cup Playing
         \/ pc[g] \in Planning /\ pc'[g] \in Planning
         \/ pc[g] = "aim" /\ pc'[g] = "drive"
  PROVE  SceneAt(g)'
<1>1. Reached(g)' = Reached(g) /\ Plays(g)' = Plays(g) /\ OpsMade(g)' = OpsMade(g)
  BY DEF Reached, Plays, S, OpsMade
<1>2. CASE pc'[g] = pc[g]
  BY <1>1, <1>2 DEF SceneAt
<1>3. CASE pc'[g] \notin Planning \cup Playing
  BY <1>3 DEF SceneAt, Playing, Planning
<1>4. CASE pc[g] \in Planning /\ pc'[g] \in Planning
  BY <1>4 DEF SceneAt, Planning
<1>5. CASE pc[g] = "aim" /\ pc'[g] = "drive"
  BY <1>1, <1>5 DEF SceneAt, Planning
<1> QED
  BY <1>2, <1>3, <1>4, <1>5

LEMMA SceneTurn ==
  ASSUME TaskAssumption, Core, SeenOK, SceneOK, NEW g \in Goals, Turn(g),
         Sound({"scene", "refused"})'
  PROVE  SceneAt(g)'
<1> USE DEF Goto, Stay, Abort, Heard, place, adapter, record, history
<1>0. /\ PlaceTypes /\ CallTypes /\ RowOK(g) /\ Typed /\ SeenAt(g) /\ SceneAt(g)
      /\ scene' = scene /\ "scene" \notin doubt'
  <2>1. Sound({"scene", "refused"})
    BY SoundBefore DEF Core, Next, Turn
  <2> QED
    BY <2>1, TurnLeavesServer DEF Core, Typed, ThreadTypes, Rows, SeenOK, SceneOK, ServerStill, Sound
<1>1. Answered(g) => pc[g] = "apply"
  BY <1>0 DEF Answered, RowOK, CallAt, NoCall
<1>2. Answered(g)' => Answered(g) /\ pc'[g] = pc[g]
  BY <1>0, TurnReplies DEF Answered
<1>3. CASE GoalCallback(g) \/ Report(g)
  <2>1. pc'[g] \in {"done", "accepted"}
    BY <1>0, <1>3 DEF GoalCallback, Report, PlaceTypes
  <2> QED
    BY <2>1 DEF SceneAt, Planning
<1>4. CASE ExecuteCallback(g)
  <2>1. pc'[g] \in {"segment", "report"} /\ base'[g] = scene
    BY <1>0, <1>4 DEF ExecuteCallback, PlaceTypes, Typed, ServerTypes
  <2> QED
    BY <1>0, <2>1 DEF SceneAt, Planning
<1>5. CASE Segment(g) \/ NextSegment(g)
  <2>1. /\ pc[g] \in {"segment", "next"} /\ pc'[g] \in Planning \cup {"report"}
        /\ UNCHANGED base
    BY <1>0, <1>5 DEF Segment, NextSegment, PlaceTypes, Planning
  <2> QED
    BY <1>0, <2>1 DEF SceneAt, Planning
<1>6. CASE PlanCall(g) \/ LinksAllowed(g) \/ SolveHeard(g) \/ LinksRestored(g)
  <2>1. pc[g] \in {"allow", "solve", "restore"} /\ UNCHANGED base
    BY <1>6 DEF PlanCall, LinksAllowed, SolveHeard, LinksRestored
  <2>2. pc'[g] \in {"allow", "solve", "restore", "next", "report"}
    <3>1. CASE PlanCall(g)
      BY <1>0, <2>1, <3>1 DEF PlanCall, PlaceTypes
    <3>2. CASE LinksAllowed(g) \/ SolveHeard(g) \/ LinksRestored(g)
      BY <1>0, <2>1, <3>2 DEF LinksAllowed, SolveHeard, LinksRestored, PlaceTypes
    <3> QED
      BY <1>6, <3>1, <3>2
  <2> QED
    BY <1>0, <2>1, <2>2 DEF SceneAt, Planning
<1>7. CASE GiveUp(g)
  <2>1. /\ UNCHANGED <<pc, seg, op, base>> /\ reply[g] = "waiting" /\ reply'[g] = "raised"
    BY <1>0, <1>7 DEF GiveUp, CallTypes
  <2>2. ~Answered(g) /\ ~Answered(g)'
    BY <2>1 DEF Answered
  <2> QED
    BY <1>0, <2>1, <2>2, SameScene
<1>8. CASE StartPlayback(g)
  <2>1. pc[g] = "planned" /\ UNCHANGED base /\ seg'[g] = 1 /\ op'[g] = 1 /\ pc'[g] \in {"report", "apply"}
    BY <1>0, <1>8 DEF StartPlayback, PlaceTypes
  <2>3. ~Answered(g)'
    BY <1>2, <1>1, <2>1
  <2>6. scene = base[g]
    BY <1>0, <2>1 DEF SceneAt, Planning
  <2>4. Plays(g)'[0] = From(base[g], TRUE)
    BY <1>0, <2>1, StartsAt
  <2>5. OpsMade(g)' = 0
    BY <2>1, <2>3 DEF OpsMade
  <2>7. Plays(g)'[0] = From(base[g], TRUE) /\ OpsMade(g)' = 0
    BY <2>4, <2>5
  <2>8. Plays(g)'[OpsMade(g)'].scene = base[g]
    BY <2>7 DEF From
  <2> QED
    BY <1>0, <2>1, <2>6, <2>8 DEF SceneAt, Planning
<1>9. CASE SwitchPlanner(g) \/ PlannerSwitched(g)
  <2>1. pc[g] \in {"ensure", "aim"} /\ UNCHANGED <<seg, op, base>>
    BY <1>9 DEF SwitchPlanner, PlannerSwitched
  <2>2. /\ pc[g] = "ensure" => pc'[g] \in {"ensure", "allow", "report"}
        /\ pc[g] = "aim" => pc'[g] \in {"aim", "drive", "report"}
    BY <1>0, <1>9 DEF SwitchPlanner, PlannerSwitched, PlaceTypes
  <2>3. ~Answered(g) /\ ~Answered(g)'
    BY <1>1, <1>2, <2>1
  <2> QED
    BY <1>0, <2>1, <2>2, <2>3, SameScene DEF Planning, Playing
<1>10. CASE ApplyOp(g)
  <2>1. /\ pc[g] = "apply" /\ reply[g] = "none" /\ UNCHANGED <<pc, seg, base>>
        /\ op[g] \in DOMAIN S(g).ops
    BY <1>0, <1>10, OpPlace DEF ApplyOp
  <2>2. ~Answered(g) /\ ~Answered(g)'
    BY <1>2, <2>1 DEF Answered
  <2>3. CASE Applied(g)
    <3>1. op'[g] = op[g] + 1
      BY <1>0, <1>10, <2>3 DEF ApplyOp, PlaceTypes
    <3>2. Op(g) \in Plays(g)[op[g] - 1].seen
      BY <1>0, <2>1, <2>3 DEF SeenAt, Applied
    <3>3. Plays(g)[op[g]] = Plays(g)[op[g] - 1]
      BY <1>0, <2>1, <3>2, PlaysOp
    <3>4. OpsMade(g) = op[g] - 1 /\ OpsMade(g)' = op[g] /\ Plays(g)' = Plays(g)
      BY <1>0, <2>1, <2>2, <3>1, OpPlace DEF OpsMade, Plays, Reached, S
    <3> QED
      BY <1>0, <2>1, <3>3, <3>4 DEF SceneAt, Planning
  <2>4. CASE ~Applied(g)
    <3>1. UNCHANGED op
      BY <1>10, <2>4 DEF ApplyOp
    <3> QED
      BY <1>0, <2>1, <2>2, <3>1, SameScene
  <2> QED
    BY <2>3, <2>4
<1>11. CASE OpApplied(g)
  <2>1. CASE reply[g] = "raised"
    <3>1. pc'[g] = "report"
      BY <1>0, <1>11, <2>1 DEF OpApplied, PlaceTypes
    <3> QED
      BY <3>1 DEF SceneAt, Planning
  <2>2. CASE reply[g] # "raised"
    <3>1. /\ pc[g] = "apply" /\ UNCHANGED <<pc, seg, base>> /\ op'[g] = op[g] + 1
          /\ reply[g] \in {"yes", "no"} /\ reply'[g] = "none"
      BY <1>0, <1>11, <2>2 DEF OpApplied, PlaceTypes, CallTypes
    <3>2. Answered(g) /\ ~Answered(g)'
      <4>1. call[g] # NoCall
        BY <1>0, <3>1 DEF RowOK
      <4>2. call[g].kind = "scene"
        BY <1>0, <3>1, <4>1 DEF RowOK, CallAt
      <4> QED
        BY <3>1, <4>2 DEF Answered
    <3>3. OpsMade(g) = op[g] /\ OpsMade(g)' = op[g]
      BY <1>0, <3>1, <3>2 DEF OpsMade, PlaceTypes
    <3>4. Plays(g)' = Plays(g)
      BY <3>1 DEF S, Reached, Plays
    <3> QED
      BY <1>0, <3>1, <3>3, <3>4 DEF SceneAt, Planning
  <2> QED
    BY <2>1, <2>2
<1>12. ASSUME NEW rs, Advance(g, rs), scene = Reached(g)[seg[g]].scene, UNCHANGED base, ~Answered(g)'
       PROVE  SceneAt(g)'
  <2>1. CASE seg[g] = Len(Program[g])
    <3>1. pc'[g] = "report"
      BY <1>0, <1>12, <2>1 DEF Advance, PlaceTypes
    <3> QED
      BY <3>1 DEF SceneAt, Planning
  <2>2. CASE seg[g] # Len(Program[g])
    <3>1. pc'[g] = "apply" /\ seg'[g] = seg[g] + 1 /\ op'[g] = 1
      BY <1>0, <1>12, <2>2 DEF Advance, PlaceTypes
    <3>2. seg'[g] - 1 = seg[g]
      BY <1>0, <3>1, OpPlace
    <3>3. Plays(g)'[0] = Reached(g)[seg[g]]
      BY <1>0, <1>12, <3>2, AdvancedTo DEF Next, Turn
    <3>4. OpsMade(g)' = 0
      BY <1>12, <3>1 DEF OpsMade
    <3> QED
      BY <1>0, <1>12, <3>1, <3>3, <3>4 DEF SceneAt, Planning
  <2> QED
    BY <2>1, <2>2
<1>13. CASE OpsDone(g)
  <2>1. /\ pc[g] = "apply" /\ reply[g] = "none" /\ UNCHANGED <<base, reply, call>>
        /\ op[g] - 1 = Len(S(g).ops)
    BY <1>0, <1>13, OpPlace DEF OpsDone
  <2>2. scene = Reached(g)[seg[g]].scene
    <3>1. OpsMade(g) = Len(S(g).ops)
      BY <2>1 DEF OpsMade, Answered
    <3> QED
      BY <1>0, <2>1, <3>1, ReachedFacts DEF SceneAt
  <2>3. ~Answered(g)'
    BY <2>1 DEF Answered
  <2>4. CASE S(g).moves
    <3>1. pc'[g] = "aim" /\ UNCHANGED seg
      BY <1>0, <1>13, <2>4 DEF OpsDone, PlaceTypes
    <3>2. Reached(g)' = Reached(g)
      BY <2>1 DEF Reached
    <3> QED
      BY <1>0, <2>2, <3>1, <3>2 DEF SceneAt, Planning
  <2>5. CASE ~S(g).moves
    BY <1>12, <1>13, <2>1, <2>2, <2>3, <2>5 DEF OpsDone
  <2> QED
    BY <2>4, <2>5
<1>14. CASE Drive(g)
  <2>1. pc[g] = "drive" /\ UNCHANGED <<pc, seg, op, base>>
    BY <1>14 DEF Drive
  <2>2. ~Answered(g) /\ ~Answered(g)'
    BY <1>1, <1>2, <2>1
  <2> QED
    BY <1>0, <2>1, <2>2, SameScene
<1>15. CASE DriveHeard(g)
  <2>1. pc[g] = "drive" /\ UNCHANGED base /\ ~Answered(g)'
    BY <1>1, <1>2, <1>15 DEF DriveHeard
  <2>2. CASE reply[g] = "raised"
    <3>1. pc'[g] = "report"
      BY <1>0, <1>15, <2>2 DEF DriveHeard, PlaceTypes
    <3> QED
      BY <3>1 DEF SceneAt, Planning
  <2>3. CASE reply[g] # "raised"
    <3>1. Advance(g, results'[g])
      BY <1>15, <2>3 DEF DriveHeard
    <3>2. scene = Reached(g)[seg[g]].scene
      BY <1>0, <2>1 DEF SceneAt
    <3> QED
      BY <1>12, <2>1, <3>1, <3>2
  <2> QED
    BY <2>2, <2>3
<1> QED
  BY <1>3, <1>4, <1>5, <1>6, <1>7, <1>8, <1>9, <1>10, <1>11, <1>13, <1>14, <1>15 DEF Turn, Thread

LEMMA SceneStep ==
  ASSUME TaskAssumption, Core, SceneAwaited, SeenOK, SceneOK, [Next]_vars
  PROVE  SceneOK'
<1>1. SUFFICES ASSUME Sound({"scene", "refused"})', NEW h \in Goals PROVE SceneAt(h)'
  BY DEF SceneOK
<1>2. Typed /\ SceneAt(h) /\ SeenAt(h)
  BY <1>1, SoundBefore DEF Core, SceneOK, SeenOK
<1>a. Sound({"scene"})' /\ "refused" \notin doubt'
  BY <1>1 DEF Sound
<1>3. CASE UNCHANGED vars
  BY <1>2, <1>3, SameScene DEF vars, place, adapter, server, history, Answered
<1>4. ASSUME NEW g \in Goals, Turn(g) PROVE SceneAt(h)'
  <2>1. CASE h = g
    BY <1>1, <1>4, <2>1, SceneTurn
  <2>2. CASE h # g
    <3>1. SameRow(h) /\ scene' = scene
      BY <1>2, <1>4, <2>2, OnlyOwnRow, TurnLeavesServer DEF Typed, ServerStill
    <3>2. base'[h] = base[h]
      BY <1>2, <1>4, <2>2, BaseStays
    <3> QED
      BY <1>2, <3>1, <3>2, SameScene DEF SameRow, Answered
  <2> QED
    BY <2>1, <2>2
<1>5. CASE Server
  <2>0. UNCHANGED <<pc, seg, op, call, base>>
    BY <1>2, <1>5, ServerMovesNobody
  <2>1. CASE scene' = scene /\ \A g \in Goals : call[g].kind = "scene" => reply'[g] = reply[g]
    <3>1. Answered(h)' <=> Answered(h)
      BY <2>0, <2>1 DEF Answered
    <3> QED
      BY <1>2, <2>0, <2>1, <3>1, SameScene
  <2>2. ASSUME NEW g \in Goals,
               call[g].kind = "scene", pc[g] = "apply", op[g] \in DOMAIN S(g).ops,
               reply[g] = "waiting", Done(g) \/ Refused(g),
               \A k \in Goals : k # g => ~Working(k)
        PROVE  SceneAt(h)'
    <3>1. CASE h # g
      BY <2>0, <2>2, <3>1 DEF SceneAt, Working, Planning
    <3>2. CASE h = g
      <4>1. Done(g)
        BY <1>a, <2>2 DEF Refused
      <4>2. ~Answered(g) /\ Answered(g)'
        BY <2>0, <2>2, <4>1 DEF Answered, Done
      <4>3. OpsMade(g) = op[g] - 1 /\ OpsMade(g)' = op[g] /\ Plays(g)' = Plays(g)
        BY <2>0, <4>2 DEF OpsMade, Plays, Reached, S
      <4>4. scene = Plays(g)[op[g] - 1].scene
        BY <1>2, <2>2, <3>2, <4>3 DEF SceneAt
      <4>5. Op(g) \notin Plays(g)[op[g] - 1].seen
        BY <1>2, <2>2, <3>2 DEF SeenAt
      <4>6. scene' = Plays(g)[op[g]].scene
        BY <1>2, <2>2, <4>1, <4>4, <4>5, PlaysOp DEF Done
      <4> QED
        BY <2>0, <2>2, <3>2, <4>3, <4>6 DEF SceneAt, Planning
    <3> QED
      BY <3>1, <3>2
  <2> QED
    BY <1>a, <1>5, <2>1, <2>2, SceneServed
<1> QED
  BY <1>3, <1>4, <1>5 DEF Next, Turn

(* A motion of the playback begins in the scene the task found, changed by *)
(* the operations of its chain so far, in their order, each taken once:    *)
(* _apply_op skips one that the playback has applied before.               *)
THEOREM MotionInScene == Spec => []MotionSeesScene
<1> DEFINE Inv == Core /\ SceneAwaited /\ SeenOK /\ SceneOK
<1>1. Init => Inv
  <2>1. Init => SceneOK
    BY DEF Init, SceneOK, SceneAt, Planning
  <2> QED
    BY <2>1, CoreInit, SceneInit, SeenInit, TaskAssumption
<1>2. Inv /\ [Next]_vars => Inv'
  BY CoreStep, SceneAwaitedStep, SeenStep, SceneStep, TaskAssumption DEF Core
<1>3. Inv => MotionSeesScene
  <2> SUFFICES ASSUME Inv, Sound({"scene", "refused"}), driving.arg = "moving", Awaited(driving)
               PROVE  scene = SceneDue(driving.by, driving.seg, TRUE)
    BY DEF MotionSeesScene
  <2>1. /\ driving \in Drives \cup {NoCall} /\ driving # NoCall /\ Typed
    BY DEF Awaited, Core, Typed, ServerTypes
  <2>2. /\ driving.by \in Goals /\ Request(driving) \in Requests /\ Request(driving).kind = "drive"
        /\ Request(driving).seg = driving.seg /\ Request(driving) # NoCall
    BY <2>1, DriveFields, RequestFields
  <2>3. pc[driving.by] = "drive" /\ seg[driving.by] = driving.seg
    <3>1. PICK g \in Goals : g = driving.by
      BY <2>2
    <3>2. call[g] = Request(driving) /\ RowOK(g)
      BY <2>1, <3>1 DEF Awaited, Typed, Rows
    <3>3. pc[g] = "drive" /\ seg[g] = driving.seg
      BY <2>2, <3>2 DEF RowOK, CallAt
    <3> QED
      BY <3>1, <3>3
  <2> QED
    BY <2>2, <2>3 DEF SceneOK, SceneAt, Reached, SceneDue
<1> QED
  BY <1>1, <1>2, <1>3, PTL DEF Spec
=============================================================================
