----------------------------- MODULE TaskServer -----------------------------
(* The task constructor's action server (node.py), the playback of a solution
   (executor.py) and the adapter through which both use the curobo server
   (robot/curobo.py).

   A task is a chain of segments: the scene operations of a leaf and, if it
   moves, the planner its request names (Nothing: whichever is current), the
   planners of the requests it is batched with, and the links it may touch.
   Which chain is found is TaskGraph's matter: here every motion of the chain
   is planned once, in order, and the chain is then driven.

   The adapter blocks on one request at a time and gives up after
   service_timeout.  The server does not notice: it may still act on the
   request, at any later time, or never. *)
EXTENDS Naturals, Sequences, FiniteSets

CONSTANTS Goals,         \* task goals
          Program,       \* the chain of each
          Planners, Objects, LinkNames,  \* what requests can name
          KnownLinks,    \* links of the robot model
          FirstPlanner,  \* planner of the server at start
          FirstObjects,  \* obstacles this adapter has added before
          MaxLate,       \* bound: requests given up that the server still has
          Nothing

SceneOps == [do : {"add", "remove", "attach", "detach"}, name : Objects]
Segments == [ops : Seq(SceneOps), moves : BOOLEAN, planner : Planners \cup {Nothing},
             batch : SUBSET Planners, contacts : SUBSET LinkNames]

ASSUME TaskAssumption ==
  /\ MaxLate \in Nat
  /\ Program \in [Goals -> Seq(Segments) \ {<<>>}]
  /\ KnownLinks \subseteq LinkNames /\ FirstPlanner \in Planners /\ FirstObjects \subseteq Objects
  /\ Nothing \notin Planners \cup Objects

VARIABLES pc, seg, op,   \* of each task: where it stands in its chain
          todo,          \* planners to switch to before the call goes on
          call, reply,   \* request the adapter waits for, how it ended
          solved,        \* the request being planned was answered with success
          applied,       \* _applied_ops of the executor
          results,       \* drive results
          verdict,       \* answer to the client
          inProgress,    \* _solve_in_progress
          active,        \* _active_planner of the adapter
          mirror,        \* _object_poses and _attached of the adapter
          outbox,        \* requests the server has not handled
          planner, off, scene,       \* the server: current planner, links without
                                     \* collision spheres, its scene
          solving, driving, cache,   \* plan and execution under way, pending plan
          base,          \* history: the scene a task was planned from
          driven,        \* history: the motions completed for each task
          doubt,         \* history: kinds of request given up or misreported;
                        \* "refused": a scene operation that was due was refused,
                        \* "load": one was taken up or set down for another
          overlapped     \* history: two tasks were in progress at once

place   == <<pc, seg, op, todo>>
adapter == <<call, reply, active, mirror>>
record  == <<applied, results, verdict>>
server  == <<planner, off, scene, solving, driving, cache>>
history == <<base, driven, doubt, overlapped>>
vars == <<place, adapter, record, solved, inProgress, outbox, server, history>>

NoCall == [by |-> Nothing, seg |-> 0, kind |-> "none", arg |-> "none"]
Effects == {"planner", "links", "scene"}   \* requests that change the server
Doubts == Effects \cup {"refused", "load"}
S(g) == Program[g][seg[g]]
Working(g) == pc[g] \notin {"idle", "accepted", "done"}

Init ==
  /\ pc = [g \in Goals |-> "idle"] /\ seg = [g \in Goals |-> 1]
  /\ op = [g \in Goals |-> 1] /\ todo = [g \in Goals |-> {}]
  /\ call = [g \in Goals |-> NoCall] /\ reply = [g \in Goals |-> "none"]
  /\ solved = [g \in Goals |-> FALSE]
  /\ applied = [g \in Goals |-> {}] /\ results = [g \in Goals |-> <<>>]
  /\ verdict = [g \in Goals |-> "none"]
  /\ inProgress = FALSE /\ active = Nothing
  /\ mirror = [objects |-> FirstObjects, attached |-> {}]
  /\ outbox = {}
  /\ planner = FirstPlanner /\ off = {}
  /\ scene = [objects |-> FirstObjects, held |-> Nothing]
  /\ solving = NoCall /\ driving = NoCall /\ cache = <<>>
  /\ base = [g \in Goals |-> scene] /\ driven = [g \in Goals |-> <<>>]
  /\ doubt = {} /\ overlapped = FALSE

Goto(g, l) == pc' = [pc EXCEPT ![g] = l]
Stay == UNCHANGED <<seg, op, todo>>

-----------------------------------------------------------------------------
(* Requests: _call, _await. *)

Ask(g, kind, arg) ==
  LET r == [by |-> g, seg |-> seg[g], kind |-> kind, arg |-> arg]
  IN  /\ outbox' = outbox \cup {r}
      /\ call' = [call EXCEPT ![g] = r] /\ reply' = [reply EXCEPT ![g] = "waiting"]

(* Mutant: a drive is waited for without a deadline. *)
GiveUpButDrives(g) ==
  /\ reply[g] = "waiting" /\ call[g].kind # "drive"
  /\ reply' = [reply EXCEPT ![g] = "raised"]
  /\ call' = [call EXCEPT ![g] = NoCall]
  /\ UNCHANGED <<place, active, mirror, record, solved, inProgress, outbox, server,
                 history>>

(* The deadline passes: ServiceError.  The server keeps the request, or never
   gets it; what it has begun goes on. *)
GiveUp(g) ==
  /\ reply[g] = "waiting" /\ reply' = [reply EXCEPT ![g] = "raised"]
  /\ call' = [call EXCEPT ![g] = NoCall]
  /\ \/ UNCHANGED outbox /\ Cardinality({r \in outbox : call'[r.by] # r}) <= MaxLate
     \/ outbox' = outbox \ {call[g]}
  /\ doubt' = doubt \cup ({call[g].kind} \cap Effects)
  /\ UNCHANGED <<place, active, mirror, record, solved, inProgress, server,
                 base, driven, overlapped>>

(* An answer reaches the thread that waits for it, if it still does. *)
Answer(r, ok) ==
  IF call[r.by] = r THEN reply' = [reply EXCEPT ![r.by] = IF ok THEN "yes" ELSE "no"]
                    ELSE UNCHANGED reply
Heard(g) == reply' = [reply EXCEPT ![g] = "none"] /\ call' = [call EXCEPT ![g] = NoCall]

-----------------------------------------------------------------------------
(* The action server. *)

(* _goal_callback: refused while a task is in progress. *)
GoalCallback(g) ==
  /\ pc[g] = "idle"
  /\ IF inProgress THEN Goto(g, "done") /\ verdict' = [verdict EXCEPT ![g] = "rejected"]
                   ELSE Goto(g, "accepted") /\ UNCHANGED verdict
  /\ UNCHANGED <<seg, op, todo, adapter, applied, results, solved, inProgress, outbox,
                 server, history>>

(* _execute_callback takes the flag; a malformed tree is aborted at once. *)
ExecuteCallback(g) ==
  /\ pc[g] = "accepted" /\ inProgress' = TRUE
  /\ \/ Goto(g, "segment") /\ UNCHANGED verdict
     \/ Goto(g, "report") /\ verdict' = [verdict EXCEPT ![g] = "aborted"]
  /\ base' = [base EXCEPT ![g] = scene]
  /\ overlapped' = (overlapped \/ inProgress)
  /\ doubt' = IF overlapped' THEN Doubts ELSE doubt   \* two at once: all is doubtful
  /\ UNCHANGED <<seg, op, todo, adapter, applied, results, solved, outbox, server, driven>>

(* Mutant: the task is answered while its last call is still open. *)
ReportEarly(g) ==
  /\ pc[g] \in {"report", "drive"} /\ Goto(g, "done") /\ inProgress' = FALSE
  /\ UNCHANGED <<seg, op, todo, adapter, record, solved, outbox, server, history>>

(* finally: the flag is cleared, whoever else has set it; the executor is gone. *)
Report(g) ==
  /\ pc[g] = "report" /\ Goto(g, "done") /\ inProgress' = FALSE
  /\ seg' = [seg EXCEPT ![g] = 1] /\ op' = [op EXCEPT ![g] = 1]
  /\ todo' = [todo EXCEPT ![g] = {}] /\ solved' = [solved EXCEPT ![g] = FALSE]
  /\ applied' = [applied EXCEPT ![g] = {}] /\ results' = [results EXCEPT ![g] = <<>>]
  /\ UNCHANGED <<adapter, verdict, outbox, server, history>>

Abort(g) == Goto(g, "report") /\ verdict' = [verdict EXCEPT ![g] = "aborted"]

-----------------------------------------------------------------------------
(* Planning: plan and plan_batch of the adapter, one segment after another. *)

(* Mutant: once a planner was set, no other one is switched to. *)
SwitchesOnce(g) ==
  IF S(g).planner = Nothing \/ active # Nothing THEN {} ELSE {S(g).planner}

(* _ensure_planner skips a switch to the planner it set last; plan_batch
   switches to every planner its requests name. *)
Switches(g) ==
  IF pc[g] = "segment" /\ S(g).batch # {} THEN S(g).batch
  ELSE {S(g).planner} \ {Nothing, active}

Segment(g) ==
  /\ pc[g] = "segment"
  /\ IF S(g).moves
     THEN Goto(g, "ensure") /\ todo' = [todo EXCEPT ![g] = Switches(g)] /\ UNCHANGED <<seg, op>>
     ELSE IF seg[g] = Len(Program[g])
     THEN Goto(g, "planned") /\ Stay
     ELSE seg' = [seg EXCEPT ![g] = @ + 1] /\ UNCHANGED <<pc, op, todo>>
  /\ UNCHANGED <<adapter, record, solved, inProgress, outbox, server, history>>

(* set_planner, before a plan or a drive. *)
SwitchPlanner(g) ==
  /\ pc[g] \in {"ensure", "aim"} /\ reply[g] = "none"
  /\ IF todo[g] = {}
     THEN /\ Goto(g, IF pc[g] = "ensure" THEN "allow" ELSE "drive")
          /\ UNCHANGED <<adapter, outbox>>
     ELSE /\ \E p \in todo[g] : Ask(g, "planner", p)
          /\ UNCHANGED <<pc, active, mirror>>
  /\ UNCHANGED <<seg, op, todo, record, solved, inProgress, server, history>>

PlannerSwitched(g) ==
  /\ pc[g] \in {"ensure", "aim"} /\ reply[g] \in {"yes", "no", "raised"} /\ Heard(g)
  /\ IF reply[g] = "yes"
     THEN /\ active' = call[g].arg /\ todo' = [todo EXCEPT ![g] = @ \ {call[g].arg}]
          /\ UNCHANGED <<pc, verdict>>
     ELSE Abort(g) /\ UNCHANGED <<active, todo>>
  /\ UNCHANGED <<seg, op, mirror, applied, results, solved, inProgress, outbox,
                 server, history>>

(* The three requests of a plan: links off, solve, links on. *)
Links(g, on) == [links |-> S(g).contacts, on |-> on]

PlanCall(g) ==
  /\ pc[g] \in {"allow", "solve", "restore"} /\ reply[g] = "none"
  /\ IF pc[g] # "solve" /\ S(g).contacts = {}
     THEN /\ Goto(g, IF pc[g] = "allow" THEN "solve" ELSE "next")
          /\ UNCHANGED <<adapter, outbox>>
     ELSE /\ CASE pc[g] = "allow"   -> Ask(g, "links", Links(g, FALSE))
               [] pc[g] = "solve"   -> Ask(g, "solve", Nothing)
               [] pc[g] = "restore" -> Ask(g, "links", Links(g, TRUE))
          /\ UNCHANGED <<pc, active, mirror>>
  /\ UNCHANGED <<seg, op, todo, record, solved, inProgress, server, history>>

LinksAllowed(g) ==
  /\ pc[g] = "allow" /\ reply[g] \in {"yes", "no", "raised"} /\ Heard(g)
  /\ IF reply[g] = "yes" THEN Goto(g, "solve") /\ UNCHANGED verdict ELSE Abort(g)
  /\ UNCHANGED <<seg, op, todo, active, mirror, applied, results, solved,
                 inProgress, outbox, server, history>>

(* Mutant: the links are restored on the way out of a successful solve only. *)
SolveHeardUnsafe(g) ==
  /\ pc[g] = "solve" /\ reply[g] \in {"yes", "no", "raised"} /\ Heard(g)
  /\ solved' = [solved EXCEPT ![g] = reply[g] = "yes"]
  /\ IF reply[g] = "raised" THEN Abort(g) ELSE Goto(g, "restore") /\ UNCHANGED verdict
  /\ UNCHANGED <<seg, op, todo, active, mirror, applied, results, inProgress,
                 outbox, server, history>>

(* finally: whatever the solve came to, the links are restored. *)
SolveHeard(g) ==
  /\ pc[g] = "solve" /\ reply[g] \in {"yes", "no", "raised"} /\ Heard(g)
  /\ solved' = [solved EXCEPT ![g] = reply[g] = "yes"] /\ Goto(g, "restore")
  /\ UNCHANGED <<seg, op, todo, active, mirror, record, inProgress, outbox,
                 server, history>>

LinksRestored(g) ==
  /\ pc[g] = "restore" /\ reply[g] \in {"yes", "no", "raised"} /\ Heard(g)
  /\ IF reply[g] = "yes" THEN Goto(g, "next") /\ UNCHANGED verdict ELSE Abort(g)
  /\ UNCHANGED <<seg, op, todo, active, mirror, applied, results, solved,
                 inProgress, outbox, server, history>>

(* A stage whose request failed leaves the task without a solution. *)
NextSegment(g) ==
  /\ pc[g] = "next"
  /\ IF ~solved[g] THEN Abort(g) /\ UNCHANGED seg
     ELSE IF seg[g] = Len(Program[g]) THEN Goto(g, "planned") /\ UNCHANGED <<seg, verdict>>
     ELSE Goto(g, "segment") /\ seg' = [seg EXCEPT ![g] = @ + 1] /\ UNCHANGED verdict
  /\ UNCHANGED <<op, todo, adapter, applied, results, solved, inProgress, outbox,
                 server, history>>

-----------------------------------------------------------------------------
(* Playback: TaskExecutor.execute. *)

(* The goal asks for the solution only, or for its execution too. *)
StartPlayback(g) ==
  /\ pc[g] = "planned"
  /\ seg' = [seg EXCEPT ![g] = 1] /\ op' = [op EXCEPT ![g] = 1]
  /\ \/ Goto(g, "report") /\ verdict' = [verdict EXCEPT ![g] = "solved"]
     \/ Goto(g, "apply") /\ UNCHANGED verdict
  /\ UNCHANGED <<todo, adapter, applied, results, solved, inProgress, outbox, server, history>>

Op(g) == S(g).ops[op[g]]

(* Mutant: an operation is known by its object alone. *)
AppliedByName(g) == \E o \in applied[g] : o.name = Op(g).name

(* _apply_op: an operation already applied in this playback is skipped. *)
Applied(g) == Op(g) \in applied[g]

ApplyOp(g) ==
  /\ pc[g] = "apply" /\ reply[g] = "none" /\ op[g] <= Len(S(g).ops)
  /\ IF Applied(g)
     THEN /\ op' = [op EXCEPT ![g] = @ + 1]
          /\ UNCHANGED <<adapter, outbox, applied>>
     ELSE /\ Ask(g, "scene", Op(g)) /\ applied' = [applied EXCEPT ![g] = @ \cup {Op(g)}]
          /\ UNCHANGED <<op, active, mirror>>
  /\ UNCHANGED <<pc, seg, todo, results, verdict, solved, inProgress, server, history>>

(* Mutant: the mirror records what was asked, not what was confirmed. *)
MirroredUnconfirmed(o, ok) ==
  CASE o.do = "add"    -> [mirror EXCEPT !.objects = @ \cup {o.name}]
    [] o.do = "remove" -> [mirror EXCEPT !.objects = @ \ {o.name}]
    [] o.do = "attach" -> [mirror EXCEPT !.attached = @ \cup {o.name}]
    [] o.do = "detach" -> [mirror EXCEPT !.attached = @ \ {o.name}]

(* The local mirror follows what the server confirmed; a detach always. *)
Mirrored(o, ok) ==
  CASE o.do = "add" /\ ok    -> [mirror EXCEPT !.objects = @ \cup {o.name}]
    [] o.do = "remove" /\ ok -> [mirror EXCEPT !.objects = @ \ {o.name}]
    [] o.do = "attach" /\ ok -> [mirror EXCEPT !.attached = @ \cup {o.name}]
    [] o.do = "detach"       -> [mirror EXCEPT !.attached = @ \ {o.name}]
    [] OTHER                 -> mirror

(* Whether the server did it is not looked at; a ServiceError ends the task. *)
OpApplied(g) ==
  /\ pc[g] = "apply" /\ reply[g] \in {"yes", "no", "raised"} /\ Heard(g)
  /\ IF reply[g] = "raised" THEN Abort(g) /\ UNCHANGED <<op, mirror>>
     ELSE /\ mirror' = Mirrored(call[g].arg, reply[g] = "yes")
          /\ op' = [op EXCEPT ![g] = @ + 1] /\ UNCHANGED <<pc, verdict>>
  /\ UNCHANGED <<seg, todo, active, applied, results, solved, inProgress, outbox,
                 server, history>>

(* Mutant: a task whose drives were all answered has succeeded. *)
OutcomeAnswered(g, rs) == "succeeded"

Outcome(g, rs) == IF \E i \in DOMAIN rs : ~rs[i] THEN "aborted" ELSE "succeeded"

(* The chain goes on to its next leaf, or the task is answered. *)
Advance(g, rs) ==
  IF seg[g] = Len(Program[g])
  THEN /\ Goto(g, "report") /\ verdict' = [verdict EXCEPT ![g] = Outcome(g, rs)]
       /\ UNCHANGED <<seg, op>>
  ELSE /\ Goto(g, "apply") /\ seg' = [seg EXCEPT ![g] = @ + 1]
       /\ op' = [op EXCEPT ![g] = 1] /\ UNCHANGED verdict

OpsDone(g) ==
  /\ pc[g] = "apply" /\ reply[g] = "none" /\ op[g] > Len(S(g).ops)
  /\ IF S(g).moves
     THEN Goto(g, "aim") /\ todo' = [todo EXCEPT ![g] = Switches(g)]
          /\ UNCHANGED <<seg, op, verdict>>
     ELSE Advance(g, results[g]) /\ UNCHANGED todo
  /\ UNCHANGED <<adapter, applied, results, solved, inProgress, outbox, server, history>>

(* execute of the adapter: the goal handshake and the result. *)
Drive(g) ==
  /\ pc[g] = "drive" /\ reply[g] = "none" /\ Ask(g, "drive", Nothing)
  /\ UNCHANGED <<place, active, mirror, record, solved, inProgress, server, history>>

(* The playback goes on after a drive that failed. *)
DriveHeard(g) ==
  /\ pc[g] = "drive" /\ reply[g] \in {"yes", "no", "raised"} /\ Heard(g)
  /\ IF reply[g] = "raised" THEN Abort(g) /\ UNCHANGED <<seg, op, results>>
     ELSE /\ results' = [results EXCEPT ![g] = Append(@, reply[g] = "yes")]
          /\ Advance(g, results'[g])
  /\ UNCHANGED <<todo, active, mirror, applied, solved, inProgress, outbox, server,
                 history>>

-----------------------------------------------------------------------------
(* The curobo server. *)

Take(r, kind) == r \in outbox /\ r.kind = kind /\ outbox' = outbox \ {r}
Elsewhere == UNCHANGED <<place, call, active, mirror, record, solved, inProgress>>

(* set_planner_callback: refused while a goal is active; the switch is made
   before the setup that may fail. *)
SetPlanner(r) ==
  /\ Take(r, "planner") /\ Elsewhere
  /\ IF driving # NoCall THEN Answer(r, FALSE) /\ UNCHANGED <<planner, doubt>>
     ELSE \E ok \in BOOLEAN :
            /\ planner' = r.arg /\ Answer(r, ok)
            /\ doubt' = IF ok THEN doubt ELSE doubt \cup {"planner"}
  /\ UNCHANGED <<off, scene, solving, driving, cache, base, driven, overlapped>>

(* set_link_collision_callback: links it does not know are skipped. *)
SetLinkCollision(r) ==
  /\ Take(r, "links") /\ Elsewhere
  /\ off' = IF r.arg.on THEN off \ r.arg.links ELSE off \cup (r.arg.links \cap KnownLinks)
  /\ Answer(r, r.arg.links \cap KnownLinks # {})
  /\ UNCHANGED <<planner, scene, solving, driving, cache, history>>

(* What a scene operation does, and whether the server reports success. *)
Feasible(o, sc) == CASE o.do = "add" -> o.name \notin sc.objects
                     [] o.do \in {"remove", "attach"} -> o.name \in sc.objects
                     [] OTHER -> TRUE
Changed(o, sc) ==
  IF ~Feasible(o, sc) THEN sc
  ELSE CASE o.do = "add"    -> [sc EXCEPT !.objects = @ \cup {o.name}]
         [] o.do = "remove" -> [sc EXCEPT !.objects = @ \ {o.name}]
         [] o.do = "attach" -> [sc EXCEPT !.held = o.name]
         [] o.do = "detach" -> [sc EXCEPT !.held = Nothing]

(* An attach or a detach while the arm holds another object. *)
Swapped(o) == IF o.do \in {"attach", "detach"} /\ Feasible(o, scene)
                 /\ scene.held \notin {Nothing, o.name} THEN {"load"} ELSE {}

(* It is done, or it could not be. *)
Serves(r) ==
  /\ scene' = Changed(r.arg, scene) /\ Answer(r, Feasible(r.arg, scene))
  /\ doubt' = doubt \cup Swapped(r.arg)

(* It could be done and failure is answered: an object or a load is refused;
   an attach took effect before its world push raised; a detach raised with the
   load still held, or after it was let go. *)
Fails(r) ==
  /\ Feasible(r.arg, scene) /\ Answer(r, FALSE)
  /\ \/ r.arg.do \in {"add", "attach"} /\ UNCHANGED scene /\ doubt' = doubt \cup {"refused"}
     \/ r.arg.do = "attach" /\ scene' = Changed(r.arg, scene) /\ doubt' = doubt \cup {"scene"}
     \/ /\ r.arg.do = "detach" /\ scene' \in {scene, Changed(r.arg, scene)}
        /\ doubt' = doubt \cup {"scene"}

SceneService(r) ==
  /\ Take(r, "scene") /\ Elsewhere /\ (Serves(r) \/ Fails(r))
  /\ UNCHANGED <<planner, off, solving, driving, cache, base, driven, overlapped>>

(* gpu_lock admits one solve: a plan, or the plan of a drive. *)
Solving == solving # NoCall
SolveBegin(r) ==
  /\ ~Solving /\ Take(r, "solve") /\ Elsewhere
  /\ solving' = [r EXCEPT !.arg = planner]
  /\ UNCHANGED <<reply, planner, off, scene, driving, cache, history>>

Request(r) == [r EXCEPT !.arg = Nothing]

SolveEnd ==
  /\ Solving /\ solving.kind = "solve" /\ Elsewhere
  /\ \E ok \in BOOLEAN :
       /\ Answer(Request(solving), ok)
       /\ cache' = IF ok THEN <<solving.by, solving.seg>> ELSE cache
  /\ solving' = NoCall
  /\ UNCHANGED <<outbox, planner, off, scene, driving, history>>

(* One execution goal at a time; the pending plan is reused if it is this
   segment's, else the segment is planned again. *)
DriveGoal(r) ==
  /\ Take(r, "drive") /\ Elsewhere
  /\ IF driving # NoCall THEN Answer(r, FALSE) /\ UNCHANGED <<driving, cache>>
     ELSE /\ UNCHANGED reply
          /\ \/ cache = <<r.by, r.seg>> /\ driving' = [r EXCEPT !.arg = "moving"] /\ cache' = <<>>
             \/ driving' = [r EXCEPT !.arg = "accepted"] /\ UNCHANGED cache
  /\ UNCHANGED <<planner, off, scene, solving, history>>

DriveSolve ==
  /\ driving.arg = "accepted" /\ ~Solving /\ Elsewhere
  /\ solving' = [driving EXCEPT !.arg = planner]
  /\ driving' = [driving EXCEPT !.arg = "solving"]
  /\ UNCHANGED <<reply, outbox, planner, off, scene, cache, history>>

DriveSolved ==
  /\ driving.arg = "solving" /\ Elsewhere /\ solving' = NoCall
  /\ \/ /\ driving' = [driving EXCEPT !.arg = "moving"] /\ cache' = <<>>
        /\ UNCHANGED reply
     \/ driving' = NoCall /\ Answer(Request(driving), FALSE) /\ UNCHANGED cache
  /\ UNCHANGED <<outbox, planner, off, scene, history>>

DriveEnd ==
  /\ driving.arg = "moving" /\ Elsewhere /\ driving' = NoCall
  /\ \E ok \in BOOLEAN :
       /\ Answer(Request(driving), ok)
       /\ driven' = IF ok THEN [driven EXCEPT ![driving.by] = Append(@, driving.seg)]
                          ELSE driven
  /\ UNCHANGED <<outbox, planner, off, scene, solving, cache, base, doubt, overlapped>>

-----------------------------------------------------------------------------
Thread(g) ==
  \/ ExecuteCallback(g) \/ Report(g)
  \/ Segment(g) \/ SwitchPlanner(g) \/ PlannerSwitched(g) \/ PlanCall(g)
  \/ LinksAllowed(g) \/ SolveHeard(g) \/ LinksRestored(g) \/ NextSegment(g)
  \/ StartPlayback(g) \/ ApplyOp(g) \/ OpApplied(g) \/ OpsDone(g)
  \/ Drive(g) \/ DriveHeard(g)

Server ==
  \/ \E r \in outbox : \/ SetPlanner(r) \/ SetLinkCollision(r) \/ SceneService(r)
                       \/ SolveBegin(r) \/ DriveGoal(r)
  \/ SolveEnd \/ DriveSolve \/ DriveSolved \/ DriveEnd

Next == Server \/ \E g \in Goals : GoalCallback(g) \/ Thread(g) \/ GiveUp(g)

Spec == Init /\ [][Next]_vars

(* The worker thread runs and its deadlines pass.  Nothing is assumed of the
   server. *)
FairSpec == Spec /\ \A g \in Goals : WF_vars(Thread(g) \/ GiveUp(g))

-----------------------------------------------------------------------------
(* Properties.  The server's state is what the adapter believes only while no
   request of the kind in question was given up or misreported (doubt), and
   while one task is in progress at a time (overlapped). *)

Sound(kinds) == ~overlapped /\ doubt \cap kinds = {}
Awaited(r) == r # NoCall /\ call[r.by] = Request(r)

(* The state has its types: a thread waits exactly while its call is open, and
   one solve and one drive at most are under way. *)
TaskServerTypeOK ==
  /\ \A g \in Goals : /\ seg[g] \in DOMAIN Program[g] /\ op[g] \in 1 .. Len(S(g).ops) + 1
                       /\ (reply[g] \in {"none", "raised"}) = (call[g] = NoCall)
                       /\ call[g] # NoCall => Working(g)
                       /\ verdict[g] \in {"none", "rejected", "aborted", "solved", "succeeded"}
  /\ inProgress \in BOOLEAN /\ off \subseteq KnownLinks
  /\ doubt \subseteq Doubts
  /\ (solving.kind = "drive") = (driving.arg = "solving")

(* robot/curobo.py, plan: spheres off for the duration of the solve, on right
   after.  No plan leaves a link without its collision spheres, whether its
   solve failed, timed out or raised. *)
ContactsAreRestored ==
  Sound({"links"}) /\ (\A g \in Goals : pc[g] \notin {"allow", "solve", "restore"}) => off = {}

(* A plan whose answer is awaited is made by the planner its request names, or
   by one of those its batch names, and until it ends the links whose spheres
   the node has turned off are exactly the contacts of its request. *)
Named(s) == IF s.batch = {} THEN {s.planner} ELSE s.batch
SolvedAsAsked ==
  Sound({"links", "planner"}) /\ solving.kind = "solve" /\ Awaited(solving) =>
    LET asked == Program[solving.by][solving.seg]
    IN  /\ off = asked.contacts \cap KnownLinks
        /\ Named(asked) = {Nothing} \/ solving.arg \in Named(asked)

(* A task succeeds only when every motion of its chain was driven to its end,
   once, in the order of the chain. *)
SuccessIsDriven ==
  \A g \in Goals : verdict[g] = "succeeded" =>
    /\ {driven[g][k] : k \in DOMAIN driven[g]} = {i \in DOMAIN Program[g] : Program[g][i].moves}
    /\ \A j, k \in DOMAIN driven[g] : j < k => driven[g][j] < driven[g][k]

(* What a playback makes of a scene: it takes an operation once, or (once is
   FALSE) as often as its chain has it. *)
Played(o, p) ==
  IF p.once /\ o \in p.seen THEN p
  ELSE [scene |-> Changed(o, p.scene), seen |-> p.seen \cup {o}, once |-> p.once]
Replay(p, ops) ==
  LET F[k \in 0 .. Len(ops)] == IF k = 0 THEN p ELSE Played(ops[k], F[k - 1]) IN F
PlaybackAfter(p, chain) ==
  LET F[i \in 0 .. Len(chain)] ==
        IF i = 0 THEN p ELSE Replay(F[i - 1], chain[i].ops)[Len(chain[i].ops)]
  IN F
From(sc, once) == [scene |-> sc, seen |-> {}, once |-> once]
SceneDue(g, n, once) == PlaybackAfter(From(base[g], once), Program[g])[n].scene

(* A motion begins in the scene the task found, changed by every operation of
   the chain up to its segment and no other, each taken once: unless one of them
   was given up, misreported or refused. *)
MotionSeesScene ==
  Sound({"scene", "refused"}) /\ driving.arg = "moving" /\ Awaited(driving) =>
    scene = SceneDue(driving.by, driving.seg, TRUE)

(* The scene it was planned in is that of every operation, repeated ones too:
   executor.py says that the scene delta of each segment is materialized. *)
MotionSeesPlannedScene ==
  Sound({"scene", "refused"}) /\ driving.arg = "moving" /\ Awaited(driving) =>
    scene = SceneDue(driving.by, driving.seg, FALSE)

(* The mirror from which the next task's base scene is built has the objects of
   the server's scene, whatever was refused, and its load; and no other load,
   unless one was taken up or set down while another was held. *)
MirrorIsTrue ==
  Sound({"scene"}) /\ (\A g \in Goals : call[g].kind # "scene") =>
    /\ mirror.objects = scene.objects
    /\ scene.held \in mirror.attached \cup {Nothing}
    /\ "load" \notin doubt => mirror.attached \subseteq {scene.held}

(* A task that was accepted is answered, however dead the server. *)
TasksSettle == \A g \in Goals : pc[g] = "accepted" ~> pc[g] = "done"
=============================================================================
