---------------------------- MODULE MoveItMirror ----------------------------
(***************************************************************************)
(* The MoveIt plugin: before every plan, CumotionServiceClient mirrors the *)
(* planning scene into the planner node's obstacles and back, one service  *)
(* call at a time, and then plans.                                         *)
(*                                                                         *)
(* Every planning group has a context with a client of its own, which      *)
(* remembers what it put on the server.  A call may find no service, or    *)
(* time out: its request then stays under way and may still be executed.   *)
(*                                                                         *)
(* A name is <<object, i>>: the object's own name for i = 0, the name of   *)
(* one of its shapes, {id}__{i}, for the others.  A shape with its pose is *)
(* one value, the one the client's signature and cached request stand for. *)
(***************************************************************************)
EXTENDS Integers, Sequences

CONSTANTS
  Groups,     \* planning groups
  Objects,    \* collision objects of MoveIt
  Carriable,  \* those the gripper may carry
  Shapes,     \* a shape with its pose
  Unsupported, \* those without an add_object request: an octomap, a cone, a plane
  Converted,  \* what each may be in MoveIt's world once it was mirrored back
  MaxShapes,  \* bound: shapes of one object
  MaxFaults,  \* bound: calls that fail
  Nothing

ASSUME MirrorAssumption ==
  /\ Carriable \subseteq Objects /\ Unsupported \subseteq Shapes
  /\ Converted \in [Shapes -> SUBSET (Shapes \ Unsupported)]
  /\ MaxShapes \in Nat \ {0} /\ MaxFaults \in Nat
  /\ Nothing \notin Shapes \cup Groups

VARIABLES
  world,      \* MoveIt's world: the shapes under each name
  carried,    \* MoveIt's attached bodies
  server,     \* the server's obstacles: the shape under each name, or Nothing
  held,       \* the name attached on the server, or NoName
  known,      \* synced_member_signatures_ and cached_geometry_ of each group
  groups,     \* synced_groups_
  attached,   \* synced_attached_names_
  mirrored,   \* mirrored_in_moveit_names_
  solve,      \* the planning request under way
  late,       \* requests that timed out and were not executed yet
  faults,     \* calls that failed
  mixed,      \* history: a sync met an object that no longer has a shape it was
              \* mirrored by, or what another group's client had mirrored
  several     \* history: a sync met more than one body, carried or attached

history    == <<mixed, several>>
moveItVars == <<world, carried, history>>
serverVars == <<server, held>>
callVars   == <<serverVars, late, faults>>
clientVars == <<known, groups, attached, mirrored>>
vars == <<moveItVars, callVars, clientVars, solve>>

Names == Objects \X (0..MaxShapes)
NoName == <<>>
Plain(o) == <<o, 0>>

(* memberName: the server's name for shape i of n.                         *)
Member(b, i, n) == IF n = 1 THEN b ELSE <<b[1], i>>

Idle == [step |-> "idle"]

Init ==
  /\ world = [b \in Names |-> <<>>] /\ carried = {} /\ mixed = FALSE /\ several = FALSE
  /\ server = [m \in Names |-> Nothing] /\ held = NoName
  /\ known = [g \in Groups |-> [m \in Names |-> Nothing]]
  /\ groups = [g \in Groups |-> [b \in Names |-> {}]]
  /\ attached = [g \in Groups |-> {}] /\ mirrored = [g \in Groups |-> {}]
  /\ solve = Idle /\ late = {} /\ faults = 0

-----------------------------------------------------------------------------
(* The user's planning scene.  A sync works on the scene it was handed and *)
(* touches MoveIt's world only when it mirrors back: what the user changes *)
(* meanwhile may as well happen just before that.                          *)
Free == solve.step \in {"idle", "back"}

(* An object is added, moved or given other shapes.                        *)
PutObject(o, s) ==
  /\ Free /\ o \notin carried /\ world[Plain(o)] # s
  /\ world' = [world EXCEPT ![Plain(o)] = s]
  /\ UNCHANGED <<carried, history, callVars, clientVars, solve>>

DeleteObject(b) ==
  /\ Free /\ world[b] # <<>>
  /\ world' = [world EXCEPT ![b] = <<>>]
  /\ UNCHANGED <<carried, history, callVars, clientVars, solve>>

(* A body leaves the world for the robot, and comes back elsewhere.        *)
PickUp(o) ==
  /\ Free /\ world[Plain(o)] # <<>> /\ o \notin carried
  /\ world' = [world EXCEPT ![Plain(o)] = <<>>] /\ carried' = carried \cup {o}
  /\ UNCHANGED <<history, callVars, clientVars, solve>>

PutDown(o, s) ==
  /\ Free /\ o \in carried
  /\ world' = [world EXCEPT ![Plain(o)] = s] /\ carried' = carried \ {o}
  /\ UNCHANGED <<history, callVars, clientVars, solve>>

-----------------------------------------------------------------------------
(* The services of the planner node.                                       *)

Request(op, name, shape) == [op |-> op, name |-> name, shape |-> shape]

(* add_object rejects a name that exists, remove_object and attach_object  *)
(* one that does not.                                                      *)
Granted(r) ==
  CASE r.op = "add" -> server[r.name] = Nothing
    [] r.op \in {"remove", "attach"} -> server[r.name] # Nothing
    [] OTHER -> TRUE

Execute(r) ==
  /\ server' = IF r.op \in {"add", "remove"} /\ Granted(r)
               THEN [server EXCEPT ![r.name] = r.shape] ELSE server
  /\ held' = CASE r.op = "attach" /\ Granted(r) -> r.name
               [] r.op = "detach" -> NoName
               [] OTHER -> held

(* callService: ok says that an answer came, and that it was a success.    *)
Call(r, ok) ==
  \/ /\ ok = Granted(r) /\ Execute(r)
     /\ UNCHANGED <<late, faults>>
  \/ /\ ~ok /\ faults < MaxFaults /\ faults' = faults + 1
     /\ late' \in {late, late \cup {r}}
     /\ UNCHANGED serverVars

LateRequest(r) ==
  /\ r \in late /\ late' = late \ {r}
  /\ Execute(r)
  /\ UNCHANGED <<moveItVars, faults, clientVars, solve>>

-----------------------------------------------------------------------------
(* CumotionInterface::solve: forward sync, reverse sync, plan.  A step     *)
(* works through "todo", in any order, one service call at a time.         *)

InWorld(s) == {b \in Names : s.world[b] # <<>>}
Bodies(s) == {Plain(o) : o \in s.carried}
Wanted(s) == InWorld(s) \cup Bodies(s)

(* The shapes the forward sync has to mirror: a carried body is not one.   *)
Items(s) == {item \in (InWorld(s) \ Bodies(s)) \X (1..MaxShapes) :
               item[2] <= Len(s.world[item[1]])}
MemberOf(s, item) == Member(item[1], item[2], Len(s.world[item[1]]))
ShapeOf(s, item) == s.world[item[1]][item[2]]

(* fillRequestFromShape knows boxes, spheres, cylinders and meshes.        *)
Supported == Shapes \ Unsupported
Mirrorable(s) == {item \in Items(s) : ShapeOf(s, item) \in Supported}
MembersOf(s, b) == {MemberOf(s, item) : item \in {x \in Mirrorable(s) : x[1] = b}}

Solve(g) ==
  /\ solve = Idle
  /\ LET seen == [world |-> world, carried |-> carried]
     IN /\ solve' = [step |-> "prune", group |-> g, seen |-> seen,
                     todo |-> UNION {groups[g][b] : b \in Names \ Wanted(seen)},
                     made |-> [b \in Names |-> IF b \in Bodies(seen)
                                               THEN groups[g][b] ELSE {}],
                     keeps |-> attached[g] \cap Bodies(seen)]
        /\ mixed' = \/ mixed
                    \/ \E b \in InWorld(seen) \ Bodies(seen) :
                         ~(groups[g][b] \subseteq MembersOf(seen, b))
                    \/ \E h \in Groups \ {g} :
                         attached[h] # {} \/ \E m \in Names : known[h][m] # Nothing
        /\ several' = (several \/ \E x, y \in Bodies(seen) \cup attached[g] : x # y)
  /\ UNCHANGED <<world, carried, callVars, clientVars>>

At(step) == solve.step = step
Done(step) == At(step) /\ solve.todo = {}
Enter(step, todo) == [solve EXCEPT !.step = step, !.todo = todo]
Less(x) == [solve EXCEPT !.todo = @ \ {x}]

(* Mutant: the name is forgotten only once the server has removed it.      *)
ForgetsIfRemoved(g, m, ok) ==
  known' = IF ok THEN [known EXCEPT ![g][m] = Nothing] ELSE known

(* removeCuroboObject forgets the name whatever the call's outcome.        *)
Forgets(g, m, ok) == known' = [known EXCEPT ![g][m] = Nothing]

RemoveMember(m, ok) ==
  /\ Call(Request("remove", m, Nothing), ok)
  /\ Forgets(solve.group, m, ok)

(* Groups that are wanted no more are removed.                             *)
Prune ==
  /\ At("prune")
  /\ \E m \in solve.todo, ok \in BOOLEAN :
       RemoveMember(m, ok) /\ solve' = Less(m)
  /\ UNCHANGED <<moveItVars, groups, attached, mirrored>>

Pruned ==
  /\ Done("prune")
  /\ solve' = Enter("mirror", Items(solve.seen))
  /\ UNCHANGED <<moveItVars, callVars, clientVars>>

(* Mutant: a name that was synced is taken to be unchanged.                *)
UnchangedByName(g, m, s) == known[g][m] # Nothing

Unchanged(g, m, s) == known[g][m] = s

Joins(item) == [Less(item) EXCEPT
                  !.made[item[1]] = @ \cup {MemberOf(solve.seen, item)}]

AfterAdd(item, ok) == IF ok THEN Joins(item) ELSE Less(item)

(* Mutant: the signature is remembered before the answer.                  *)
RemembersSent(g, m, s, ok) == known' = [known EXCEPT ![g][m] = s]

Remembers(g, m, s, ok) ==
  known' = IF ok THEN [known EXCEPT ![g][m] = s] ELSE known

(* One shape: unchanged since the last sync, or passed over, and what was  *)
(* mirrored under its name before left as it is, because no request can    *)
(* carry it, or removed first because it changed, or added and remembered  *)
(* if the server took it.                                                  *)
MirrorOne(item, ok) ==
  LET g == solve.group
      m == MemberOf(solve.seen, item)
      s == ShapeOf(solve.seen, item)
  IN \/ /\ ok /\ Unchanged(g, m, s)
        /\ solve' = Joins(item)
        /\ UNCHANGED <<callVars, known>>
     \/ /\ ok /\ ~Unchanged(g, m, s) /\ s \in Unsupported
        /\ solve' = Less(item)
        /\ UNCHANGED <<callVars, known>>
     \/ /\ ~Unchanged(g, m, s) /\ s \in Supported /\ known[g][m] # Nothing
        /\ RemoveMember(m, ok)
        /\ UNCHANGED solve
     \/ /\ s \in Supported /\ known[g][m] = Nothing
        /\ Call(Request("add", m, s), ok)
        /\ Remembers(g, m, s, ok)
        /\ solve' = AfterAdd(item, ok)

Mirror ==
  /\ At("mirror")
  /\ \E item \in solve.todo, ok \in BOOLEAN : MirrorOne(item, ok)
  /\ UNCHANGED <<moveItVars, groups, attached, mirrored>>

Mirrored ==
  /\ Done("mirror")
  /\ groups' = [groups EXCEPT ![solve.group] = solve.made]
  /\ solve' = Enter("attach", Bodies(solve.seen) \ attached[solve.group])
  /\ UNCHANGED <<moveItVars, callVars, known, attached, mirrored>>

AttachBody ==
  /\ At("attach")
  /\ \E b \in solve.todo, ok \in BOOLEAN :
       /\ Call(Request("attach", b, Nothing), ok)
       /\ solve' = [Less(b) EXCEPT !.keeps = IF ok THEN @ \cup {b} ELSE @]
  /\ UNCHANGED <<moveItVars, clientVars>>

(* Mutant: bodies that were released are not detached.                     *)
ReleasedNone == {}

Released == attached[solve.group] \ Bodies(solve.seen)

AttachedAll ==
  /\ Done("attach")
  /\ solve' = Enter("detach", Released)
  /\ UNCHANGED <<moveItVars, callVars, clientVars>>

DetachBody ==
  /\ At("detach")
  /\ \E b \in solve.todo, ok \in BOOLEAN :
       Call(Request("detach", b, Nothing), ok) /\ solve' = Less(b)
  /\ UNCHANGED <<moveItVars, clientVars>>

(* The forward sync ends.                                                  *)
DetachedAll ==
  /\ Done("detach")
  /\ attached' = [attached EXCEPT ![solve.group] = solve.keeps]
  /\ solve' = Enter("list", {})
  /\ UNCHANGED <<moveItVars, callVars, known, groups, mirrored>>

(* The reverse sync asks for the server's names and gives up without them. *)
GetObstacles ==
  /\ At("list")
  /\ \/ /\ solve' = Enter("back", {m \in Names : server[m] # Nothing})
        /\ UNCHANGED callVars
     \/ /\ faults < MaxFaults /\ faults' = faults + 1
        /\ solve' = Enter("plan", {})
        /\ UNCHANGED <<serverVars, late>>
  /\ UNCHANGED <<moveItVars, clientVars>>

(* Mutant: whatever the server does not list.                              *)
GoneUnlisted == Names \ solve.todo

(* Names mirrored before that the server does not list.                    *)
Gone == mirrored[solve.group] \ solve.todo

(* They leave MoveIt's world; the names with a cached request enter it, as *)
(* a body of one shape each.  The request's pose is given to the body and  *)
(* to the shape in it, which MoveIt composes, and a cylinder's radius is   *)
(* written where its height belongs: "Converted" is what comes of it.      *)
MirrorBack ==
  /\ At("back")
  /\ LET kept == {m \in solve.todo : known[solve.group][m] # Nothing}
     IN /\ \E back \in [kept -> Shapes] :
             /\ \A b \in kept : back[b] \in Converted[known[solve.group][b]]
             /\ world' = [b \in Names |->
                  IF b \in kept THEN <<back[b]>>
                  ELSE IF b \in Gone THEN <<>> ELSE world[b]]
        /\ mirrored' = [mirrored EXCEPT ![solve.group] = kept]
  /\ solve' = Enter("plan", {})
  /\ UNCHANGED <<carried, history, callVars, known, groups, attached>>

(* set_planner and generate_trajectory, and the answer to MoveIt.          *)
Plan ==
  /\ At("plan")
  /\ solve' = Idle
  /\ UNCHANGED <<moveItVars, callVars, clientVars>>

Sync == \/ Prune \/ Pruned \/ Mirror \/ Mirrored \/ AttachBody \/ AttachedAll
        \/ DetachBody \/ DetachedAll \/ GetObstacles \/ MirrorBack \/ Plan

(* No two shapes of an object are in the same place.                       *)
ShapeLists == {s \in UNION {[1..n -> Shapes] : n \in 1..MaxShapes} :
                 \A i, j \in DOMAIN s : s[i] = s[j] => i = j}

User ==
  \/ \E o \in Objects, s \in ShapeLists : PutObject(o, s)
  \/ \E b \in Names : DeleteObject(b)
  \/ \E o \in Carriable : PickUp(o) \/ \E s \in ShapeLists : PutDown(o, s)

Next ==
  \/ User \/ Sync
  \/ \E g \in Groups : Solve(g)
  \/ \E r \in late : LateRequest(r)

Spec == Init /\ [][Next]_vars

(* move_group keeps planning for every group, each call returns within     *)
(* cumotion_service_timeout, and the server works off what it received.    *)
Fairness ==
  /\ WF_vars(Sync)
  /\ \A g \in Groups : SF_vars(Solve(g))
  /\ WF_vars(\E r \in late : LateRequest(r))

FairSpec == Spec /\ Fairness

-----------------------------------------------------------------------------
Phases == {"prune", "mirror", "attach", "detach", "list", "back", "plan"}

CarryNames == {Plain(o) : o \in Carriable}

(* The state has its types, and between requests a group lists an object's *)
(* name only as long as the client remembers it and would remove it again. *)
MirrorTypeOK ==
  /\ world \in [Names -> ShapeLists \cup {<<>>}]
  /\ carried \subseteq Carriable /\ mixed \in BOOLEAN /\ several \in BOOLEAN
  /\ server \in [Names -> Shapes \cup {Nothing}]
  /\ held \in Names \cup {NoName}
  /\ known \in [Groups -> [Names -> Supported \cup {Nothing}]]
  /\ groups \in [Groups -> [Names -> SUBSET Names]]
  /\ mirrored \in [Groups -> SUBSET Names]
  /\ attached \in [Groups -> SUBSET CarryNames]
  /\ solve.step \in Phases \cup {"idle"}
  /\ faults \in 0..MaxFaults
  /\ solve = Idle => \A g \in Groups, b \in Names, o \in Objects :
                       Plain(o) \in groups[g][b] => known[g][Plain(o)] # Nothing

(* What a client will skip as unchanged is on the server with that very    *)
(* shape and pose, whatever calls were lost, answered late or executed     *)
(* late, for every group: no plan misses an obstacle that "was mirrored".  *)
(* It holds of the objects' own names; the name of a shape may be in two   *)
(* groups, once mirrored back, and a late removal by one hit the other.    *)
KnownIsServed ==
  \A g \in Groups, o \in Objects :
    known[g][Plain(o)] # Nothing => server[Plain(o)] = known[g][Plain(o)]

(* One group's client, no failed call, and no object that lost a shape it  *)
(* was mirrored by, or has one in its place that is not supported: the     *)
(* plan sees every obstacle of the scene that a request can carry where it *)
(* is, and no other but a carried body's.                                  *)
Sound == faults = 0 /\ ~mixed

PlanSeesScene ==
  At("plan") /\ Sound =>
    LET s == solve.seen
        made == [m \in Names |-> {ShapeOf(s, item) : item \in
                   {x \in Mirrorable(s) : MemberOf(s, x) = m}}]
    IN \A m \in Names :
         /\ made[m] # {} => server[m] \in made[m]
         /\ server[m] # Nothing =>
              made[m] # {} \/ m \in UNION {groups[solve.group][b] : b \in Bodies(s)}

(* hpp:135: "Names currently attached in cuRobo".  After a forward sync    *)
(* with no failed call, what the server holds is one of them; it is the    *)
(* only one, as long as no sync met more than one body: the server holds   *)
(* one, and its detach names none.                                         *)
AttachedIsHeld ==
  At("plan") /\ Sound =>
    /\ held # NoName => held \in attached[solve.group]
    /\ ~several => attached[solve.group] \subseteq {held}

(* The mirror back, with no failed call and nothing carried, changes a     *)
(* MoveIt world of single shapes that stayed as the forward sync saw it in *)
(* nothing but the conversion of what it mirrored: nothing vanishes, comes *)
(* back from an earlier scene, or is replaced.                             *)
MirrorBackIsIdle ==
  [][MirrorBack /\ Sound /\ carried = {}
     /\ solve.seen = [world |-> world, carried |-> carried]
     /\ (\A b \in Names : Len(world[b]) <= 1)
     => \A b \in Names :
          \/ world'[b] = world[b]
          \/ \E s \in Supported, c \in Shapes :
               world[b] = <<s>> /\ c \in Converted[s] /\ world'[b] = <<c>>]_vars

(* Retries: an object that stays in MoveIt's world, with a shape a request *)
(* can carry, is an obstacle of the server again and again, whichever      *)
(* calls fail.                                                             *)
ObstaclesGetThrough ==
  \A o \in Objects :
    <>[](\E i \in DOMAIN world[Plain(o)] : world[Plain(o)][i] \in Supported) =>
      []<>(\E i \in 0..MaxShapes : server[<<o, i>>] # Nothing)
=============================================================================
