----------------------------- MODULE SceneWorld -----------------------------
(***************************************************************************)
(* The collision world: the Scene of core/obstacle_manager.py, the copies  *)
(* of it that every built solver carries, and the object attached to the   *)
(* arm by core/attachment_services.py.                                     *)
(*                                                                         *)
(* Two kinds of thread change it.  The obstacle, attachment, IK, FK and    *)
(* cache services are all in the node's default, mutually exclusive        *)
(* callback group: one "service" request at a time.  Planning, stepping    *)
(* and clear_voxel_map refresh the camera map from other threads           *)
(* ("planner").  The service changes the Scene with no lock and then       *)
(* pushes it under gpu_lock; a push reads the Scene when it starts and     *)
(* writes the solvers when it ends, one action each.                       *)
(*                                                                         *)
(* The camera map (ESDF) is a number, 0 for none: the scan it came from.   *)
(***************************************************************************)
EXTENDS Integers

CONSTANTS
  Objects,      \* obstacle names
  WorldFile,    \* those loaded from the world file
  Reactive,     \* reactive controllers: "mpc", "retarget"
  FirstSolver,  \* the solver warmed up at start
  MaxScans,     \* bound: camera maps computed
  MaxCopies,    \* bound: obstacles of one name
  Nothing

Solvers == {"motion", "ik", "fk"} \cup Reactive

ASSUME SceneAssumption ==
  /\ WorldFile \subseteq Objects
  /\ Nothing \notin Objects \cup {"service", "planner"}
  /\ Reactive \subseteq {"mpc", "retarget"}
  /\ FirstSolver \in {"motion"} \cup Reactive
  /\ MaxScans \in Nat /\ MaxCopies \in Nat \ {0}

VARIABLES
  scene,       \* how many obstacles of each name the Scene's buckets hold
  names,       \* obstacle_names
  excluded,    \* excluded_obstacle_names
  staged,      \* Scene.voxel
  voxelCache,  \* collision_cache["voxel"] is not None
  built,       \* the solvers that exist
  world,       \* the collision model of each solver
  attached,    \* AttachmentServices._attached_name
  payload,     \* the object fitted to the MotionPlanner's attach link
  amDisabled,  \* _disabled_obstacle_names of its attachment manager
  gpu,         \* holder of gpu_lock across a push, or Nothing
  snapshot,    \* the solver-bound scene of that push
  service,     \* where the service request stands
  failed       \* the last push raised

sceneVars  == <<scene, names>>
attachVars == <<excluded, attached, payload, amDisabled>>
lockVars   == <<gpu, snapshot>>
vars == <<sceneVars, attachVars, lockVars, staged, voxelCache, built, world,
          service, failed>>

Empty == [o \in Objects |-> 0]
Present == {o \in Objects : scene[o] > 0}

(* primitives_only_scene: no camera map, no excluded obstacle.             *)
PrimitivesOnly ==
  [copies |-> [o \in Objects |-> IF o \in excluded THEN 0 ELSE scene[o]],
   voxel |-> 0]

(* collision_world_scene: the whole Scene, excluded obstacles included.    *)
CollisionWorld == [copies |-> scene, voxel |-> staged]

(* A solver is constructed with the primitives only (the retargeter with   *)
(* the Scene as it is); the cache it is given decides whether it can ever  *)
(* hold a camera map.                                                      *)
ConstructedWith(s) == IF s = "retarget" THEN CollisionWorld ELSE PrimitivesOnly
NewSolver(s) ==
  [copies |-> ConstructedWith(s).copies, off |-> {},
   voxel |-> ConstructedWith(s).voxel, cache |-> voxelCache]

Loaded(s, w) == [world[s] EXCEPT !.copies = w.copies, !.off = {},
                                 !.voxel = w.voxel]

(* What solver s checks collisions against.                                *)
Effective(s) == [o \in Objects |-> IF o \in world[s].off
                                   THEN 0 ELSE world[s].copies[o]]

Idle == [op |-> "idle", obj |-> Nothing]
NoSnapshot == [copies |-> Empty, voxel |-> 0]
NoSolver == [copies |-> Empty, off |-> {}, voxel |-> 0, cache |-> TRUE]

Init ==
  /\ scene = [o \in Objects |-> IF o \in WorldFile THEN 1 ELSE 0]
  /\ names = {} /\ excluded = {}
  /\ staged = 0 /\ voxelCache = TRUE
  /\ built = {FirstSolver}
  /\ world = [s \in Solvers |->
       [copies |-> IF s = FirstSolver THEN scene ELSE Empty,
        off |-> {}, voxel |-> 0, cache |-> TRUE]]
  /\ attached = Nothing /\ payload = Nothing /\ amDisabled = {}
  /\ gpu = Nothing /\ snapshot = NoSnapshot
  /\ service = Idle /\ failed = FALSE

-----------------------------------------------------------------------------
(* Services of the obstacle manager: change the Scene, then notify.        *)

AddObject(o) ==
  /\ service = Idle /\ o \notin names
  /\ scene[o] < MaxCopies
  /\ scene' = [scene EXCEPT ![o] = @ + 1] /\ names' = names \cup {o}
  /\ service' = [op |-> "notify", obj |-> o]
  /\ UNCHANGED <<attachVars, lockVars, staged, voxelCache, built, world,
                 failed>>

RemoveObject(o) ==
  /\ service = Idle /\ o \in names
  /\ scene' = [scene EXCEPT ![o] = @ - 1] /\ names' = names \ {o}
  /\ service' = [op |-> "notify", obj |-> o]
  /\ UNCHANGED <<attachVars, lockVars, staged, voxelCache, built, world,
                 failed>>

RemoveAllObjects ==
  /\ service = Idle
  /\ scene' = Empty /\ names' = {}
  /\ service' = [op |-> "notify", obj |-> Nothing]
  /\ UNCHANGED <<attachVars, lockVars, staged, voxelCache, built, world,
                 failed>>

(* set_collision_cache writes the size; the observer then rebuilds.        *)
SetCollisionCache(on) ==
  /\ service = Idle
  /\ voxelCache' = on
  /\ service' = [op |-> "rebuild", obj |-> Nothing]
  /\ UNCHANGED <<sceneVars, attachVars, lockVars, staged, built, world,
                 failed>>

(* The solvers of S are constructed anew.  A new MotionPlanner carries no  *)
(* attached spheres and its attachment manager remembers nothing.          *)
Construct(S) ==
  /\ built' = built \cup S
  /\ world' = [s \in Solvers |-> IF s \in S THEN NewSolver(s) ELSE world[s]]
  /\ IF "motion" \in S THEN payload' = Nothing /\ amDisabled' = {}
                       ELSE UNCHANGED <<payload, amDisabled>>

Lose(s) == built' = built \ {s} /\ world' = [world EXCEPT ![s] = NoSolver]

(* The warmup of a new MotionPlanner raises: there is none any more.       *)
MotionWarmupFails == Lose("motion") /\ payload' = Nothing /\ amDisabled' = {}

RebuiltBefore(s) == CASE s = "motion" -> {} [] s = "ik" -> {"motion"}
                      [] s = "mpc" -> {"motion", "ik"}
                      [] OTHER -> {"motion", "ik", "mpc"}

(* rebuild_solvers_for_cache_change: every built solver but FK, in order;  *)
(* one that raises leaves those after it as they were.                     *)
RebuildSolvers ==
  /\ service.op = "rebuild" /\ gpu = Nothing
  /\ \/ \E S \in SUBSET (built \ {"fk"}) :
          /\ \A s \in S : RebuiltBefore(s) \cap built \subseteq S
          /\ Construct(S)
     \/ "motion" \in built /\ MotionWarmupFails
  /\ service' = Idle
  /\ UNCHANGED <<sceneVars, excluded, attached, lockVars, staged, voxelCache,
                 failed>>

(* A service builds a solver in its callback group and under gpu_lock.     *)
ByService == service = Idle /\ gpu = Nothing
Rest == <<sceneVars, excluded, attached, lockVars, staged, voxelCache, service,
          failed>>

UpdateMotionGenConfig ==
  ByService /\ (Construct({"motion"}) \/ MotionWarmupFails) /\ UNCHANGED Rest

(* _setup_planner: the warmup on demand of the planner that is set.        *)
WarmupOnDemand(s) ==
  /\ gpu = Nothing /\ s \in {"motion"} \cup Reactive /\ s \notin built
  /\ Construct({s}) /\ UNCHANGED Rest

WarmupIK == ByService /\ Construct({"ik"}) /\ UNCHANGED Rest

(* An IK request of the batch size and seed count of the solver changes    *)
(* nothing; any other, or one whose solve raises, constructs it anew, and  *)
(* with the primitives only: the camera map is missing until a push.       *)
Reinitialize == Construct({"ik"}) /\ UNCHANGED Rest

IkRequest == ByService /\ "ik" \in built /\ Reinitialize

(* The reachability map is one batch of IK, warmed up or not.              *)
GenerateRM == ByService /\ Reinitialize

(* The validator of the FK services may fail to load: there is none then.  *)
InitFK == \/ Construct({"fk"})
          \/ Lose("fk") /\ UNCHANGED <<payload, amDisabled>>

WarmupFK == ByService /\ InitFK /\ UNCHANGED Rest

(* What /fk and /fk_batch validate a configuration against: with no        *)
(* validator every configuration is valid.                                 *)
Validated == IF "fk" \in built THEN Effective("fk") ELSE Empty

-----------------------------------------------------------------------------
(* update_all_solvers_world.                                               *)

SolverBound == IF voxelCache THEN CollisionWorld ELSE PrimitivesOnly

StartPush(thread) == gpu' = thread /\ snapshot' = SolverBound

(* Mutant: the push does not hold gpu_lock.                                *)
NotifyUnlocked ==
  /\ service.op = "notify"
  /\ world' = [s \in Solvers |-> IF s \in built
                 THEN [Loaded(s, SolverBound) EXCEPT !.off = excluded]
                 ELSE world[s]]
  /\ service' = Idle
  /\ UNCHANGED <<sceneVars, attachVars, lockVars, staged, voxelCache, built,
                 failed>>

(* The observer of a Scene change takes gpu_lock and pushes.               *)
NotifyWorldChanged ==
  /\ service.op = "notify" /\ gpu = Nothing
  /\ StartPush("service")
  /\ service' = [service EXCEPT !.op = "pushing"]
  /\ UNCHANGED <<sceneVars, attachVars, staged, voxelCache, built, world,
                 failed>>

(* The scene each solver is given: the open-loop and reactive solvers the  *)
(* snapshot, IK and FK what the Scene holds by then.                       *)
Given(s) == IF s \in {"ik", "fk"} THEN CollisionWorld ELSE snapshot

(* A camera map raises in a solver built with no voxel cache (FK and the   *)
(* retargeter are not built with the cache that is configured); the        *)
(* solvers after it are not reached.                                       *)
Raises(s) == /\ s \in built \ {"fk", "retarget"}
             /\ Given(s).voxel # 0 /\ ~world[s].cache

Rank(s) == CASE s = "motion" -> 1 [] s = "mpc" -> 2 [] s = "retarget" -> 3
             [] s = "ik" -> 4 [] s = "fk" -> 5

Reached(s) == s \in built /\ \A r \in Solvers :
                Rank(r) <= Rank(s) => ~Raises(r)

(* Mutant: the loaded obstacles all stay enabled.                          *)
ReapplyNothing(w) == w

(* reapply_attached_disables: by name, wherever the obstacle is loaded.    *)
Reapply(w) == [w EXCEPT !.off = {o \in excluded : w.copies[o] > 0}]

(* The end of a push: the solvers are loaded in turn and the disabled      *)
(* names asserted again, or one of them raises; the lock is released.      *)
(* detach forgets the object only when its push succeeds.                  *)
FinishPush ==
  /\ gpu # Nothing
  /\ gpu' = Nothing /\ snapshot' = NoSnapshot
  /\ failed' = \E s \in Solvers : Raises(s)
  /\ world' = [s \in Solvers |->
       IF ~Reached(s) THEN world[s]
       ELSE IF failed' THEN Loaded(s, Given(s))
       ELSE Reapply(Loaded(s, Given(s)))]
  /\ IF gpu = "service" THEN service' = Idle ELSE UNCHANGED service
  /\ attached' = IF gpu = "service" /\ service.op = "detach" /\ ~failed'
                 THEN Nothing ELSE attached
  /\ UNCHANGED <<sceneVars, excluded, payload, amDisabled, staged, voxelCache,
                 built>>

(* Mutant: the map is staged and nothing is pushed.                        *)
RefreshWithoutPush ==
  /\ gpu = Nothing /\ staged < MaxScans
  /\ staged' = staged + 1
  /\ UNCHANGED <<sceneVars, attachVars, lockVars, voxelCache, built, world,
                 service, failed>>

(* refresh_perception_world and clear_voxel_map: a new camera map that     *)
(* passes _inspect_esdf is staged and pushed in one hold of the lock.      *)
RefreshPerception ==
  /\ gpu = Nothing /\ staged < MaxScans
  /\ staged' = staged + 1
  /\ gpu' = "planner"
  /\ snapshot' = IF voxelCache THEN [CollisionWorld EXCEPT !.voxel = staged']
                               ELSE PrimitivesOnly
  /\ UNCHANGED <<sceneVars, attachVars, voxelCache, built, world, service,
                 failed>>

-----------------------------------------------------------------------------
(* Attachment services.                                                    *)

(* attach finds the obstacle in the Scene before it takes the lock.        *)
AttachFind(o) ==
  /\ service = Idle /\ "motion" \in built
  /\ o \in Present
  /\ service' = [op |-> "attach", obj |-> o]
  /\ UNCHANGED <<sceneVars, attachVars, lockVars, staged, voxelCache, built,
                 world, failed>>

(* The fit or the forward kinematics raises: nothing was changed.          *)
AttachFails ==
  /\ service.op = "attach" /\ gpu = Nothing
  /\ service' = Idle
  /\ UNCHANGED <<sceneVars, attachVars, lockVars, staged, voxelCache, built,
                 world, failed>>

(* The obstacle is disabled by name in the MotionPlanner's checker, if it  *)
(* is loaded there.                                                        *)
Disable(o) ==
  IF world["motion"].copies[o] > 0
  THEN /\ world' = [world EXCEPT !["motion"].off = @ \cup {o}]
       /\ amDisabled' = {o}
  ELSE UNCHANGED <<world, amDisabled>>

(* The object's voxels are cleared in the mapper, and the map computed     *)
(* anew is staged if it passes; if not, the last one stays.                *)
ClearedMap == {staged, staged + 1} \cap (0..MaxScans)

(* In one hold of gpu_lock: fit the spheres, disable, exclude, clear the   *)
(* object's voxels and push the world.                                     *)
AttachFit ==
  /\ service.op = "attach" /\ gpu = Nothing
  /\ payload' = service.obj /\ attached' = service.obj
  /\ excluded' = excluded \cup {service.obj}
  /\ Disable(service.obj)
  /\ \E scan \in ClearedMap :
       /\ staged' = scan
       /\ snapshot' = IF voxelCache
                      THEN [copies |-> scene, voxel |-> scan]
                      ELSE [copies |-> [o \in Objects |->
                              IF o \in excluded' THEN 0 ELSE scene[o]],
                            voxel |-> 0]
  /\ gpu' = "service"
  /\ service' = [service EXCEPT !.op = "pushing"]
  /\ UNCHANGED <<sceneVars, voxelCache, built, failed>>

(* detach: the spheres are reset, the names the attachment manager         *)
(* disabled are enabled, the object is included again and pushed.          *)
Detach ==
  /\ service = Idle /\ gpu = Nothing /\ "motion" \in built
  /\ payload' = Nothing /\ amDisabled' = {}
  /\ world' = [world EXCEPT !["motion"].off = @ \ amDisabled]
  /\ excluded' = excluded \ {attached}
  /\ IF attached = Nothing
     THEN UNCHANGED <<lockVars, service>>
     ELSE /\ gpu' = "service"
          /\ snapshot' = IF voxelCache THEN CollisionWorld
                         ELSE [copies |-> [o \in Objects |->
                                 IF o \in excluded' THEN 0 ELSE scene[o]],
                               voxel |-> 0]
          /\ service' = [op |-> "detach", obj |-> attached]
  /\ UNCHANGED <<sceneVars, attached, staged, voxelCache, built, failed>>

-----------------------------------------------------------------------------
(* The voxel grid, published by a timer that gives up when gpu_lock is     *)
(* held, or served on request: observed camera voxels, and the analytic    *)
(* obstacles, rasterized on the GPU if the Scene holds any.                *)
Rasterized == {o \in Objects : PrimitivesOnly.copies[o] > 0}
VoxelGrid == IF Present = {} THEN {} ELSE Rasterized

Next ==
  \/ \E o \in Objects : AddObject(o) \/ RemoveObject(o) \/ AttachFind(o)
  \/ RemoveAllObjects
  \/ \E on \in BOOLEAN : SetCollisionCache(on)
  \/ RebuildSolvers
  \/ UpdateMotionGenConfig \/ \E s \in Solvers : WarmupOnDemand(s)
  \/ WarmupIK \/ IkRequest \/ GenerateRM \/ WarmupFK
  \/ NotifyWorldChanged \/ FinishPush \/ RefreshPerception
  \/ AttachFails \/ AttachFit \/ Detach

Spec == Init /\ [][Next]_vars

-----------------------------------------------------------------------------
Models == [copies : [Objects -> 0..MaxCopies], off : SUBSET Objects,
           voxel : 0..MaxScans, cache : BOOLEAN]

(* The state has its types, a registered name is in the Scene, and the     *)
(* attached object is excluded from the rasterization.                     *)
SceneTypeOK ==
  /\ scene \in [Objects -> 0..MaxCopies]
  /\ names \subseteq Present
  /\ excluded \subseteq Objects
  /\ staged \in 0..MaxScans /\ voxelCache \in BOOLEAN
  /\ built \subseteq Solvers
  /\ world \in [Solvers -> Models]
  /\ attached \in Objects \cup {Nothing}
  /\ payload \in {attached, Nothing}
  /\ amDisabled \subseteq Objects
  /\ gpu \in {Nothing, "service", "planner"}
  /\ snapshot \in [copies : [Objects -> 0..MaxCopies], voxel : 0..MaxScans]
  /\ service \in [op : {"idle", "notify", "rebuild", "pushing", "attach",
                        "detach"}, obj : Objects \cup {Nothing}]
  /\ failed \in BOOLEAN

(* A retargeter built while an obstacle is excluded has it until a push.   *)
Exact == IF excluded = {} THEN built ELSE built \ {"retarget"}

(* With no service request half way, no push under way and none that       *)
(* raised, every solver that exists collides with exactly the Scene, save  *)
(* the excluded obstacles: no mutation is lost to a push that read the     *)
(* Scene before it, whatever was built, rebuilt or pushed meanwhile.       *)
WorldInSync ==
  service = Idle /\ gpu = Nothing /\ ~failed =>
    \A s \in Exact : Effective(s) = PrimitivesOnly.copies

(* Whoever takes gpu_lock finds the carried object inert in every solver:  *)
(* a plan never sees the arm collide with the object's own static copy,    *)
(* no /fk answer either, and no voxel grid shows it, between the steps of  *)
(* a service request too.  The retargeter excepted, see Exact.             *)
PayloadIsInert ==
  gpu = Nothing /\ payload # Nothing =>
    /\ ~failed => /\ \A s \in Exact : Effective(s)[payload] = 0
                  /\ Validated[payload] = 0
    /\ payload \notin VoxelGrid

(* A solver holds the camera map that was staged last or none at all (it   *)
(* was built since): a map cleared by clear_voxel_map or attach survives   *)
(* in no solver.                                                           *)
NoOutdatedMap ==
  gpu = Nothing /\ ~failed => \A s \in built : world[s].voxel \in {0, staged}
=============================================================================
