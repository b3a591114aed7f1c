-------------------------- MODULE SceneWorldProofs --------------------------
(***************************************************************************)
(* Proofs about SceneWorld, for any obstacles, any set of reactive         *)
(* controllers and any number of camera maps: the solvers collide with     *)
(* exactly the Scene, the carried object is inert and no map is outdated.  *)
(***************************************************************************)
EXTENDS SceneWorld, TLAPS

(* Whoever pushes for a service is the service request in that phase, and  *)
(* a detach has given the object up before it pushes.                      *)
LockOK ==
  /\ gpu = "service" <=> service.op \in {"pushing", "detach"}
  /\ service.op = "idle" => service = Idle
  /\ service.op = "attach" => service.obj \in Objects
  /\ service.op = "detach" \/ attached = Nothing =>
       payload = Nothing /\ amDisabled = {}
  /\ payload # Nothing => payload \in excluded

Masked(copies, o) == IF o \in excluded THEN 0 ELSE copies[o]

(* A push under way carries the Scene as it is, unless it was changed      *)
(* since, which a notification of its own will push.                       *)
SnapshotOK ==
  gpu # Nothing =>
    /\ service.op # "notify" =>
         \A o \in Objects : Masked(snapshot.copies, o) = Masked(scene, o)
    /\ snapshot.voxel \in {0, staged}

Collides(s, o) == IF o \in world[s].off THEN 0 ELSE world[s].copies[o]

(* Nobody pushing and no push that raised: every solver has the Scene      *)
(* (save a change about to be pushed), none has an excluded obstacle.      *)
InStep(s) == /\ service.op # "notify" =>
                  \A o \in Objects : Collides(s, o) = Masked(scene, o)
             /\ \A o \in excluded : Collides(s, o) = 0
SolversOK ==
  gpu = Nothing /\ ~failed => \A s \in built :
    /\ s = "retarget" => (excluded = {} => InStep(s))
    /\ s # "retarget" => InStep(s)
    /\ world[s].voxel \in {0, staged}

SceneInv == SceneTypeOK /\ LockOK /\ SnapshotOK /\ SolversOK

-----------------------------------------------------------------------------
LEMMA SceneInit == ASSUME SceneAssumption, Init PROVE SceneInv
<1> USE DEF Init, SceneAssumption, Idle, NoSnapshot, Empty, Solvers
<1>1. scene \in [Objects -> 0..MaxCopies]
  OBVIOUS
<1>2. world \in [Solvers -> Models]
  <2>1. [o \in Objects |-> 0] \in [Objects -> 0..MaxCopies]
    OBVIOUS
  <2>2. \A s \in Solvers : world[s] \in Models
    BY <1>1, <2>1 DEF Models
  <2> QED
    BY <2>2
<1>3. snapshot \in [copies : [Objects -> 0..MaxCopies], voxel : 0..MaxScans]
  OBVIOUS
<1>31. SceneTypeOK
  <2> HIDE DEF Solvers
  <2>1. built \subseteq Solvers
    BY DEF Solvers
  <2> QED
    BY <1>1, <1>2, <1>3, <2>1 DEF SceneTypeOK, Present
<1>4. LockOK /\ SnapshotOK
  BY DEF LockOK, SnapshotOK
<1>5. SolversOK
  BY DEF SolversOK, InStep, Collides, Masked
<1> QED
  BY <1>31, <1>4, <1>5 DEF SceneInv

(* What the types say of one solver.                                       *)
LEMMA SolverFields ==
  ASSUME SceneTypeOK, NEW s \in Solvers
  PROVE  /\ world[s].copies \in [Objects -> 0..MaxCopies]
         /\ world[s].off \in SUBSET Objects
         /\ world[s].voxel \in 0..MaxScans
         /\ world[s].cache \in BOOLEAN
         /\ world[s] = [copies |-> world[s].copies, off |-> world[s].off,
                        voxel |-> world[s].voxel, cache |-> world[s].cache]
BY DEF SceneTypeOK, Models

(* The ways in which a step changes a collision model.                     *)
LEMMA OffChanged ==
  ASSUME NEW m \in Models, NEW D \in SUBSET Objects
  PROVE  [m EXCEPT !.off = D] \in Models
BY DEF Models

LEMMA OffSame ==
  ASSUME NEW m \in Models
  PROVE  [m EXCEPT !.off = m.off \ {}] = m
BY DEF Models

LEMMA LoadedModel ==
  ASSUME NEW s, world[s] \in Models, NEW w,
         w.copies \in [Objects -> 0..MaxCopies], w.voxel \in 0..MaxScans
  PROVE  /\ Loaded(s, w) \in Models
         /\ Loaded(s, w).copies = w.copies /\ Loaded(s, w).voxel = w.voxel
<1> DEFINE m == world[s]
<1>1. Loaded(s, w) = [m EXCEPT !.copies = w.copies, !.off = {}, !.voxel = w.voxel]
  BY DEF Loaded
<1>2. m \in Models
  OBVIOUS
<1> HIDE DEF m
<1> QED
  BY <1>1, <1>2 DEF Models

LEMMA ReapplyModel ==
  ASSUME NEW m \in Models, excluded \in SUBSET Objects
  PROVE  /\ Reapply(m) \in Models
         /\ Reapply(m).copies = m.copies /\ Reapply(m).voxel = m.voxel
         /\ Reapply(m).off = {o \in excluded : m.copies[o] > 0}
<1> DEFINE D == {o \in excluded : m.copies[o] > 0}
<1>1. D \in SUBSET Objects
  OBVIOUS
<1>2. Reapply(m) = [m EXCEPT !.off = D]
  BY DEF Reapply
<1> HIDE DEF D
<1>3. /\ Reapply(m) \in Models
      /\ Reapply(m).copies = m.copies /\ Reapply(m).voxel = m.voxel
      /\ Reapply(m).off = D
  BY <1>1, <1>2 DEF Models
<1> QED
  BY <1>3 DEF D

-----------------------------------------------------------------------------
(* The Scene changes: its push is still to come.                           *)
LEMMA SceneChangeStep ==
  ASSUME SceneAssumption, SceneInv,
         RemoveAllObjects \/ \E o \in Objects : AddObject(o) \/ RemoveObject(o)
  PROVE  SceneInv'
<1> USE DEF SceneInv, SceneAssumption
<1>1. /\ UNCHANGED <<attachVars, lockVars, staged, voxelCache, built, world,
                     failed>>
      /\ service = Idle /\ service'.op = "notify"
      /\ service' = [op |-> service'.op, obj |-> service'.obj]
      /\ service'.obj \in Objects \cup {Nothing}
  BY DEF RemoveAllObjects, AddObject, RemoveObject
<1>2. scene' \in [Objects -> 0..MaxCopies] /\ names' \subseteq Present'
  <2>1. CASE RemoveAllObjects
    BY <2>1 DEF RemoveAllObjects, Empty, Present
  <2>2. ASSUME NEW o \in Objects, AddObject(o)
        PROVE  scene' \in [Objects -> 0..MaxCopies] /\ names' \subseteq Present'
    BY <2>2 DEF AddObject, SceneTypeOK, Present
  <2>3. ASSUME NEW o \in Objects, RemoveObject(o)
        PROVE  scene' \in [Objects -> 0..MaxCopies] /\ names' \subseteq Present'
    BY <2>3 DEF RemoveObject, SceneTypeOK, Present
  <2> QED
    BY <2>1, <2>2, <2>3
<1>3. SceneTypeOK'
  BY <1>1, <1>2 DEF SceneTypeOK, attachVars, lockVars
<1>4. LockOK'
  BY <1>1 DEF LockOK, attachVars, lockVars, Idle
<1>5. SnapshotOK' /\ SolversOK'
  BY <1>1 DEF SnapshotOK, SolversOK, InStep, Collides, Masked, attachVars, lockVars
<1> QED
  BY <1>3, <1>4, <1>5

(* A request moves on and changes neither the Scene nor a solver.          *)
LEMMA RequestStep ==
  ASSUME SceneAssumption, SceneInv,
         \/ \E o \in Objects : AttachFind(o)
         \/ \E on \in BOOLEAN : SetCollisionCache(on)
         \/ AttachFails
  PROVE  SceneInv'
<1> USE DEF SceneInv, SceneAssumption
<1>1. /\ UNCHANGED <<sceneVars, attachVars, lockVars, staged, built, world,
                     failed>>
      /\ voxelCache' \in BOOLEAN
      /\ service.op \in {"idle", "attach"} /\ service.op # "notify"
      /\ service'.op \in {"idle", "attach", "rebuild"}
      /\ service' = [op |-> service'.op, obj |-> service'.obj]
      /\ service'.obj \in Objects \cup {Nothing}
      /\ service'.op = "idle" => service' = Idle
      /\ service'.op = "attach" => service'.obj \in Objects
  BY DEF AttachFind, SetCollisionCache, AttachFails, SceneTypeOK, Idle
<1>2. SceneTypeOK'
  BY <1>1 DEF SceneTypeOK, Present, sceneVars, attachVars, lockVars
<1>3. LockOK'
  BY <1>1 DEF LockOK, attachVars, lockVars
<1>4. SnapshotOK' /\ SolversOK'
  BY <1>1 DEF SnapshotOK, SolversOK, InStep, Collides, Masked, sceneVars, attachVars,
              lockVars
<1> QED
  BY <1>2, <1>3, <1>4

-----------------------------------------------------------------------------
(* A constructed solver has the Scene without the excluded obstacles.      *)
LEMMA ConstructStep ==
  ASSUME SceneAssumption, SceneInv, gpu = Nothing, NEW S \in SUBSET Solvers,
         Construct(S),
         UNCHANGED <<sceneVars, excluded, attached, lockVars, staged,
                     voxelCache, failed>>,
         \/ service.op = "rebuild" /\ service' = Idle
         \/ service' = service
  PROVE  SceneInv'
<1> USE DEF SceneInv, SceneAssumption, Idle
<1>1. /\ scene' = scene /\ names' = names /\ excluded' = excluded
      /\ attached' = attached /\ gpu' = gpu /\ snapshot' = snapshot
      /\ staged' = staged /\ voxelCache' = voxelCache /\ failed' = failed
  BY DEF sceneVars, lockVars
<1>2. /\ built' = built \cup S
      /\ \A s \in Solvers : world'[s] = IF s \in S THEN NewSolver(s) ELSE world[s]
      /\ world' = [s \in Solvers |-> IF s \in S THEN NewSolver(s) ELSE world[s]]
      /\ \/ payload' = payload /\ amDisabled' = amDisabled
         \/ payload' = Nothing /\ amDisabled' = {}
  BY DEF Construct
<1>3. \A s \in Solvers : NewSolver(s) \in Models
  <2>1. /\ PrimitivesOnly.copies \in [Objects -> 0..MaxCopies]
        /\ PrimitivesOnly.voxel = 0
    BY DEF PrimitivesOnly, SceneTypeOK
  <2> QED
    BY <2>1 DEF NewSolver, ConstructedWith, CollisionWorld, Models, SceneTypeOK
<1>4. world' \in [Solvers -> Models]
  BY <1>2, <1>3 DEF SceneTypeOK
<1>5. SceneTypeOK'
  BY <1>1, <1>2, <1>4 DEF SceneTypeOK, Present
<1>6. LockOK'
  BY <1>1, <1>2 DEF LockOK
<1>7. SnapshotOK'
  BY <1>1 DEF SnapshotOK
<1>8. ASSUME NEW s \in Solvers, s = "retarget" => excluded = {},
             NEW o \in Objects
      PROVE  o \notin NewSolver(s).off /\ NewSolver(s).copies[o] = Masked(scene, o)
  BY <1>8 DEF NewSolver, ConstructedWith, CollisionWorld, PrimitivesOnly, Masked
<1>9. /\ \A s \in Solvers : NewSolver(s).voxel \in {0, staged}
      /\ excluded \subseteq Objects
  BY DEF NewSolver, ConstructedWith, CollisionWorld, PrimitivesOnly, SceneTypeOK
<1>10. SolversOK'
  <2> SUFFICES ASSUME gpu' = Nothing, ~failed', NEW s \in built'
               PROVE  /\ s = "retarget" => (excluded' = {} => InStep(s)')
                      /\ s # "retarget" => InStep(s)'
                      /\ world'[s].voxel \in {0, staged'}
    BY DEF SolversOK
  <2>1. s \in Solvers
    BY <1>2 DEF SceneTypeOK
  <2>2. CASE s \in S
    <3>1. world'[s] = NewSolver(s)
      BY <1>2, <2>1, <2>2
    <3>2. ASSUME s = "retarget" => excluded = {} PROVE InStep(s)'
      BY <1>1, <1>8, <1>9, <2>1, <3>1, <3>2 DEF InStep, Collides, Masked
    <3> QED
      BY <1>1, <1>9, <2>1, <3>1, <3>2
  <2>3. CASE s \notin S
    BY <1>1, <1>2, <2>1, <2>3 DEF SolversOK, InStep, Collides, Masked
  <2> QED
    BY <2>2, <2>3
<1> QED
  BY <1>5, <1>6, <1>7, <1>10

(* A solver that could not be built is missing, and the planner's payload  *)
(* with it.                                                                *)
LEMMA LostStep ==
  ASSUME SceneAssumption, SceneInv, NEW x \in Solvers, Lose(x),
         UNCHANGED <<sceneVars, excluded, attached, lockVars, staged,
                     voxelCache, failed>>,
         \/ UNCHANGED <<payload, amDisabled>>
         \/ payload' = Nothing /\ amDisabled' = {},
         \/ service.op = "rebuild" /\ service' = Idle
         \/ service' = service
  PROVE  SceneInv'
<1> USE DEF SceneInv, Idle, SceneAssumption
<1>1. /\ UNCHANGED <<scene, names, excluded, staged, voxelCache>>
      /\ UNCHANGED <<attached, gpu, snapshot, failed>>
      /\ built' = built \ {x} /\ world' = [world EXCEPT ![x] = NoSolver]
  BY DEF sceneVars, lockVars, Lose
<1>2. NoSolver \in Models
  BY DEF NoSolver, Empty, Models
<1>3. /\ world' \in [Solvers -> Models]
      /\ \A s \in built' : world'[s] = world[s]
  BY <1>1, <1>2 DEF SceneTypeOK
<1>4. SceneTypeOK'
  BY <1>1, <1>3 DEF SceneTypeOK, Present
<1>5. LockOK'
  BY <1>1 DEF LockOK
<1>6. SnapshotOK'
  BY <1>1 DEF SnapshotOK, Masked
<1>7. SolversOK'
  BY <1>1, <1>3 DEF SolversOK, InStep, Collides, Masked
<1> QED
  BY <1>4, <1>5, <1>6, <1>7

(* A cache change rebuilds the solvers, as far as it gets.                 *)
LEMMA RebuildStep ==
  ASSUME SceneAssumption, SceneInv, RebuildSolvers PROVE SceneInv'
<1>1. CASE \E S \in SUBSET (built \ {"fk"}) : Construct(S)
  <2>1. PICK S \in SUBSET (built \ {"fk"}) : Construct(S)
    BY <1>1
  <2>2. S \in SUBSET Solvers
    BY DEF SceneInv, SceneTypeOK
  <2> QED
    BY <2>1, <2>2, ConstructStep DEF RebuildSolvers
<1>2. CASE MotionWarmupFails
  BY <1>2, LostStep DEF RebuildSolvers, MotionWarmupFails, Solvers
<1> QED
  BY <1>1, <1>2 DEF RebuildSolvers

(* A solver is built on request, or its construction fails.                *)
LEMMA BuildStep ==
  ASSUME SceneAssumption, SceneInv,
         \/ UpdateMotionGenConfig \/ WarmupIK \/ IkRequest \/ GenerateRM
         \/ WarmupFK \/ \E s \in Solvers : WarmupOnDemand(s)
  PROVE  SceneInv'
<1>1. /\ gpu = Nothing /\ UNCHANGED Rest
      /\ \/ \E S \in SUBSET Solvers : Construct(S)
         \/ MotionWarmupFails
         \/ Lose("fk") /\ UNCHANGED <<payload, amDisabled>>
  <2>1. \A s \in Solvers : {s} \in SUBSET Solvers
    OBVIOUS
  <2>2. "motion" \in Solvers /\ "ik" \in Solvers /\ "fk" \in Solvers
    BY DEF Solvers
  <2>3. CASE UpdateMotionGenConfig
    BY <2>1, <2>2, <2>3 DEF UpdateMotionGenConfig, ByService
  <2>4. CASE WarmupIK \/ IkRequest \/ GenerateRM
    BY <2>1, <2>2, <2>4 DEF WarmupIK, IkRequest, GenerateRM, Reinitialize,
                            ByService
  <2>5. CASE WarmupFK
    BY <2>1, <2>2, <2>5 DEF WarmupFK, InitFK, ByService
  <2>6. CASE \E s \in Solvers : WarmupOnDemand(s)
    BY <2>1, <2>6 DEF WarmupOnDemand
  <2> QED
    BY <2>3, <2>4, <2>5, <2>6
<1>2. CASE \E S \in SUBSET Solvers : Construct(S)
  BY <1>1, <1>2, ConstructStep DEF Rest
<1>3. CASE MotionWarmupFails
  BY <1>1, <1>3, LostStep DEF Rest, MotionWarmupFails, Solvers
<1>4. CASE Lose("fk") /\ UNCHANGED <<payload, amDisabled>>
  BY <1>1, <1>4, LostStep DEF Rest, Solvers
<1> QED
  BY <1>1, <1>2, <1>3, <1>4

-----------------------------------------------------------------------------
(* A push begins: with the Scene as it is, and a map that is the last one. *)
LEMMA PushStarts ==
  ASSUME SceneAssumption, SceneInv, NotifyWorldChanged \/ RefreshPerception
  PROVE  SceneInv'
<1> USE DEF SceneInv, SceneAssumption
<1>1. /\ scene' = scene /\ names' = names /\ excluded' = excluded
      /\ attached' = attached /\ payload' = payload
      /\ amDisabled' = amDisabled /\ voxelCache' = voxelCache
      /\ built' = built /\ world' = world /\ failed' = failed
      /\ gpu = Nothing
  BY DEF NotifyWorldChanged, RefreshPerception, sceneVars, attachVars
<1>2. /\ staged' \in 0..MaxScans
      /\ gpu' \in {"service", "planner"}
      /\ snapshot' = [copies |-> snapshot'.copies, voxel |-> snapshot'.voxel]
      /\ snapshot'.copies \in {scene, PrimitivesOnly.copies}
      /\ snapshot'.voxel \in {0, staged'}
      /\ \/ gpu' = "planner" /\ service' = service
         \/ /\ gpu' = "service" /\ service.op = "notify"
            /\ service' = [op |-> "pushing", obj |-> service.obj]
  BY DEF NotifyWorldChanged, RefreshPerception, StartPush, SolverBound,
         CollisionWorld, PrimitivesOnly, SceneTypeOK
<1>3. PrimitivesOnly.copies \in [Objects -> 0..MaxCopies]
  BY DEF PrimitivesOnly, SceneTypeOK
<1>4. SceneTypeOK'
  BY <1>1, <1>2, <1>3 DEF SceneTypeOK, Present
<1>5. LockOK'
  BY <1>1, <1>2 DEF LockOK, SceneTypeOK
<1>6. SnapshotOK'
  BY <1>1, <1>2 DEF SnapshotOK, Masked, PrimitivesOnly
<1>7. SolversOK'
  BY <1>1, <1>2 DEF SolversOK
<1> QED
  BY <1>4, <1>5, <1>6, <1>7

(* Attach: the object is excluded and its push begins.                     *)
LEMMA AttachStep ==
  ASSUME SceneAssumption, SceneInv, AttachFit
  PROVE  SceneInv'
<1> USE DEF SceneInv, SceneAssumption
<1> DEFINE o == service.obj
<1>1. /\ scene' = scene /\ names' = names /\ voxelCache' = voxelCache
      /\ built' = built /\ failed' = failed
      /\ service.op = "attach" /\ gpu = Nothing /\ gpu' = "service"
      /\ payload' = o /\ attached' = o /\ excluded' = excluded \cup {o}
      /\ service' = [op |-> "pushing", obj |-> o]
      /\ o \in Objects
  BY DEF AttachFit, sceneVars, SceneTypeOK, LockOK
<1>2. /\ staged' \in 0..MaxScans
      /\ snapshot' = [copies |-> snapshot'.copies, voxel |-> snapshot'.voxel]
      /\ snapshot'.voxel \in {0, staged'}
      /\ snapshot'.copies = scene
         \/ snapshot'.copies = [p \in Objects |->
                                  IF p \in excluded' THEN 0 ELSE scene[p]]
  BY DEF AttachFit, ClearedMap, SceneTypeOK
<1>3. snapshot'.copies \in [Objects -> 0..MaxCopies]
  BY <1>2 DEF SceneTypeOK
<1>4. /\ world' \in [Solvers -> Models]
      /\ amDisabled' \subseteq Objects
  <2>1. AttachFit => Disable(o)
    BY DEF AttachFit
  <2>2. CASE world' = world /\ amDisabled' = amDisabled
    BY <2>2 DEF SceneTypeOK
  <2>3. CASE /\ world' = [world EXCEPT !["motion"].off = @ \cup {o}]
             /\ amDisabled' = {o}
    <3>1. "motion" \in Solvers
      BY DEF Solvers
    <3> DEFINE m == world["motion"]
               new == [m EXCEPT !.off = m.off \cup {o}]
    <3>2. new \in Models
      <4>1. m \in Models /\ m.off \cup {o} \in SUBSET Objects
        BY <1>1, <3>1, SolverFields DEF SceneTypeOK
      <4> HIDE DEF m
      <4> QED
        BY <4>1, OffChanged
    <3>3. world' = [world EXCEPT !["motion"] = new]
      BY <2>3
    <3>4. world' \in [Solvers -> Models]
      <4> HIDE DEF new, m
      <4> QED
        BY <3>1, <3>2, <3>3 DEF SceneTypeOK
    <3>5. amDisabled' \subseteq Objects
      BY <1>1, <2>3
    <3> QED
      BY <3>4, <3>5
  <2> QED
    BY <2>1, <2>2, <2>3 DEF Disable
<1>5. SceneTypeOK'
  BY <1>1, <1>2, <1>3, <1>4 DEF SceneTypeOK, Present
<1>6. LockOK'
  BY <1>1 DEF LockOK
<1>7. SnapshotOK'
  BY <1>1, <1>2 DEF SnapshotOK, Masked
<1>8. SolversOK'
  BY <1>1 DEF SolversOK
<1> QED
  BY <1>5, <1>6, <1>7, <1>8

(* Detach: the object is included again; with nothing attached, nothing    *)
(* was disabled either.                                                    *)
LEMMA DetachStep ==
  ASSUME SceneAssumption, SceneInv, Detach
  PROVE  SceneInv'
<1> USE DEF SceneInv, SceneAssumption
<1>1. /\ scene' = scene /\ names' = names /\ voxelCache' = voxelCache
      /\ built' = built /\ failed' = failed /\ staged' = staged
      /\ attached' = attached /\ payload' = Nothing /\ amDisabled' = {}
      /\ service = Idle /\ gpu = Nothing
      /\ excluded' = excluded \ {attached}
      /\ world' = [world EXCEPT !["motion"].off = @ \ amDisabled]
  BY DEF Detach, sceneVars
<1>2. "motion" \in Solvers
  BY DEF Solvers
<1> DEFINE m == world["motion"]
           new == [m EXCEPT !.off = m.off \ amDisabled]
<1>3. world' = [world EXCEPT !["motion"] = new]
  BY <1>1
<1>4. world' \in [Solvers -> Models]
  <2>1. new \in Models
    <3>1. m \in Models /\ m.off \ amDisabled \in SUBSET Objects
      BY <1>2, SolverFields DEF SceneTypeOK
    <3> HIDE DEF m
    <3> QED
      BY <3>1, OffChanged
  <2> HIDE DEF new
  <2> QED
    BY <1>3, <2>1 DEF SceneTypeOK
<1>5. CASE attached = Nothing
  <2>1. service' = service /\ gpu' = gpu /\ snapshot' = snapshot
    BY <1>5 DEF Detach, lockVars
  <2>2. amDisabled = {} /\ excluded' = excluded
    BY <1>1, <1>5 DEF LockOK, SceneTypeOK
  <2>3. world' = world
    <3>1. new = world["motion"]
      <4>1. m \in Models
        BY <1>2 DEF SceneTypeOK
      <4>2. new = m
        <5> HIDE DEF m
        <5> QED
          BY <2>2, <4>1, OffSame
      <4> QED
        BY <4>2
    <3> HIDE DEF new
    <3> QED
      BY <1>3, <3>1 DEF SceneTypeOK
  <2>4. SceneTypeOK'
    BY <1>1, <1>4, <2>1, <2>2 DEF SceneTypeOK, Present
  <2>5. LockOK'
    BY <1>1, <1>5, <2>1, <2>2 DEF LockOK
  <2>6. SnapshotOK' /\ SolversOK'
    BY <1>1, <2>1, <2>2, <2>3 DEF SnapshotOK, SolversOK, InStep, Collides, Masked
  <2> QED
    BY <2>4, <2>5, <2>6
<1>6. CASE attached # Nothing
  <2>1. /\ gpu' = "service"
        /\ service' = [op |-> "detach", obj |-> attached]
        /\ snapshot' = [copies |-> snapshot'.copies,
                        voxel |-> snapshot'.voxel]
        /\ snapshot'.voxel \in {0, staged}
        /\ snapshot'.copies = scene
           \/ snapshot'.copies = [p \in Objects |->
                                    IF p \in excluded' THEN 0 ELSE scene[p]]
    BY <1>6 DEF Detach, CollisionWorld
  <2>2. snapshot'.copies \in [Objects -> 0..MaxCopies]
    BY <2>1 DEF SceneTypeOK
  <2>3. SceneTypeOK'
    BY <1>1, <1>4, <2>1, <2>2 DEF SceneTypeOK, Present
  <2>4. LockOK'
    BY <1>1, <2>1 DEF LockOK
  <2>5. SnapshotOK'
    BY <1>1, <2>1 DEF SnapshotOK, Masked
  <2>6. SolversOK'
    BY <2>1 DEF SolversOK
  <2> QED
    BY <2>3, <2>4, <2>5, <2>6
<1> QED
  BY <1>5, <1>6

-----------------------------------------------------------------------------
(* A push ends: unless it raised, every solver was reached, and what each  *)
(* was given is the Scene, with the excluded obstacles disabled.           *)
LEMMA PushEnds ==
  ASSUME SceneAssumption, SceneInv, FinishPush
  PROVE  SceneInv'
<1> USE DEF SceneInv, SceneAssumption
<1>1. /\ scene' = scene /\ names' = names /\ excluded' = excluded
      /\ payload' = payload /\ amDisabled' = amDisabled
      /\ staged' = staged /\ voxelCache' = voxelCache /\ built' = built
      /\ gpu # Nothing /\ gpu' = Nothing /\ snapshot' = NoSnapshot
      /\ failed' \in BOOLEAN
      /\ failed' = \E s \in Solvers : Raises(s)
      /\ \/ gpu = "service" /\ service' = Idle
         \/ gpu = "planner" /\ service' = service
      /\ \/ attached' = attached
         \/ attached' = Nothing /\ service.op = "detach"
  BY DEF FinishPush, sceneVars, SceneTypeOK
<1>2. ASSUME NEW s \in Solvers
      PROVE  /\ Given(s).copies \in [Objects -> 0..MaxCopies]
             /\ Given(s).voxel \in 0..MaxScans
             /\ Given(s).voxel \in {0, staged}
             /\ service.op # "notify" =>
                  \A o \in Objects : Masked(Given(s).copies, o) = Masked(scene, o)
  BY <1>1 DEF Given, CollisionWorld, SceneTypeOK, SnapshotOK
<1>3. ASSUME NEW s \in Solvers
      PROVE  /\ Loaded(s, Given(s)) \in Models
             /\ Loaded(s, Given(s)).copies = Given(s).copies
             /\ Loaded(s, Given(s)).voxel = Given(s).voxel
  <2>1. world[s] \in Models
    BY DEF SceneTypeOK
  <2> QED
    BY <1>2, <2>1, LoadedModel
<1>4. ASSUME NEW s \in Solvers
      PROVE  /\ Reapply(Loaded(s, Given(s))) \in Models
             /\ Reapply(Loaded(s, Given(s))).copies = Given(s).copies
             /\ Reapply(Loaded(s, Given(s))).voxel = Given(s).voxel
             /\ Reapply(Loaded(s, Given(s))).off =
                  {o \in excluded : Given(s).copies[o] > 0}
  <2>1. excluded \in SUBSET Objects
    BY DEF SceneTypeOK
  <2> QED
    BY <1>3, <2>1, ReapplyModel
<1>5. world' = [s \in Solvers |->
         IF ~Reached(s) THEN world[s]
         ELSE IF failed' THEN Loaded(s, Given(s))
         ELSE Reapply(Loaded(s, Given(s)))]
  BY DEF FinishPush
<1>6. world' \in [Solvers -> Models]
  <2>1. ASSUME NEW s \in Solvers PROVE world'[s] \in Models
    <3>1. world[s] \in Models
      BY DEF SceneTypeOK
    <3> QED
      BY <1>3, <1>4, <1>5, <3>1
  <2> QED
    BY <1>5, <2>1
<1>7. SceneTypeOK'
  <2>1. snapshot' \in [copies : [Objects -> 0..MaxCopies], voxel : 0..MaxScans]
    BY <1>1 DEF NoSnapshot, Empty
  <2>2. payload' \in {attached', Nothing}
    BY <1>1 DEF SceneTypeOK, LockOK
  <2> QED
    BY <1>1, <1>6, <2>1, <2>2 DEF SceneTypeOK, Present, Idle
<1>8. LockOK'
  BY <1>1 DEF LockOK, Idle, SceneTypeOK
<1>9. SnapshotOK'
  BY <1>1 DEF SnapshotOK
<1>10. SolversOK'
  <2> SUFFICES ASSUME ~failed', NEW s \in built
               PROVE  InStep(s)' /\ world'[s].voxel \in {0, staged'}
    BY <1>1 DEF SolversOK
  <2>1. s \in Solvers /\ excluded \subseteq Objects
    BY DEF SceneTypeOK
  <2>2. Reached(s)
    BY <1>1, <2>1 DEF Reached
  <2>3. world'[s] = Reapply(Loaded(s, Given(s)))
    BY <1>5, <2>1, <2>2
  <2>4. /\ world'[s].copies = Given(s).copies
        /\ world'[s].off = {o \in excluded : Given(s).copies[o] > 0}
        /\ world'[s].voxel = Given(s).voxel
    BY <1>4, <2>1, <2>3
  <2>5. ASSUME NEW o \in Objects
        PROVE  Collides(s, o)' = Masked(Given(s).copies, o)
    <3>1. Given(s).copies[o] \in Nat
      BY <1>2, <2>1
    <3> QED
      BY <2>4, <3>1 DEF Collides, Masked
  <2>6. service'.op # "notify" => service.op # "notify"
    BY <1>1 DEF LockOK
  <2> QED
    BY <1>1, <1>2, <2>1, <2>4, <2>5, <2>6 DEF InStep, Masked
<1> QED
  BY <1>7, <1>8, <1>9, <1>10

-----------------------------------------------------------------------------
LEMMA SceneStep ==
  ASSUME SceneAssumption, SceneInv, [Next]_vars PROVE SceneInv'
<1>1. CASE RebuildSolvers
  BY <1>1, RebuildStep
<1>2. CASE \/ UpdateMotionGenConfig \/ WarmupIK \/ IkRequest \/ GenerateRM
          \/ WarmupFK \/ \E s \in Solvers : WarmupOnDemand(s)
  BY <1>2, BuildStep
<1>3. CASE UNCHANGED vars
  <2>1. /\ UNCHANGED <<scene, names, excluded, staged, voxelCache, built,
                       world, attached, payload, amDisabled>>
        /\ UNCHANGED <<gpu, snapshot, service, failed>>
    BY <1>3 DEF vars, sceneVars, attachVars, lockVars
  <2>2. SceneTypeOK'
    BY <2>1 DEF SceneInv, SceneTypeOK, Present
  <2> QED
    BY <2>1, <2>2 DEF SceneInv, LockOK, SnapshotOK, SolversOK, InStep, Collides, Masked
<1> QED
  BY <1>1, <1>2, <1>3, SceneChangeStep, RequestStep, PushStarts, AttachStep,
     DetachStep, PushEnds DEF Next

LEMMA SceneInvariant == Spec => []SceneInv
<1>1. Init => SceneInv
  BY SceneAssumption, SceneInit
<1>2. SceneInv /\ [Next]_vars => SceneInv'
  BY SceneAssumption, SceneStep
<1> QED
  BY <1>1, <1>2, PTL DEF Spec

(* The state stays well typed; a registered name is in the Scene, and only *)
(* the attached object is ever carried.                                    *)
THEOREM SceneTyped == Spec => []SceneTypeOK
<1>1. SceneInv => SceneTypeOK
  BY DEF SceneInv
<1> QED
  BY <1>1, SceneInvariant, PTL

(* No change of the Scene is lost to a push that read it before: between   *)
(* requests, and unless a push raised, every solver there is collides with *)
(* exactly the Scene without the excluded obstacles.                       *)
THEOREM SolversInSync == Spec => []WorldInSync
<1>1. SceneInv => WorldInSync
  <2> SUFFICES ASSUME SceneInv, service = Idle, gpu = Nothing, ~failed,
                      NEW s \in Exact
               PROVE  Effective(s) = PrimitivesOnly.copies
    BY DEF WorldInSync
  <2>1. \A o \in Objects : Collides(s, o) = Masked(scene, o)
    BY DEF SceneInv, SolversOK, InStep, Exact, Idle
  <2> QED
    BY <2>1 DEF Effective, PrimitivesOnly, Collides, Masked
<1> QED
  BY <1>1, SceneInvariant, PTL

(* Whoever takes gpu_lock finds the carried object inert in every solver.  *)
THEOREM CarriedIsInert == Spec => []PayloadIsInert
<1>1. SceneInv => PayloadIsInert
  <2> SUFFICES ASSUME SceneInv, gpu = Nothing, payload # Nothing
               PROVE  /\ ~failed =>
                           /\ \A s \in Exact : Effective(s)[payload] = 0
                           /\ Validated[payload] = 0
                      /\ payload \notin VoxelGrid
    BY DEF PayloadIsInert
  <2>1. payload \in excluded /\ excluded \subseteq Objects
    BY DEF SceneInv, LockOK, SceneTypeOK
  <2>2. payload \notin VoxelGrid
    BY <2>1 DEF VoxelGrid, Rasterized, PrimitivesOnly
  <2>3. ASSUME ~failed, NEW s \in Exact PROVE Effective(s)[payload] = 0
    <3>1. Collides(s, payload) = 0
      BY <2>1, <2>3 DEF SceneInv, SolversOK, InStep, Exact
    <3> QED
      BY <2>1, <3>1 DEF Effective, Collides
  <2>4. ASSUME ~failed PROVE Validated[payload] = 0
    BY <2>1, <2>3, <2>4 DEF Validated, Exact, Empty
  <2> QED
    BY <2>2, <2>3, <2>4
<1> QED
  BY <1>1, SceneInvariant, PTL

(* A cleared camera map survives in no solver.                             *)
THEOREM MapIsCurrent == Spec => []NoOutdatedMap
<1>1. SceneInv => NoOutdatedMap
  BY DEF SceneInv, SolversOK, NoOutdatedMap
<1> QED
  BY <1>1, SceneInvariant, PTL
=============================================================================
