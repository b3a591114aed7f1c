-------------------------- MODULE MoveItMirrorProofs ------------------------
(***************************************************************************)
(* Proofs about MoveItMirror, for any sets of groups, objects and shapes.  *)
(* Whatever number of calls fail, what a client skips as unchanged is on   *)
(* the server; while none fails and one client is at work, a plan sees all *)
(* of the scene that a request can carry, the mirror back does no more     *)
(* than convert it, and what the server holds is what the client says.     *)
(***************************************************************************)
EXTENDS MoveItMirror, SequenceTheorems, TLAPS

(* The form of the state the proof depends on.                             *)
LateForm(r) ==
  /\ r = Request(r.op, r.name, r.shape)
  /\ r.op \in {"add", "remove"} =>
       r.name \in Names /\ r.shape \in Shapes \cup {Nothing}

SolveForm ==
  /\ solve = [step |-> solve.step, group |-> solve.group, seen |-> solve.seen,
              todo |-> solve.todo, made |-> solve.made, keeps |-> solve.keeps]
  /\ solve.step \in Phases /\ solve.group \in Groups
  /\ solve.seen.world \in [Names -> Seq(Shapes)]
  /\ solve.made \in [Names -> SUBSET Names]
  /\ At("prune") => solve.todo \subseteq Names
  /\ At("mirror") => solve.todo \subseteq Items(solve.seen)

ServedForm ==
  /\ server \in [Names -> Shapes \cup {Nothing}]
  /\ known \in [Groups -> [Names -> Supported \cup {Nothing}]]

FormOK ==
  /\ ServedForm
  /\ world \in [Names -> Seq(Shapes)]
  /\ groups \in [Groups -> [Names -> SUBSET Names]]
  /\ \A r \in late : LateForm(r)
  /\ solve = Idle \/ SolveForm

(* An object's own name is known to one client at most, and to none while  *)
(* its removal is still under way: the server refuses to add it again.     *)
Removal(r, o) == r.op = "remove" /\ r.name = Plain(o)

OwnersOK ==
  /\ \A g, h \in Groups, o \in Objects :
       known[g][Plain(o)] # Nothing /\ known[h][Plain(o)] # Nothing => g = h
  /\ \A r \in late, o \in Objects : Removal(r, o) =>
       /\ r.shape = Nothing
       /\ server[Plain(o)] # Nothing
       /\ \A g \in Groups : known[g][Plain(o)] = Nothing

(* Only the object itself is mirrored under its own name.  A client lists  *)
(* what it knows, save during a sync, which lists anew what it has dealt   *)
(* with; what it will remove it still knows.                               *)
Listing == solve.step \in {"prune", "mirror"}

Mine(g) == Listing /\ solve.group = g
Made(o) == Plain(o) \in solve.made[Plain(o)]

ListsOK ==
  /\ \A g \in Groups, b \in Names, o \in Objects :
       Plain(o) \in groups[g][b] =>
         b = Plain(o) /\ (known[g][Plain(o)] # Nothing \/ Mine(g))
  /\ Listing => \A b \in Names, o \in Objects :
       Plain(o) \in solve.made[b] =>
         b = Plain(o) /\ known[solve.group][Plain(o)] # Nothing
  /\ At("prune") => \A o \in Objects :
       /\ Plain(o) \in solve.todo => known[solve.group][Plain(o)] # Nothing /\ ~Made(o)
       /\ Made(o) => Plain(o) \in Bodies(solve.seen)
  /\ At("mirror") => \A o \in Objects, i \in 1..MaxShapes :
       <<Plain(o), i>> \in solve.todo => ~Made(o)

MirrorInv == FormOK /\ KnownIsServed /\ OwnersOK /\ ListsOK
-----------------------------------------------------------------------------
LEMMA PlainIsName == MirrorAssumption => \A o \in Objects : Plain(o) \in Names
BY DEF MirrorAssumption, Plain, Names

(* An object's own name is the name of its shape when it has only one.     *)
LEMMA PlainMember ==
  ASSUME NEW b \in Names, NEW i \in 1..MaxShapes, NEW n, NEW o \in Objects,
         MirrorAssumption, Member(b, i, n) = Plain(o)
  PROVE  b = Plain(o) /\ n = 1
BY DEF Names, Member, Plain, MirrorAssumption

-----------------------------------------------------------------------------
(* The services, whatever becomes of a call.                               *)
Served == KnownIsServed /\ OwnersOK

LEMMA OtherCallServed ==
  ASSUME Served, NEW r, NEW ok, Call(r, ok), r.op \in {"attach", "detach"},
         known' = known
  PROVE  Served'
<1>1. r.op # "remove" /\ r.op # "add"
  OBVIOUS
<1>2. server' = server /\ (late' = late \/ late' = late \cup {r})
  BY <1>1 DEF Call, Execute, serverVars
<1> QED
  BY <1>1, <1>2 DEF Served, KnownIsServed, OwnersOK, Removal

LEMMA RemoveServed ==
  ASSUME MirrorAssumption, Served, ServedForm, NEW m \in Names, NEW ok \in BOOLEAN,
         solve.group \in Groups,
         \A o \in Objects : m = Plain(o) => known[solve.group][m] # Nothing,
         RemoveMember(m, ok)
  PROVE  Served' /\ \A n \in Names \ {m} : \A g \in Groups : known'[g][n] = known[g][n]
<1> DEFINE g0 == solve.group
<1>0. /\ known' = [known EXCEPT ![g0][m] = Nothing]
      /\ \A o \in Objects : Plain(o) \in Names
  BY PlainIsName DEF RemoveMember, Forgets
<1>1. \A g \in Groups, n \in Names :
        known'[g][n] = IF g = g0 /\ n = m THEN Nothing ELSE known[g][n]
  BY <1>0 DEF ServedForm
<1>2. CASE server' = [server EXCEPT ![m] = Nothing] /\ late' = late
  BY <1>0, <1>1, <1>2 DEF Served, ServedForm, KnownIsServed, OwnersOK, Removal
<1>3. CASE server' = server /\ late' \in {late, late \cup {Request("remove", m, Nothing)}}
  <2>1. \A o \in Objects : m = Plain(o) =>
          /\ server[m] # Nothing
          /\ \A g \in Groups : known'[g][m] = Nothing
    BY <1>0, <1>1 DEF Served, KnownIsServed, OwnersOK
  <2> QED
    BY <1>0, <1>1, <1>3, <2>1 DEF Served, ServedForm, KnownIsServed, OwnersOK, Removal, Request
<1>4. \/ Execute(Request("remove", m, Nothing)) /\ late' = late
      \/ server' = server /\ late' \in {late, late \cup {Request("remove", m, Nothing)}}
  BY DEF RemoveMember, Call, serverVars
<1>5. \/ server' = server
      \/ server' = [server EXCEPT ![m] = Nothing]
  BY <1>4 DEF Execute, Request
<1> QED
  BY <1>1, <1>2, <1>3, <1>4, <1>5

LEMMA AddServed ==
  ASSUME MirrorAssumption, Served, ServedForm, NEW m \in Names, NEW ok \in BOOLEAN,
         NEW g0 \in Groups, NEW s \in Shapes, known[g0][m] = Nothing,
         Call(Request("add", m, s), ok), Remembers(g0, m, s, ok)
  PROVE  /\ Served'
         /\ \A n \in Names \ {m} : \A g \in Groups : known'[g][n] = known[g][n]
         /\ ok => known'[g0][m] = s
         /\ ~ok => known' = known
<1>0. \A o \in Objects : Plain(o) \in Names
  BY PlainIsName
<1>1. CASE ok
  <2>1. /\ server[m] = Nothing /\ server' = [server EXCEPT ![m] = s]
        /\ late' = late /\ known' = [known EXCEPT ![g0][m] = s]
    BY <1>1 DEF Call, Execute, Granted, Request, Remembers, serverVars
  <2>2. \A g \in Groups, n \in Names :
          known'[g][n] = IF g = g0 /\ n = m THEN s ELSE known[g][n]
    BY <2>1 DEF ServedForm
  <2>3. Served'
    BY <1>0, <2>1, <2>2 DEF Served, ServedForm, KnownIsServed, OwnersOK, Removal
  <2> QED
    BY <1>1, <2>2, <2>3
<1>2. CASE ~ok
  <2>1. /\ known' = known /\ server' = server
        /\ late' = late \/ late' = late \cup {Request("add", m, s)}
    BY <1>2 DEF Call, Execute, Granted, Request, Remembers, serverVars
  <2> QED
    BY <1>2, <2>1 DEF Served, KnownIsServed, OwnersOK, Removal, Request
<1> QED
  BY <1>1, <1>2

LEMMA LateServed ==
  ASSUME MirrorAssumption, Served, ServedForm, \A q \in late : LateForm(q),
         NEW r \in late, LateRequest(r)
  PROVE  Served'
<1>0. /\ \A o \in Objects : Plain(o) \in Names
      /\ known' = known /\ late' = late \ {r}
  BY PlainIsName DEF LateRequest, clientVars
<1>1. CASE r.op = "add" /\ server[r.name] = Nothing
  <2>1. server' = [server EXCEPT ![r.name] = r.shape]
    BY <1>1 DEF LateRequest, Execute, Granted
  <2> QED
    BY <1>0, <1>1, <2>1 DEF Served, ServedForm, KnownIsServed, OwnersOK, Removal
<1>2. CASE r.op = "remove" /\ server[r.name] # Nothing
  <2>1. server' = [server EXCEPT ![r.name] = r.shape]
    BY <1>2 DEF LateRequest, Execute, Granted
  <2>2. \A q \in late', o \in Objects : Removal(q, o) => r.name # Plain(o)
    BY <1>0, <1>2 DEF Served, OwnersOK, Removal, Request, LateForm
  <2> QED
    BY <1>0, <1>2, <2>1, <2>2 DEF Served, ServedForm, KnownIsServed, OwnersOK, Removal
<1>3. CASE server' = server
  BY <1>0, <1>3 DEF Served, KnownIsServed, OwnersOK, Removal
<1> QED
  BY <1>1, <1>2, <1>3 DEF LateRequest, Execute, Granted

LEMMA SameServed ==
  ASSUME Served, UNCHANGED <<server, late, known>>
  PROVE  Served'
BY DEF Served, KnownIsServed, OwnersOK, Removal

-----------------------------------------------------------------------------
(* The form of the state.                                                  *)
LEMMA ShapeListsAreSeqs == MirrorAssumption => ShapeLists \subseteq Seq(Shapes)
BY SeqDef DEF ShapeLists, MirrorAssumption

LEMMA ItemForm ==
  ASSUME MirrorAssumption, SolveForm, At("mirror"), NEW item \in solve.todo
  PROVE  /\ item[1] \in Names /\ item[2] \in 1..MaxShapes
         /\ item = <<item[1], item[2]>>
         /\ item[2] <= Len(solve.seen.world[item[1]])
         /\ item[1] \notin Bodies(solve.seen)
         /\ MemberOf(solve.seen, item) \in Names
         /\ ShapeOf(solve.seen, item) \in Shapes
<1>1. item \in Items(solve.seen)
  BY DEF SolveForm
<1>2. /\ item[1] \in Names /\ item[2] \in 1..MaxShapes
      /\ item = <<item[1], item[2]>>
      /\ item[2] <= Len(solve.seen.world[item[1]])
      /\ item[1] \notin Bodies(solve.seen)
  BY <1>1 DEF Items, InWorld
<1>3. solve.seen.world[item[1]] \in Seq(Shapes)
  BY <1>2 DEF SolveForm
<1>4. ShapeOf(solve.seen, item) \in Shapes
  BY <1>2, <1>3 DEF ShapeOf, MirrorAssumption
<1>5. MemberOf(solve.seen, item) \in Names
  BY <1>2 DEF MemberOf, Member, Names, MirrorAssumption
<1> QED
  BY <1>2, <1>4, <1>5

(* Steps of the sync that are done with an item, or begin another list.    *)
LEMMA SolveFormKept ==
  ASSUME SolveForm, NEW step \in Phases, NEW todo, NEW keeps,
         NEW made \in [Names -> SUBSET Names],
         step = "prune" => todo \subseteq Names,
         step = "mirror" => todo \subseteq Items(solve.seen),
         solve' = [step |-> step, group |-> solve.group, seen |-> solve.seen,
                   todo |-> todo, made |-> made, keeps |-> keeps]
  PROVE  SolveForm'
<1>1. /\ solve'.step = step /\ solve'.group = solve.group
      /\ solve'.seen = solve.seen /\ solve'.todo = todo
      /\ solve'.made = made /\ solve'.keeps = keeps
  OBVIOUS
<1>2. Items(solve'.seen) = Items(solve.seen)
  BY <1>1
<1> QED
  BY <1>1, <1>2 DEF SolveForm, At

LEMMA CallForm ==
  ASSUME ServedForm, \A q \in late : LateForm(q), NEW op, NEW name, NEW shape, NEW ok,
         Call(Request(op, name, shape), ok),
         op \in {"add", "remove"} => name \in Names /\ shape \in Shapes \cup {Nothing}
  PROVE  server' \in [Names -> Shapes \cup {Nothing}] /\ \A q \in late' : LateForm(q)
<1>1. LateForm(Request(op, name, shape))
  BY DEF LateForm, Request
<1>2. server' \in {server, [server EXCEPT ![name] = shape]}
  BY DEF Call, Execute, Request, serverVars
<1>3. server' # server => op \in {"add", "remove"}
  BY DEF Call, Execute, Request, serverVars
<1>4. late' \subseteq late \cup {Request(op, name, shape)}
  BY DEF Call
<1> QED
  BY <1>1, <1>2, <1>3, <1>4 DEF ServedForm

LEMMA NotIdle == SolveForm => solve # Idle /\ solve.step # "idle"
BY DEF SolveForm, Idle, Phases

LEMMA FormStep ==
  ASSUME MirrorAssumption, FormOK, [Next]_vars
  PROVE  FormOK'
<1> USE DEF FormOK
<1>1. CASE User
  <2>1. \E b \in Names, s \in Seq(Shapes) : world' = [world EXCEPT ![b] = s]
    <3>1. <<>> \in Seq(Shapes) /\ \A s \in Shapes : <<s>> \in Seq(Shapes)
      OBVIOUS
    <3>2. CASE \E o \in Objects, s \in ShapeLists : PutObject(o, s)
      BY <3>2, ShapeListsAreSeqs, PlainIsName DEF PutObject
    <3>3. CASE \E b \in Names : DeleteObject(b)
      BY <3>1, <3>3 DEF DeleteObject
    <3>4. CASE \E o \in Carriable : PickUp(o) \/ \E s \in ShapeLists : PutDown(o, s)
      BY <3>1, <3>4, ShapeListsAreSeqs, PlainIsName DEF PickUp, PutDown, MirrorAssumption
    <3> QED
      BY <1>1, <3>2, <3>3, <3>4 DEF User
  <2>2. UNCHANGED <<callVars, clientVars, solve>>
    BY <1>1 DEF User, PutObject, DeleteObject, PickUp, PutDown
  <2>3. world' \in [Names -> Seq(Shapes)]
    BY <2>1
  <2> QED
    BY <2>2, <2>3 DEF callVars, clientVars, serverVars, ServedForm, SolveForm, At
<1>2. ASSUME NEW r \in late, LateRequest(r)
      PROVE  FormOK'
  <2>1. server' \in {server, [server EXCEPT ![r.name] = r.shape]}
    BY <1>2 DEF LateRequest, Execute
  <2>2. server' # server => r.op \in {"add", "remove"}
    BY <1>2 DEF LateRequest, Execute
  <2>3. ServedForm'
    BY <1>2, <2>1, <2>2 DEF LateRequest, ServedForm, LateForm, clientVars
  <2> QED
    BY <1>2, <2>3 DEF LateRequest, moveItVars, clientVars, SolveForm, At
<1>3. ASSUME NEW g \in Groups, Solve(g)
      PROVE  FormOK'
  <2> DEFINE seen == [world |-> world, carried |-> carried]
             todo == UNION {groups[g][b] : b \in Names \ Wanted(seen)}
             made == [b \in Names |-> IF b \in Bodies(seen) THEN groups[g][b] ELSE {}]
             keeps == attached[g] \cap Bodies(seen)
  <2>1. solve' = [step |-> "prune", group |-> g, seen |-> seen, todo |-> todo,
                  made |-> made, keeps |-> keeps]
    BY <1>3 DEF Solve
  <2>2. todo \subseteq Names /\ made \in [Names -> SUBSET Names]
    OBVIOUS
  <2>3. SolveForm'
    <3> HIDE DEF todo, made, keeps
    <3> QED
      BY <2>1, <2>2 DEF SolveForm, At, Phases
  <2> QED
    BY <1>3, <2>3 DEF Solve, callVars, serverVars, clientVars, ServedForm
<1>4. CASE Sync
  <2> SUFFICES ASSUME SolveForm PROVE FormOK'
    <3>1. solve.step # "idle"
      BY <1>4 DEF Sync, Prune, Pruned, Mirror, Mirrored, AttachBody, AttachedAll,
         DetachBody, DetachedAll, GetObstacles, MirrorBack, Plan, At, Done
    <3> QED
      BY <3>1 DEF Idle
  <2> USE DEF Phases
  <2>1. CASE Prune
    <3> PICK m \in solve.todo, ok \in BOOLEAN : RemoveMember(m, ok) /\ solve' = Less(m)
      BY <2>1 DEF Prune
    <3>1. m \in Names /\ At("prune")
      BY <2>1 DEF Prune, SolveForm
    <3>2. server' \in [Names -> Shapes \cup {Nothing}] /\ \A q \in late' : LateForm(q)
      BY <3>1, CallForm DEF RemoveMember
    <3>3. SolveForm'
      <4>1. solve' = [step |-> "prune", group |-> solve.group, seen |-> solve.seen,
                       todo |-> solve.todo \ {m},
                       made |-> solve.made, keeps |-> solve.keeps]
        BY <3>1 DEF Less, SolveForm, At
      <4> QED
        BY <3>1, <4>1, SolveFormKept DEF SolveForm
    <3>4. ServedForm'
      BY <3>1, <3>2 DEF ServedForm, RemoveMember, Forgets
    <3> QED
      BY <2>1, <3>2, <3>3, <3>4 DEF Prune, moveItVars
  <2>2. CASE Pruned
    <3>1. solve' = [step |-> "mirror", group |-> solve.group, seen |-> solve.seen,
                     todo |-> Items(solve.seen),
                     made |-> solve.made, keeps |-> solve.keeps]
      BY <2>2 DEF Pruned, Enter, SolveForm
    <3>2. SolveForm'
      BY <3>1, SolveFormKept DEF SolveForm
    <3> QED
      BY <2>2, <3>2 DEF Pruned, moveItVars, callVars, serverVars, clientVars, ServedForm
  <2>3. CASE Mirror
    <3> PICK item \in solve.todo, ok \in BOOLEAN : MirrorOne(item, ok)
      BY <2>3 DEF Mirror
    <3> DEFINE g == solve.group
               m == MemberOf(solve.seen, item)
               s == ShapeOf(solve.seen, item)
    <3>1. /\ At("mirror") /\ m \in Names /\ s \in Shapes /\ g \in Groups
          /\ item[1] \in Names
      BY <2>3, ItemForm DEF Mirror, SolveForm
    <3>2. ServedForm' /\ \A q \in late' : LateForm(q)
      <4>1. CASE UNCHANGED <<callVars, known>>
        BY <4>1 DEF callVars, serverVars, ServedForm
      <4>2. CASE RemoveMember(m, ok)
        BY <3>1, <4>2, CallForm DEF RemoveMember, Forgets, ServedForm
      <4>3. CASE s \in Supported /\ Call(Request("add", m, s), ok) /\ Remembers(g, m, s, ok)
        BY <3>1, <4>3, CallForm DEF Remembers, ServedForm
      <4> QED
        BY <4>1, <4>2, <4>3 DEF MirrorOne
    <3>3. solve' \in {solve, Less(item), Joins(item)}
      BY DEF MirrorOne, AfterAdd
    <3>4. SolveForm'
      <4>1. CASE solve' = solve
        BY <4>1 DEF SolveForm, At
      <4>2. CASE solve' = Less(item)
        <5>1. solve' = [step |-> "mirror", group |-> solve.group, seen |-> solve.seen,
                         todo |-> solve.todo \ {item},
                         made |-> solve.made, keeps |-> solve.keeps]
          BY <3>1, <4>2 DEF Less, SolveForm, At
        <5> QED
          BY <3>1, <5>1, SolveFormKept DEF SolveForm
      <4>3. CASE solve' = Joins(item)
        <5> DEFINE made == [solve.made EXCEPT ![item[1]] = @ \cup {m}]
        <5>1. solve' = [step |-> "mirror", group |-> solve.group, seen |-> solve.seen,
                         todo |-> solve.todo \ {item},
                         made |-> made, keeps |-> solve.keeps]
          BY <3>1, <4>3 DEF Less, Joins, SolveForm, At
        <5>2. made \in [Names -> SUBSET Names]
          BY <3>1 DEF SolveForm
        <5> HIDE DEF made
        <5> QED
          BY <3>1, <5>1, <5>2, SolveFormKept DEF SolveForm
      <4> QED
        BY <3>3, <4>1, <4>2, <4>3
    <3> QED
      BY <2>3, <3>2, <3>4 DEF Mirror, moveItVars
  <2>4. CASE Mirrored
    <3>1. solve' = [step |-> "attach", group |-> solve.group, seen |-> solve.seen,
                     todo |-> Bodies(solve.seen) \ attached[solve.group],
                     made |-> solve.made, keeps |-> solve.keeps]
      BY <2>4 DEF Mirrored, Enter, SolveForm
    <3>2. SolveForm'
      BY <3>1, SolveFormKept DEF SolveForm
    <3>3. groups' \in [Groups -> [Names -> SUBSET Names]]
      BY <2>4 DEF Mirrored, SolveForm
    <3> QED
      BY <2>4, <3>2, <3>3 DEF Mirrored, moveItVars, callVars, serverVars, ServedForm
  <2>5. CASE AttachBody
    <3>0. PICK b \in solve.todo, ok \in BOOLEAN :
          /\ Call(Request("attach", b, Nothing), ok)
          /\ solve' = [Less(b) EXCEPT !.keeps = IF ok THEN @ \cup {b} ELSE @]
      BY <2>5 DEF AttachBody
    <3> DEFINE keeps == IF ok THEN solve.keeps \cup {b} ELSE solve.keeps
    <3>1. At("attach")
      BY <2>5 DEF AttachBody
    <3>2. solve' = [step |-> "attach", group |-> solve.group, seen |-> solve.seen,
                     todo |-> solve.todo \ {b},
                     made |-> solve.made, keeps |-> keeps]
      BY <3>0, <3>1 DEF Less, SolveForm, At
    <3>3. SolveForm'
      <4> HIDE DEF keeps
      <4> QED
        BY <3>2, SolveFormKept DEF SolveForm
    <3>4. server' \in [Names -> Shapes \cup {Nothing}] /\ \A q \in late' : LateForm(q)
      BY <3>0, CallForm
    <3> QED
      BY <2>5, <3>3, <3>4 DEF AttachBody, moveItVars, clientVars, ServedForm
  <2>6. CASE AttachedAll
    <3>1. solve' = [step |-> "detach", group |-> solve.group, seen |-> solve.seen,
                     todo |-> Released,
                     made |-> solve.made, keeps |-> solve.keeps]
      BY <2>6 DEF AttachedAll, Enter, SolveForm
    <3>2. SolveForm'
      BY <3>1, SolveFormKept DEF SolveForm
    <3> QED
      BY <2>6, <3>2 DEF AttachedAll, moveItVars, callVars, serverVars, clientVars, ServedForm
  <2>7. CASE DetachBody
    <3> PICK b \in solve.todo, ok \in BOOLEAN :
          Call(Request("detach", b, Nothing), ok) /\ solve' = Less(b)
      BY <2>7 DEF DetachBody
    <3>1. At("detach")
      BY <2>7 DEF DetachBody
    <3>2. solve' = [step |-> "detach", group |-> solve.group, seen |-> solve.seen,
                     todo |-> solve.todo \ {b},
                     made |-> solve.made, keeps |-> solve.keeps]
      BY <3>1 DEF Less, SolveForm, At
    <3>3. SolveForm'
      BY <3>2, SolveFormKept DEF SolveForm
    <3>4. server' \in [Names -> Shapes \cup {Nothing}] /\ \A q \in late' : LateForm(q)
      BY CallForm
    <3> QED
      BY <2>7, <3>3, <3>4 DEF DetachBody, moveItVars, clientVars, ServedForm
  <2>8. CASE DetachedAll
    <3>1. solve' = [step |-> "list", group |-> solve.group, seen |-> solve.seen,
                     todo |-> {},
                     made |-> solve.made, keeps |-> solve.keeps]
      BY <2>8 DEF DetachedAll, Enter, SolveForm
    <3>2. SolveForm'
      BY <3>1, SolveFormKept DEF SolveForm
    <3> QED
      BY <2>8, <3>2 DEF DetachedAll, moveItVars, callVars, serverVars, clientVars, ServedForm
  <2>9. CASE GetObstacles
    <3> PICK step, todo : step \in {"back", "plan"} /\ solve' = Enter(step, todo)
      BY <2>9 DEF GetObstacles
    <3>1. solve' = [step |-> step, group |-> solve.group, seen |-> solve.seen,
                     todo |-> todo,
                     made |-> solve.made, keeps |-> solve.keeps]
      BY DEF Enter, SolveForm
    <3>2. SolveForm'
      BY <3>1, SolveFormKept DEF SolveForm
    <3>3. server' = server /\ late' = late
      BY <2>9 DEF GetObstacles, callVars, serverVars
    <3> QED
      BY <2>9, <3>2, <3>3 DEF GetObstacles, moveItVars, clientVars, ServedForm
  <2>10. CASE MirrorBack
    <3>1. solve' = [step |-> "plan", group |-> solve.group, seen |-> solve.seen,
                     todo |-> {},
                     made |-> solve.made, keeps |-> solve.keeps]
      BY <2>10 DEF MirrorBack, Enter, SolveForm
    <3>2. SolveForm'
      BY <3>1, SolveFormKept DEF SolveForm
    <3>3. solve.group \in Groups
      BY DEF SolveForm
    <3>4. world' \in [Names -> Seq(Shapes)]
      <4> DEFINE kept == {m \in solve.todo : known[solve.group][m] # Nothing}
      <4>1. PICK back \in [kept -> Shapes] :
              world' = [b \in Names |-> IF b \in kept THEN <<back[b]>>
                                        ELSE IF b \in Gone THEN <<>> ELSE world[b]]
        BY <2>10 DEF MirrorBack
      <4>2. ASSUME NEW b \in Names, b \in kept PROVE <<back[b]>> \in Seq(Shapes)
        BY <4>2
      <4> HIDE DEF kept
      <4> QED
        BY <4>1, <4>2
    <3> QED
      BY <2>10, <3>2, <3>4 DEF MirrorBack, callVars, serverVars, ServedForm
  <2>11. CASE Plan
    BY <2>11 DEF Plan, moveItVars, callVars, serverVars, clientVars, ServedForm
  <2> QED
    BY <1>4, <2>1, <2>2, <2>3, <2>4, <2>5, <2>6, <2>7, <2>8, <2>9, <2>10, <2>11 DEF Sync
<1>5. CASE UNCHANGED vars
  BY <1>5 DEF vars, moveItVars, callVars, serverVars, clientVars, ServedForm, SolveForm, At
<1> QED
  BY <1>1, <1>2, <1>3, <1>4, <1>5 DEF Next

-----------------------------------------------------------------------------
(* The lists.                                                              *)
LEMMA ListsAtRest ==
  ASSUME ListsOK, ~Listing, ~Listing', UNCHANGED <<known, groups>>
  PROVE  ListsOK'
BY DEF ListsOK, Listing, Mine, At

LEMMA SolveLists ==
  ASSUME MirrorAssumption, FormOK, ListsOK, NEW g \in Groups, Solve(g)
  PROVE  ListsOK'
<1> DEFINE seen == [world |-> world, carried |-> carried]
           todo == UNION {groups[g][b] : b \in Names \ Wanted(seen)}
           made == [b \in Names |-> IF b \in Bodies(seen) THEN groups[g][b] ELSE {}]
<1>1. /\ solve'.step = "prune" /\ solve'.group = g /\ solve'.seen = seen
      /\ solve'.todo = todo /\ solve'.made = made
      /\ known' = known /\ groups' = groups
  BY DEF Solve, clientVars
<1>2. \A h \in Groups, b \in Names, o \in Objects :
        Plain(o) \in groups[h][b] => b = Plain(o) /\ known[h][Plain(o)] # Nothing
  <2>1. ~Listing
    BY DEF Solve, Listing, Idle
  <2> QED
    BY <2>1 DEF ListsOK, Mine
<1>3. \A o \in Objects : Plain(o) \in Names
  BY PlainIsName
<1>4. \A b \in Names, o \in Objects : Plain(o) \in made[b] =>
        b = Plain(o) /\ known[g][Plain(o)] # Nothing /\ b \in Bodies(seen)
  BY <1>2
<1>5. \A o \in Objects : Plain(o) \in todo =>
        known[g][Plain(o)] # Nothing /\ Plain(o) \notin Bodies(seen)
  BY <1>2 DEF Wanted
<1> HIDE DEF todo, made
<1> QED
  BY <1>1, <1>2, <1>3, <1>4, <1>5 DEF ListsOK, Listing, Mine, Made, At

LEMMA PruneLists ==
  ASSUME MirrorAssumption, FormOK, SolveForm, ListsOK, Prune
  PROVE  ListsOK'
<1>1. PICK m \in solve.todo, ok \in BOOLEAN : RemoveMember(m, ok) /\ solve' = Less(m)
  BY DEF Prune
<1>2. At("prune") /\ m \in Names /\ groups' = groups
  BY <1>1 DEF Prune, SolveForm
<1>3. /\ solve'.step = "prune" /\ solve'.group = solve.group
      /\ solve'.seen = solve.seen /\ solve'.todo = solve.todo \ {m}
      /\ solve'.made = solve.made
  BY <1>1, <1>2 DEF Less, SolveForm, At
<1>4. \A g \in Groups, n \in Names :
        known'[g][n] = IF g = solve.group /\ n = m THEN Nothing ELSE known[g][n]
  BY <1>1, <1>2 DEF RemoveMember, Forgets, FormOK, ServedForm
<1>5. /\ solve.group \in Groups /\ solve.made \in [Names -> SUBSET Names]
      /\ \A o \in Objects : Plain(o) \in Names
  BY PlainIsName DEF SolveForm
<1>6. \A o \in Objects : Plain(o) = m => ~Made(o)
  BY <1>1, <1>2 DEF ListsOK
<1> QED
  BY <1>2, <1>3, <1>4, <1>5, <1>6 DEF ListsOK, Listing, Mine, Made, At

LEMMA PrunedLists ==
  ASSUME MirrorAssumption, FormOK, SolveForm, ListsOK, Pruned
  PROVE  ListsOK'
<1>1. /\ solve'.step = "mirror" /\ solve'.group = solve.group
      /\ solve'.made = solve.made /\ solve'.todo = Items(solve.seen)
      /\ known' = known /\ groups' = groups /\ At("prune")
  BY DEF Pruned, Done, Enter, SolveForm, clientVars
<1>2. \A o \in Objects, i \in 1..MaxShapes :
        <<Plain(o), i>> \in Items(solve.seen) => Plain(o) \notin Bodies(solve.seen)
  BY DEF Items
<1> QED
  BY <1>1, <1>2 DEF ListsOK, Listing, Mine, Made, At

LEMMA MirroredLists ==
  ASSUME FormOK, SolveForm, ListsOK, Mirrored
  PROVE  ListsOK'
<1>1. /\ solve'.step = "attach" /\ At("mirror") /\ known' = known
      /\ groups' = [groups EXCEPT ![solve.group] = solve.made]
  BY DEF Mirrored, Done, Enter, SolveForm
<1>2. \A g \in Groups, b \in Names :
        groups'[g][b] = IF g = solve.group THEN solve.made[b] ELSE groups[g][b]
  BY <1>1 DEF FormOK, SolveForm
<1> QED
  BY <1>1, <1>2 DEF ListsOK, Listing, Mine, Made, At

(* The member of an item, when it is an object's own name.                 *)
LEMMA OwnItem ==
  ASSUME MirrorAssumption, SolveForm, At("mirror"), NEW item \in solve.todo,
         NEW o \in Objects, MemberOf(solve.seen, item) = Plain(o)
  PROVE  item = <<Plain(o), 1>> /\ \A i \in 1..MaxShapes :
           <<Plain(o), i>> \in solve.todo => i = 1
<1> DEFINE n == Len(solve.seen.world[item[1]])
<1>1. /\ item[1] \in Names /\ item[2] \in 1..MaxShapes /\ item[2] <= n
      /\ item = <<item[1], item[2]>>
  BY ItemForm
<1>2. Member(item[1], item[2], n) = Plain(o)
  BY DEF MemberOf
<1>3. item[1] = Plain(o) /\ n = 1
  <2> HIDE DEF n
  <2> QED
    BY <1>1, <1>2, PlainMember
<1>4. item = <<Plain(o), 1>>
  BY <1>1, <1>3 DEF MirrorAssumption
<1>5. ASSUME NEW i \in 1..MaxShapes, <<Plain(o), i>> \in solve.todo
      PROVE  i = 1
  <2>1. i <= Len(solve.seen.world[Plain(o)])
    <3>1. \A x \in solve.todo : x[2] <= Len(solve.seen.world[x[1]])
      BY ItemForm
    <3> QED
      BY <1>5, <3>1
  <2> QED
    BY <1>3, <2>1 DEF MirrorAssumption
<1> QED
  BY <1>4, <1>5

LEMMA MirrorLists ==
  ASSUME MirrorAssumption, FormOK, SolveForm, ListsOK, Mirror
  PROVE  ListsOK'
<1>1. PICK item \in solve.todo, ok \in BOOLEAN : MirrorOne(item, ok)
  BY DEF Mirror
<1> DEFINE g == solve.group
           m == MemberOf(solve.seen, item)
           s == ShapeOf(solve.seen, item)
<1>2. /\ At("mirror") /\ m \in Names /\ s \in Shapes /\ g \in Groups
      /\ item[1] \in Names /\ groups' = groups
  BY ItemForm DEF Mirror, SolveForm
<1>3. \A o \in Objects : m = Plain(o) =>
        /\ item = <<Plain(o), 1>> /\ ~Made(o)
        /\ \A i \in 1..MaxShapes : <<Plain(o), i>> \in solve.todo \ {item} => FALSE
  <2> SUFFICES ASSUME NEW o \in Objects, m = Plain(o)
               PROVE  /\ item = <<Plain(o), 1>> /\ ~Made(o)
                      /\ \A i \in 1..MaxShapes : <<Plain(o), i>> \notin solve.todo \ {item}
    OBVIOUS
  <2>1. item = <<Plain(o), 1>> /\ \A i \in 1..MaxShapes :
           <<Plain(o), i>> \in solve.todo => i = 1
    BY <1>2, OwnItem
  <2> QED
    BY <1>2, <2>1 DEF ListsOK, MirrorAssumption
<1>4. /\ solve.made \in [Names -> SUBSET Names]
      /\ \A o \in Objects : Plain(o) \in Names
  BY PlainIsName DEF SolveForm
<1>5. ASSUME solve' = Joins(item), known'[g][m] # Nothing,
             \A h \in Groups, n \in Names : known[h][n] # Nothing => known'[h][n] # Nothing
      PROVE  ListsOK'
  <2>1. /\ solve'.step = "mirror" /\ solve'.group = g
        /\ solve'.todo = solve.todo \ {item}
        /\ solve'.made = [solve.made EXCEPT ![item[1]] = @ \cup {m}]
    BY <1>2, <1>5 DEF Joins, Less, SolveForm, At
  <2>2. \A b \in Names : \A n : n \in solve'.made[b] =>
          n \in solve.made[b] \/ (b = item[1] /\ n = m)
    BY <1>2, <1>4, <2>1
  <2> QED
    BY <1>2, <1>3, <1>4, <1>5, <2>1, <2>2 DEF ListsOK, Listing, Mine, Made, At
<1>6. ASSUME solve' \in {solve, Less(item)},
             \A h \in Groups, n \in Names : known[h][n] # Nothing =>
               known'[h][n] # Nothing \/ (h = g /\ n = m)
      PROVE  ListsOK'
  <2>1. /\ solve'.step = "mirror" /\ solve'.group = g
        /\ solve'.todo \subseteq solve.todo /\ solve'.made = solve.made
    BY <1>2, <1>6 DEF Less, SolveForm, At
  <2> QED
    BY <1>2, <1>3, <1>4, <1>6, <2>1 DEF ListsOK, Listing, Mine, Made, At
<1>7. CASE ok /\ Unchanged(g, m, s) /\ solve' = Joins(item) /\ known' = known
  BY <1>2, <1>5, <1>7 DEF Unchanged, MirrorAssumption
<1>8. CASE RemoveMember(m, ok) /\ solve' = solve
  BY <1>2, <1>6, <1>8 DEF RemoveMember, Forgets, FormOK, ServedForm
<1>10. CASE solve' = Less(item) /\ known' = known
  BY <1>2, <1>6, <1>10
<1>9. CASE Remembers(g, m, s, ok) /\ solve' = AfterAdd(item, ok)
  <2>1. CASE ok
    BY <1>2, <1>5, <1>9, <2>1
       DEF Remembers, AfterAdd, FormOK, ServedForm, MirrorAssumption
  <2>2. CASE ~ok
    BY <1>2, <1>6, <1>9, <2>2 DEF Remembers, AfterAdd
  <2> QED
    BY <2>1, <2>2
<1> QED
  BY <1>1, <1>7, <1>8, <1>9, <1>10 DEF MirrorOne

LEMMA StepNotIdle ==
  ASSUME FormOK, Sync
  PROVE  SolveForm
<1>1. solve.step # "idle"
  BY DEF Sync, Prune, Pruned, Mirror, Mirrored, AttachBody, AttachedAll,
     DetachBody, DetachedAll, GetObstacles, MirrorBack, Plan, At, Done
<1> QED
  BY <1>1 DEF FormOK, Idle

LEMMA ListsStep ==
  ASSUME MirrorAssumption, FormOK, ListsOK, [Next]_vars
  PROVE  ListsOK'
<1>1. ASSUME UNCHANGED <<known, groups, solve>>
      PROVE  ListsOK'
  BY <1>1 DEF ListsOK, Listing, Mine, Made, At
<1>2. CASE User
  BY <1>1, <1>2 DEF User, PutObject, DeleteObject, PickUp, PutDown, clientVars
<1>3. CASE \E r \in late : LateRequest(r)
  BY <1>1, <1>3 DEF LateRequest, clientVars
<1>4. CASE \E g \in Groups : Solve(g)
  BY <1>4, SolveLists
<1>5. CASE Prune \/ Pruned \/ Mirror \/ Mirrored
  BY <1>5, StepNotIdle, PruneLists, PrunedLists, MirrorLists, MirroredLists
     DEF Sync
<1>6. CASE AttachBody \/ AttachedAll \/ DetachBody \/ DetachedAll
           \/ GetObstacles \/ MirrorBack \/ Plan
  <2>1. SolveForm
    BY <1>6, StepNotIdle DEF Sync
  <2>2. ~Listing /\ UNCHANGED <<known, groups>>
    BY <1>6 DEF Listing, AttachBody, AttachedAll, DetachBody, DetachedAll,
       GetObstacles, MirrorBack, Plan, At, Done, clientVars
  <2>3. solve'.step \notin {"prune", "mirror"}
    <3>1. CASE AttachBody \/ DetachBody
      BY <2>1, <3>1 DEF AttachBody, DetachBody, Less, At, SolveForm
    <3>2. CASE AttachedAll \/ DetachedAll \/ GetObstacles \/ MirrorBack
      BY <2>1, <3>2 DEF AttachedAll, DetachedAll, GetObstacles, MirrorBack,
         Enter, SolveForm
    <3>3. CASE Plan
      BY <3>3 DEF Plan, Idle
    <3> QED
      BY <1>6, <3>1, <3>2, <3>3
  <2> QED
    BY <2>2, <2>3, ListsAtRest DEF Listing
<1>7. CASE UNCHANGED vars
  BY <1>1, <1>7 DEF vars, clientVars
<1> QED
  BY <1>2, <1>3, <1>4, <1>5, <1>6, <1>7 DEF Next, Sync

-----------------------------------------------------------------------------
(* The server.                                                             *)
LEMMA ServedStep ==
  ASSUME MirrorAssumption, FormOK, ListsOK, Served, [Next]_vars
  PROVE  Served'
<1> USE DEF FormOK
<1>1. CASE User \/ UNCHANGED vars \/ \E g \in Groups : Solve(g)
  BY <1>1, SameServed DEF User, PutObject, DeleteObject, PickUp, PutDown, Solve,
     vars, callVars, serverVars, clientVars
<1>2. CASE \E r \in late : LateRequest(r)
  BY <1>2, LateServed
<1>3. CASE Prune
  <2>1. PICK m \in solve.todo, ok \in BOOLEAN : RemoveMember(m, ok)
    BY <1>3 DEF Prune
  <2>2. SolveForm /\ At("prune")
    BY <1>3, StepNotIdle DEF Sync, Prune
  <2>3. /\ m \in Names /\ solve.group \in Groups
        /\ \A o \in Objects : m = Plain(o) => known[solve.group][m] # Nothing
    BY <2>1, <2>2 DEF SolveForm, ListsOK
  <2> QED
    BY <2>1, <2>3, RemoveServed
<1>4. CASE Mirror
  <2>1. PICK item \in solve.todo, ok \in BOOLEAN : MirrorOne(item, ok)
    BY <1>4 DEF Mirror
  <2>2. SolveForm /\ At("mirror")
    BY <1>4, StepNotIdle DEF Sync, Mirror
  <2> DEFINE g == solve.group
             m == MemberOf(solve.seen, item)
             s == ShapeOf(solve.seen, item)
  <2>3. m \in Names /\ s \in Shapes /\ g \in Groups
    BY <2>2, ItemForm DEF SolveForm
  <2>4. CASE UNCHANGED <<callVars, known>>
    BY <2>4, SameServed DEF callVars, serverVars
  <2>5. CASE known[g][m] # Nothing /\ RemoveMember(m, ok)
    BY <2>3, <2>5, RemoveServed
  <2>6. CASE /\ known[g][m] = Nothing /\ Call(Request("add", m, s), ok)
             /\ Remembers(g, m, s, ok)
    BY <2>3, <2>6, AddServed
  <2> QED
    BY <2>1, <2>4, <2>5, <2>6 DEF MirrorOne
<1>5. CASE AttachBody \/ DetachBody
  <2>1. PICK r, ok : Call(r, ok) /\ r.op \in {"attach", "detach"} /\ known' = known
    <3>1. \A b : /\ Request("attach", b, Nothing).op \in {"attach", "detach"}
                 /\ Request("detach", b, Nothing).op \in {"attach", "detach"}
      BY DEF Request
    <3> QED
      BY <1>5, <3>1 DEF AttachBody, DetachBody, clientVars
  <2> QED
    BY <2>1, OtherCallServed
<1>6. CASE \/ Pruned \/ Mirrored \/ AttachedAll \/ DetachedAll
           \/ GetObstacles \/ MirrorBack \/ Plan
  BY <1>6, SameServed DEF Pruned, Mirrored, AttachedAll, DetachedAll,
     GetObstacles, MirrorBack, Plan, callVars, serverVars, clientVars
<1> QED
  BY <1>1, <1>2, <1>3, <1>4, <1>5, <1>6 DEF Next, Sync

(* What a client would skip as unchanged is on the server with that very   *)
(* shape and pose: for every number of groups, objects and shapes, and of  *)
(* calls that are lost, answered late or executed late.                    *)
THEOREM SkippedIsServed == Spec => []KnownIsServed
<1>1. Init => MirrorInv
  BY MirrorAssumption, PlainIsName
     DEF Init, MirrorInv, FormOK, ServedForm, KnownIsServed, OwnersOK, ListsOK,
         Listing, Idle, At, MirrorAssumption
<1>2. MirrorInv /\ [Next]_vars => MirrorInv'
  BY MirrorAssumption, FormStep, ServedStep, ListsStep DEF MirrorInv, Served
<1>3. MirrorInv => KnownIsServed
  BY DEF MirrorInv
<1> QED
  BY <1>1, <1>2, <1>3, PTL DEF Spec

-----------------------------------------------------------------------------
(* The rest of the types: MoveIt's scene, what the server holds, what the  *)
(* clients have attached and mirrored, and the failed calls.               *)
SceneTyped ==
  /\ world \in [Names -> ShapeLists \cup {<<>>}]
  /\ carried \subseteq Carriable /\ mixed \in BOOLEAN /\ several \in BOOLEAN
  /\ mirrored \in [Groups -> SUBSET Names]
  /\ solve # Idle /\ At("back") => solve.todo \subseteq Names

CallsTyped ==
  /\ held \in Names \cup {NoName}
  /\ \A r \in late : r.op = "attach" => r.name \in Names
  /\ faults \in 0..MaxFaults

CarryTyped ==
  /\ attached \in [Groups -> SUBSET CarryNames]
  /\ solve # Idle => /\ solve.seen.carried \subseteq Carriable
                     /\ solve.keeps \subseteq CarryNames
                     /\ At("attach") => solve.todo \subseteq CarryNames

RestTyped == SceneTyped /\ CallsTyped /\ CarryTyped

LEMMA OneShape ==
  ASSUME MirrorAssumption, NEW s \in Shapes
  PROVE  <<s>> \in ShapeLists
<1>1. <<s>> \in [1..1 -> Shapes] /\ 1 \in 1..MaxShapes
  BY DEF MirrorAssumption
<1>2. \A i, j \in DOMAIN <<s>> : i = j
  OBVIOUS
<1> QED
  BY <1>1, <1>2 DEF ShapeLists

LEMMA CarryNamesAreNames == MirrorAssumption => CarryNames \subseteq Names
BY PlainIsName DEF CarryNames, MirrorAssumption

(* A call of the sync, whatever becomes of it.                             *)
LEMMA CallTyped ==
  ASSUME MirrorAssumption, CallsTyped, NEW op, NEW name, NEW shape, NEW ok,
         Call(Request(op, name, shape), ok),
         op = "attach" => name \in Names
  PROVE  CallsTyped'
<1>1. Request(op, name, shape).op = op /\ Request(op, name, shape).name = name
  BY DEF Request
<1>2. held' \in {held, NoName} \/ (op = "attach" /\ held' = name)
  BY <1>1 DEF Call, Execute, serverVars
<1>3. late' \subseteq late \cup {Request(op, name, shape)}
  BY DEF Call
<1>4. faults' \in 0..MaxFaults
  BY DEF Call, CallsTyped, MirrorAssumption
<1> QED
  BY <1>1, <1>2, <1>3, <1>4 DEF CallsTyped

LEMMA SceneTypedStep ==
  ASSUME MirrorAssumption, FormOK, SceneTyped, CarryTyped, [Next]_vars
  PROVE  SceneTyped'
<1>0. \A o \in Objects : Plain(o) \in Names
  BY PlainIsName
<1>1. CASE User
  <2>1. \E b \in Names, s \in ShapeLists \cup {<<>>} : world' = [world EXCEPT ![b] = s]
    BY <1>0, <1>1, OneShape
       DEF User, PutObject, DeleteObject, PickUp, PutDown, MirrorAssumption
  <2>2. carried' \subseteq Carriable /\ UNCHANGED <<mixed, several, mirrored, solve>>
    BY <1>1 DEF SceneTyped, User, PutObject, DeleteObject, PickUp, PutDown, history, clientVars
  <2> QED
    BY <2>1, <2>2 DEF SceneTyped, At
<1>2. CASE \E g \in Groups : Solve(g)
  BY <1>2 DEF SceneTyped, Solve, clientVars, At
<1>3. CASE \E r \in late : LateRequest(r)
  BY <1>3 DEF SceneTyped, LateRequest, moveItVars, history, clientVars, At
<1>4. CASE GetObstacles
  <2>1. SolveForm
    BY <1>4, StepNotIdle DEF Sync
  <2>2. solve'.step = "plan" \/ solve'.todo \subseteq Names
    BY <1>4, <2>1 DEF GetObstacles, Enter, SolveForm
  <2> QED
    BY <1>4, <2>2 DEF SceneTyped, GetObstacles, moveItVars, history, clientVars, At
<1>5. CASE MirrorBack
  <2>1. SolveForm /\ At("back") /\ solve.todo \subseteq Names
    BY <1>5, StepNotIdle, NotIdle DEF Sync, MirrorBack, SceneTyped
  <2> DEFINE g == solve.group
             kept == {m \in solve.todo : known[g][m] # Nothing}
  <2>2. g \in Groups /\ kept \subseteq Names
    BY <2>1 DEF SolveForm
  <2>3. world' \in [Names -> ShapeLists \cup {<<>>}]
    <3>1. PICK back \in [kept -> Shapes] :
            world' = [b \in Names |-> IF b \in kept THEN <<back[b]>>
                                      ELSE IF b \in Gone THEN <<>> ELSE world[b]]
      BY <1>5 DEF MirrorBack
    <3>2. \A m \in kept : <<back[m]>> \in ShapeLists
      BY OneShape
    <3> HIDE DEF kept
    <3> QED
      BY <2>2, <3>1, <3>2 DEF SceneTyped
  <2>4. mirrored' = [mirrored EXCEPT ![g] = kept]
    BY <1>5 DEF MirrorBack
  <2>5. solve'.step = "plan"
    BY <1>5, <2>1 DEF MirrorBack, Enter, SolveForm
  <2> QED
    BY <1>5, <2>2, <2>3, <2>4, <2>5 DEF SceneTyped, MirrorBack, history, At
<1>6. CASE Plan \/ UNCHANGED vars
  BY <1>6 DEF SceneTyped, Plan, vars, moveItVars, history, clientVars, At
<1>7. CASE \/ Prune \/ Pruned \/ Mirror \/ Mirrored \/ AttachBody
           \/ AttachedAll \/ DetachBody \/ DetachedAll
  <2>1. SolveForm
    BY <1>7, StepNotIdle DEF Sync
  <2>2. solve'.step # "back"
    BY <1>7, <2>1 DEF SolveForm, Prune, Pruned, Mirror, MirrorOne, Mirrored,
       AttachBody, AttachedAll, DetachBody, DetachedAll, Enter, Less, Joins,
       AfterAdd, At, Done
  <2>3. UNCHANGED <<world, carried, mixed, several, mirrored>>
    BY <1>7 DEF Prune, Pruned, Mirror, Mirrored, AttachBody, AttachedAll,
       DetachBody, DetachedAll, moveItVars, history, clientVars
  <2> QED
    BY <2>2, <2>3 DEF SceneTyped, At
<1> QED
  BY <1>1, <1>2, <1>3, <1>4, <1>5, <1>6, <1>7 DEF Next, Sync

LEMMA CallsTypedStep ==
  ASSUME MirrorAssumption, FormOK, CallsTyped, CarryTyped, [Next]_vars
  PROVE  CallsTyped'
<1>1. CASE \/ User \/ UNCHANGED vars \/ \E g \in Groups : Solve(g)
           \/ Pruned \/ Mirrored \/ AttachedAll \/ DetachedAll \/ MirrorBack \/ Plan
  <2>1. UNCHANGED <<held, late, faults>>
    BY <1>1 DEF User, PutObject, DeleteObject, PickUp, PutDown, vars, Solve,
       Pruned, Mirrored, AttachedAll, DetachedAll, MirrorBack, Plan, callVars,
       serverVars
  <2> QED
    BY <2>1 DEF CallsTyped
<1>2. CASE \E r \in late : LateRequest(r)
  BY <1>2 DEF LateRequest, Execute, CallsTyped
<1>3. CASE GetObstacles
  BY <1>3 DEF GetObstacles, CallsTyped, callVars, serverVars, MirrorAssumption
<1>4. CASE Prune
  BY <1>4, CallTyped DEF Prune, RemoveMember
<1>5. CASE Mirror
  <2>1. PICK item \in solve.todo, ok \in BOOLEAN : MirrorOne(item, ok)
    BY <1>5 DEF Mirror
  <2>2. \/ UNCHANGED <<held, late, faults>>
        \/ \E m : RemoveMember(m, ok)
        \/ \E m, s : Call(Request("add", m, s), ok)
    BY <2>1 DEF MirrorOne, callVars, serverVars
  <2>3. CASE UNCHANGED <<held, late, faults>>
    BY <2>3 DEF CallsTyped
  <2> QED
    BY <2>2, <2>3, CallTyped DEF RemoveMember
<1>6. CASE AttachBody
  <2>1. PICK b \in solve.todo, ok \in BOOLEAN : Call(Request("attach", b, Nothing), ok)
    BY <1>6 DEF AttachBody
  <2>2. b \in Names
    BY <1>6, <2>1, StepNotIdle, NotIdle, CarryNamesAreNames
       DEF Sync, AttachBody, CarryTyped
  <2> QED
    BY <2>1, <2>2, CallTyped
<1>7. CASE DetachBody
  BY <1>7, CallTyped DEF DetachBody
<1> QED
  BY <1>1, <1>2, <1>3, <1>4, <1>5, <1>6, <1>7 DEF Next, Sync

LEMMA CarryTypedStep ==
  ASSUME MirrorAssumption, FormOK, SceneTyped, CarryTyped, [Next]_vars
  PROVE  CarryTyped'
<1>1. CASE User \/ UNCHANGED vars \/ \E r \in late : LateRequest(r)
  BY <1>1 DEF CarryTyped, User, PutObject, DeleteObject, PickUp, PutDown, vars,
     LateRequest, clientVars, At
<1>2. CASE Plan
  BY <1>2 DEF CarryTyped, Plan, clientVars
<1>3. ASSUME NEW g \in Groups, Solve(g) PROVE CarryTyped'
  <2>1. /\ solve'.step = "prune" /\ solve'.seen.carried = carried
        /\ solve'.keeps \subseteq attached[g] /\ attached' = attached
    BY <1>3 DEF Solve, clientVars
  <2> QED
    BY <2>1 DEF CarryTyped, SceneTyped, At
<1>4. CASE Sync /\ ~Plan
  <2>1. SolveForm /\ solve # Idle
    BY <1>4, StepNotIdle, NotIdle
  <2>2. Bodies(solve.seen) \subseteq CarryNames
    BY <2>1 DEF CarryTyped, Bodies, CarryNames
  <2>3. CASE Mirrored
    <3>1. /\ solve'.seen = solve.seen /\ solve'.keeps = solve.keeps
          /\ solve'.todo \subseteq Bodies(solve.seen) /\ attached' = attached
      BY <2>1, <2>3 DEF Mirrored, Enter, SolveForm
    <3> QED
      BY <2>1, <2>2, <3>1 DEF CarryTyped
  <2>4. CASE AttachBody
    <3>1. PICK b \in solve.todo, ok \in BOOLEAN :
            solve' = [Less(b) EXCEPT !.keeps = IF ok THEN @ \cup {b} ELSE @]
      BY <2>4 DEF AttachBody
    <3>2. /\ solve'.seen = solve.seen /\ solve'.todo \subseteq solve.todo
          /\ solve'.keeps \subseteq solve.keeps \cup {b} /\ b \in CarryNames
      BY <2>1, <2>4, <3>1 DEF Less, SolveForm, AttachBody, CarryTyped
    <3>3. attached' = attached
      BY <2>4 DEF AttachBody, clientVars
    <3> QED
      BY <2>1, <2>4, <3>2, <3>3 DEF CarryTyped, AttachBody
  <2>5. CASE DetachedAll
    <3>1. /\ solve'.seen = solve.seen /\ solve'.keeps = solve.keeps
          /\ solve'.step = "list"
          /\ attached' = [attached EXCEPT ![solve.group] = solve.keeps]
      BY <2>1, <2>5 DEF DetachedAll, Enter, SolveForm
    <3> QED
      BY <2>1, <3>1 DEF CarryTyped, SolveForm, At
  <2>6. CASE \/ Prune \/ Pruned \/ Mirror \/ AttachedAll \/ DetachBody
             \/ GetObstacles \/ MirrorBack
    <3>1. /\ solve'.seen = solve.seen /\ solve'.keeps = solve.keeps
          /\ solve'.step # "attach"
      BY <2>1, <2>6 DEF SolveForm, Prune, Pruned, Mirror, MirrorOne,
         AttachedAll, DetachBody, GetObstacles, MirrorBack, Enter, Less, Joins,
         AfterAdd, At, Done
    <3>2. attached' = attached
      BY <2>6 DEF Prune, Pruned, Mirror, AttachedAll, DetachBody, GetObstacles,
         MirrorBack, clientVars
    <3> QED
      BY <2>1, <3>1, <3>2 DEF CarryTyped, At
  <2> QED
    BY <1>4, <2>3, <2>4, <2>5, <2>6 DEF Sync
<1> QED
  BY <1>1, <1>2, <1>3, <1>4 DEF Next

(* The type invariant: with what the clients remember goes what they list. *)
THEOREM MirrorTyped == Spec => []MirrorTypeOK
<1>1. Init => MirrorInv /\ RestTyped
  <2>1. Init => MirrorInv
    BY MirrorAssumption, PlainIsName
       DEF Init, MirrorInv, FormOK, ServedForm, KnownIsServed, OwnersOK, ListsOK,
           Listing, Idle, At, MirrorAssumption
  <2>2. Init => SceneTyped
    BY DEF Init, SceneTyped
  <2>3. Init => CallsTyped
    BY MirrorAssumption DEF Init, CallsTyped, NoName, MirrorAssumption
  <2>4. Init => CarryTyped
    BY DEF Init, CarryTyped
  <2> QED
    BY <2>1, <2>2, <2>3, <2>4 DEF RestTyped
<1>2. MirrorInv /\ RestTyped /\ [Next]_vars => MirrorInv' /\ RestTyped'
  BY MirrorAssumption, FormStep, ServedStep, ListsStep, SceneTypedStep,
     CallsTypedStep, CarryTypedStep DEF MirrorInv, Served, RestTyped
<1>3. MirrorInv /\ RestTyped => MirrorTypeOK
  <2> SUFFICES ASSUME MirrorInv, RestTyped PROVE MirrorTypeOK
    OBVIOUS
  <2>1. solve.step \in Phases \cup {"idle"}
    BY DEF MirrorInv, FormOK, SolveForm, Idle
  <2>2. solve = Idle => \A g \in Groups, b \in Names, o \in Objects :
          Plain(o) \in groups[g][b] => known[g][Plain(o)] # Nothing
    BY DEF MirrorInv, ListsOK, Mine, Listing, Idle
  <2> QED
    BY <2>1, <2>2 DEF MirrorTypeOK, MirrorInv, FormOK, ServedForm, RestTyped,
       SceneTyped, CallsTyped, CarryTyped
<1> QED
  BY <1>1, <1>2, <1>3, PTL DEF Spec

-----------------------------------------------------------------------------
(* Sound syncs: no call failed, and one group's client alone is at work.   *)
(* What it knows is then what the server has, and it lists each of it.     *)
Silent(g) == attached[g] = {} /\ \A m \in Names : known[g][m] = Nothing
OneClient ==
  /\ \A g, h \in Groups : g = h \/ Silent(g) \/ Silent(h)
  /\ solve # Idle => \A h \in Groups : h = solve.group \/ Silent(h)
Exact ==
  /\ late = {}
  /\ \A g \in Groups, m \in Names : known[g][m] # Nothing => server[m] = known[g][m]
  /\ \A m \in Names : server[m] # Nothing => \E g \in Groups : known[g][m] # Nothing

Listed ==
  ~Listing => \A g \in Groups, m \in Names :
    known[g][m] # Nothing => \E b \in Names : m \in groups[g][b]

(* The sync: what is on the server is of the scene, or of a carried body,  *)
(* save what is still to be removed; what is of the scene, and a request   *)
(* can carry, is there, save what is still to be mirrored.                 *)
ListedBy(b) == IF Listing THEN solve.made[b] ELSE groups[solve.group][b]
Shapely == Mirrorable(solve.seen)
OfScene(m) == \E x \in Shapely : MemberOf(solve.seen, x) = m
OfBody(m) == \E b \in Bodies(solve.seen) : m \in ListedBy(b)
Shown(m) == {ShapeOf(solve.seen, x) : x \in {y \in Shapely : MemberOf(solve.seen, y) = m}}
There(x) == server[MemberOf(solve.seen, x)] \in Shown(MemberOf(solve.seen, x))
Awaited(m) == \E y \in Shapely : y \in solve.todo /\ MemberOf(solve.seen, y) = m
PruneOK ==
  At("prune") =>
    /\ \A b \in Names : solve.made[b] = IF b \in Bodies(solve.seen) THEN groups[solve.group][b] ELSE {}
    /\ \A m \in Names : server[m] # Nothing => m \in solve.todo \/ OfScene(m) \/ OfBody(m)
MirrorOK ==
  At("mirror") =>
    /\ \A x \in Shapely :
         /\ x \in solve.todo \/ MemberOf(solve.seen, x) \in solve.made[x[1]]
         /\ There(x) \/ Awaited(MemberOf(solve.seen, x))
    /\ \A m \in Names : server[m] # Nothing => OfScene(m) \/ OfBody(m)
AfterOK ==
  solve # Idle /\ ~Listing =>
    /\ \A x \in Shapely : There(x)
    /\ \A m \in Names : server[m] # Nothing => OfScene(m) \/ OfBody(m)
    /\ At("back") => solve.todo = {m \in Names : server[m] # Nothing}
Faith == OneClient /\ Exact /\ Listed /\ PruneOK /\ MirrorOK /\ AfterOK
FaithInv == Sound => Faith

(* No call that failed and no mixture of scenes is forgotten.              *)
LEMMA SoundBefore ==
  ASSUME MirrorAssumption, CallsTyped, [Next]_vars, Sound' PROVE Sound /\ faults' = faults
<1>0. faults \in Nat
  BY DEF CallsTyped, MirrorAssumption
<1>1. ASSUME NEW r, NEW ok, Call(r, ok) PROVE faults' \in {faults, faults + 1}
  BY <1>1 DEF Call
<1>2. faults' \in {faults, faults + 1}
  <2>1. CASE Prune \/ Mirror \/ AttachBody \/ DetachBody \/ GetObstacles
    BY <1>1, <2>1 DEF Prune, Mirror, MirrorOne, RemoveMember, AttachBody, DetachBody, GetObstacles,
       callVars
  <2>2. CASE ~(Prune \/ Mirror \/ AttachBody \/ DetachBody \/ GetObstacles)
    BY <2>2 DEF Next, Sync, User, PutObject, DeleteObject, PickUp, PutDown, Solve, LateRequest,
       Pruned, Mirrored, AttachedAll, DetachedAll, MirrorBack, Plan, vars, callVars
  <2> QED
    BY <2>1, <2>2
<1>3. mixed => mixed'
  BY DEF Next, Sync, User, PutObject, DeleteObject, PickUp, PutDown, Solve, LateRequest, Prune,
     Mirror, AttachBody, DetachBody, GetObstacles,
     Pruned, Mirrored, AttachedAll, DetachedAll, MirrorBack, Plan, vars, moveItVars, history
<1> QED
  BY <1>0, <1>2, <1>3 DEF Sound

(* In a sound step every call is answered: granted or refused, never lost. *)
LEMMA SureCall ==
  ASSUME MirrorAssumption, CallsTyped, NEW r, NEW ok, Call(r, ok), faults' = faults
  PROVE  ok = Granted(r) /\ Execute(r) /\ late' = late
BY DEF Call, CallsTyped, MirrorAssumption

LEMMA SureRemove ==
  ASSUME MirrorAssumption, CallsTyped, ServedForm, NEW m \in Names, NEW ok,
         RemoveMember(m, ok), faults' = faults, solve.group \in Groups
  PROVE  /\ late' = late
         /\ \A n \in Names : server'[n] = IF n = m THEN Nothing ELSE server[n]
         /\ \A h \in Groups, n \in Names :
              known'[h][n] = IF h = solve.group /\ n = m THEN Nothing ELSE known[h][n]
<1> DEFINE r == Request("remove", m, Nothing)
<1>1. Execute(r) /\ late' = late
  BY SureCall DEF RemoveMember
<1>2. r.op = "remove" /\ r.name = m /\ r.shape = Nothing
  BY DEF Request
<1>3. server[m] = Nothing => server' = server
  BY <1>1, <1>2 DEF Execute, Granted
<1>4. server[m] # Nothing => server' = [server EXCEPT ![m] = Nothing]
  BY <1>1, <1>2 DEF Execute, Granted
<1>5. known' = [known EXCEPT ![solve.group][m] = Nothing]
  BY DEF RemoveMember, Forgets
<1> QED
  BY <1>1, <1>3, <1>4, <1>5 DEF ServedForm

LEMMA SureAdd ==
  ASSUME MirrorAssumption, CallsTyped, ServedForm, NEW m \in Names, NEW s \in Shapes, NEW ok,
         NEW g \in Groups, server[m] = Nothing,
         Call(Request("add", m, s), ok), Remembers(g, m, s, ok), faults' = faults
  PROVE  /\ ok /\ late' = late
         /\ \A n \in Names : server'[n] = IF n = m THEN s ELSE server[n]
         /\ \A h \in Groups, n \in Names :
              known'[h][n] = IF h = g /\ n = m THEN s ELSE known[h][n]
<1> DEFINE r == Request("add", m, s)
<1>1. ok = Granted(r) /\ Execute(r) /\ late' = late
  BY SureCall
<1>2. r.op = "add" /\ r.name = m /\ r.shape = s
  BY DEF Request
<1>3. Granted(r) /\ server' = [server EXCEPT ![m] = s]
  BY <1>1, <1>2 DEF Granted, Execute
<1>4. known' = [known EXCEPT ![g][m] = s]
  BY <1>1, <1>3 DEF Remembers
<1> QED
  BY <1>1, <1>3, <1>4 DEF ServedForm

(* The scene a sync was handed does not change under it.                   *)
LEMMA SeenSame ==
  ASSUME solve'.seen = solve.seen
  PROVE  /\ Shapely' = Shapely /\ Bodies(solve.seen)' = Bodies(solve.seen)
         /\ \A x : /\ MemberOf(solve.seen, x)' = MemberOf(solve.seen, x)
                   /\ ShapeOf(solve.seen, x)' = ShapeOf(solve.seen, x)
         /\ \A m : OfScene(m)' = OfScene(m) /\ Shown(m)' = Shown(m)
BY DEF OfScene, Shown, Shapely

(* What the forward sync has to mirror, and a request can carry.           *)
LEMMA ShapelyForm ==
  ASSUME MirrorAssumption, NEW x \in Shapely
  PROVE  /\ MemberOf(solve.seen, x) \in Names /\ x[1] \in Names
         /\ x[1] \in InWorld(solve.seen) \ Bodies(solve.seen)
         /\ ShapeOf(solve.seen, x) \in Supported
<1>1. x \in Items(solve.seen) /\ ShapeOf(solve.seen, x) \in Supported
  BY DEF Shapely, Mirrorable
<1>2. /\ x[1] \in InWorld(solve.seen) \ Bodies(solve.seen) /\ x[1] \in Names
      /\ x[2] \in 1..MaxShapes
  BY <1>1 DEF Items, InWorld
<1>3. MemberOf(solve.seen, x) \in Names
  BY <1>2 DEF MemberOf, Member, Names, MirrorAssumption
<1> QED
  BY <1>1, <1>2, <1>3

LEMMA FaithSame ==
  ASSUME Faith, UNCHANGED <<server, late, known, attached, groups, solve>>
  PROVE  Faith'
<1>1. \A g : Silent(g)' <=> Silent(g)
  BY DEF Silent
<1>2. OneClient' /\ Exact' /\ Listed'
  BY <1>1 DEF Faith, OneClient, Exact, Listed, Listing
<1>3. /\ \A m : OfScene(m)' = OfScene(m) /\ OfBody(m)' = OfBody(m)
      /\ \A x : There(x)' = There(x) /\ MemberOf(solve.seen, x)' = MemberOf(solve.seen, x)
      /\ \A m : Awaited(m)' = Awaited(m)
      /\ Shapely' = Shapely /\ Bodies(solve.seen)' = Bodies(solve.seen)
      /\ \A step : At(step)' = At(step)
      /\ Listing' = Listing
  BY SeenSame DEF OfBody, ListedBy, Listing, There, At, Awaited
<1>4. PruneOK'
  BY <1>3 DEF Faith, PruneOK
<1>5. MirrorOK'
  BY <1>3 DEF Faith, MirrorOK
<1>6. AfterOK'
  BY <1>3 DEF Faith, AfterOK
<1> QED
  BY <1>2, <1>4, <1>5, <1>6 DEF Faith

(* A sync begins: all the server has is to be removed, or is wanted.       *)
LEMMA SolveFaith ==
  ASSUME MirrorAssumption, FormOK, SceneTyped, Faith, NEW g \in Groups, Solve(g), ~mixed'
  PROVE  Faith'
<1> DEFINE seen == [world |-> world, carried |-> carried]
           todo == UNION {groups[g][b] : b \in Names \ Wanted(seen)}
           made == [b \in Names |-> IF b \in Bodies(seen) THEN groups[g][b] ELSE {}]
<1>1. /\ solve'.step = "prune" /\ solve'.group = g /\ solve'.seen = seen
      /\ solve'.todo = todo /\ solve'.made = made /\ solve' # Idle
      /\ UNCHANGED <<server, late, known, groups, attached>>
  BY DEF Solve, clientVars, callVars, serverVars, Idle
<1>2. /\ \A b \in InWorld(seen) \ Bodies(seen) : groups[g][b] \subseteq MembersOf(seen, b)
      /\ \A h \in Groups \ {g} : attached[h] = {} /\ \A m \in Names : known[h][m] = Nothing
  BY DEF Solve, SceneTyped
<1>3. solve = Idle /\ ~Listing
  BY DEF Solve, Listing, Idle
<1>4. Bodies(seen) \subseteq Names
  BY PlainIsName DEF Bodies, SceneTyped, MirrorAssumption
<1> HIDE DEF seen, todo, made
<1>5. \A h \in Groups : h # g => Silent(h)
  BY <1>2 DEF Silent
<1>6. OneClient' /\ Exact'
  <2>1. \A h : Silent(h)' <=> Silent(h)
    BY <1>1 DEF Silent
  <2> QED
    BY <1>1, <1>5, <2>1 DEF OneClient, Faith, Exact
<1>7. Listed'
  BY <1>1 DEF Faith, Listed, Listing
<1>8. ASSUME NEW b \in InWorld(seen) \ Bodies(seen), NEW m \in groups[g][b]
      PROVE  OfScene(m)'
  <2>1. m \in MembersOf(seen, b)
    BY <1>2, <1>8
  <2>2. PICK x \in Mirrorable(seen) : MemberOf(seen, x) = m
    BY <2>1 DEF MembersOf
  <2> QED
    BY <1>1, <2>2 DEF OfScene, Shapely
<1>9. ASSUME NEW m \in Names, server[m] # Nothing
      PROVE  m \in todo \/ OfScene(m)' \/ OfBody(m)'
  <2>1. PICK h \in Groups : known[h][m] # Nothing
    BY <1>9 DEF Faith, Exact
  <2>2. h = g
    BY <1>5, <2>1 DEF Silent
  <2>3. PICK b \in Names : m \in groups[g][b]
    BY <1>3, <2>1, <2>2 DEF Faith, Listed
  <2>4. CASE b \in Bodies(seen)
    <3>1. m \in made[b]
      BY <2>3, <2>4 DEF made
    <3> QED
      BY <1>1, <2>4, <3>1 DEF OfBody, ListedBy, Listing
  <2>5. CASE b \in InWorld(seen) \ Bodies(seen)
    BY <1>8, <2>3, <2>5
  <2>6. CASE b \notin Wanted(seen)
    BY <2>3, <2>6 DEF todo
  <2> QED
    BY <2>4, <2>5, <2>6 DEF Wanted
<1>10. PruneOK'
  <2>1. \A b \in Names : made[b] = IF b \in Bodies(seen) THEN groups[g][b] ELSE {}
    BY DEF made
  <2> QED
    BY <1>1, <1>9, <2>1 DEF PruneOK
<1>11. MirrorOK' /\ AfterOK'
  BY <1>1 DEF MirrorOK, AfterOK, Listing, At
<1> QED
  BY <1>6, <1>7, <1>10, <1>11 DEF Faith

(* A name wanted no more goes, from the server and the client alike.       *)
LEMMA PruneFaith ==
  ASSUME MirrorAssumption, FormOK, SolveForm, CallsTyped, Faith, Prune, faults' = faults
  PROVE  Faith'
<1>1. PICK m \in solve.todo, ok \in BOOLEAN : RemoveMember(m, ok) /\ solve' = Less(m)
  BY DEF Prune
<1>2. /\ At("prune") /\ m \in Names /\ UNCHANGED <<groups, attached>> /\ solve.group \in Groups /\ solve # Idle
  BY <1>1, NotIdle DEF Prune, SolveForm
<1>3. /\ solve'.step = "prune" /\ solve'.group = solve.group
      /\ solve'.seen = solve.seen /\ solve'.todo = solve.todo \ {m}
      /\ solve'.made = solve.made /\ solve' # Idle
  BY <1>1, <1>2 DEF Less, SolveForm, At, Idle
<1>4. /\ late' = late
      /\ \A n \in Names : server'[n] = IF n = m THEN Nothing ELSE server[n]
      /\ \A h \in Groups, n \in Names :
           known'[h][n] = IF h = solve.group /\ n = m THEN Nothing ELSE known[h][n]
  BY <1>1, <1>2, SureRemove DEF FormOK
<1>5. \A h \in Groups : Silent(h) => Silent(h)'
  BY <1>2, <1>4 DEF Silent
<1>6. OneClient'
  BY <1>2, <1>3, <1>5 DEF Faith, OneClient
<1>7. Exact'
  <2>1. \A h \in Groups : h = solve.group \/ \A n \in Names : known[h][n] = Nothing
    BY <1>2 DEF Faith, OneClient, Silent
  <2> QED
    BY <1>2, <1>4, <2>1 DEF Faith, Exact
<1>8. Listed'
  BY <1>2, <1>3 DEF Faith, Listed, Listing
<1>9. PruneOK'
  <2>1. /\ \A n : OfScene(n)' = OfScene(n) /\ OfBody(n)' = OfBody(n)
        /\ Bodies(solve.seen)' = Bodies(solve.seen)
    BY <1>2, <1>3, SeenSame DEF OfBody, ListedBy, Listing, At
  <2>2. \A n \in Names : server'[n] # Nothing => n \in solve'.todo \/ OfScene(n)' \/ OfBody(n)'
    BY <1>2, <1>3, <1>4, <2>1 DEF Faith, PruneOK
  <2> QED
    BY <1>2, <1>3, <2>1, <2>2 DEF Faith, PruneOK
<1>10. MirrorOK' /\ AfterOK'
  BY <1>3 DEF MirrorOK, AfterOK, Listing, At
<1> QED
  BY <1>6, <1>7, <1>8, <1>9, <1>10 DEF Faith

(* What is left on the server is of the scene, or of a carried body.       *)
LEMMA PrunedFaith ==
  ASSUME MirrorAssumption, FormOK, SolveForm, Faith, Pruned
  PROVE  Faith'
<1>1. /\ solve'.step = "mirror" /\ solve'.group = solve.group /\ solve'.seen = solve.seen
      /\ solve'.made = solve.made /\ solve'.todo = Items(solve.seen) /\ solve' # Idle
      /\ UNCHANGED <<server, late, known, groups, attached>> /\ At("prune") /\ solve.todo = {} /\ solve # Idle
  BY NotIdle DEF Pruned, Done, Enter, SolveForm, clientVars, callVars, serverVars, Idle
<1>2. OneClient' /\ Exact'
  <2>1. \A h : Silent(h)' <=> Silent(h)
    BY <1>1 DEF Silent
  <2> QED
    BY <1>1, <2>1 DEF OneClient, Faith, Exact
<1>3. Listed'
  BY <1>1 DEF Faith, Listed, Listing
<1>4. MirrorOK'
  <2>1. /\ \A n : OfScene(n)' = OfScene(n) /\ OfBody(n)' = OfBody(n)
        /\ \A x : MemberOf(solve.seen, x)' = MemberOf(solve.seen, x)
        /\ Bodies(solve.seen)' = Bodies(solve.seen) /\ Shapely' = Shapely
    BY <1>1, SeenSame DEF OfBody, ListedBy, Listing, At
  <2>2. \A m \in Names : server[m] # Nothing => OfScene(m) \/ OfBody(m)
    BY <1>1 DEF Faith, PruneOK
  <2>3. \A x \in Shapely : x \in solve'.todo
    BY <1>1 DEF Shapely, Mirrorable
  <2> QED
    BY <1>1, <2>1, <2>2, <2>3 DEF MirrorOK, Awaited
<1>5. PruneOK' /\ AfterOK'
  BY <1>1 DEF PruneOK, AfterOK, Listing, At
<1> QED
  BY <1>2, <1>3, <1>4, <1>5 DEF Faith

(* One shape is dealt with: it was there already, or it was added.         *)
LEMMA JoinsFaith ==
  ASSUME MirrorAssumption, FormOK, SolveForm, Faith, At("mirror"), NEW item \in solve.todo,
         item \in Shapely, solve' = Joins(item), UNCHANGED <<groups, attached, late>>,
         \A n \in Names : server'[n] = IF n = MemberOf(solve.seen, item)
                                       THEN ShapeOf(solve.seen, item) ELSE server[n],
         \A h \in Groups, n \in Names :
           known'[h][n] = IF h = solve.group /\ n = MemberOf(solve.seen, item)
                          THEN ShapeOf(solve.seen, item) ELSE known[h][n]
  PROVE  Faith'
<1> DEFINE g == solve.group
           m == MemberOf(solve.seen, item)
           s == ShapeOf(solve.seen, item)
<1>1. /\ m \in Names /\ s \in Shapes /\ s # Nothing /\ g \in Groups /\ item[1] \in Names
      /\ item[1] \notin Bodies(solve.seen) /\ solve # Idle
      /\ solve.made \in [Names -> SUBSET Names]
  BY ItemForm, NotIdle DEF SolveForm, MirrorAssumption
<1>2. /\ solve'.step = "mirror" /\ solve'.group = g /\ solve'.seen = solve.seen
      /\ solve'.todo = solve.todo \ {item}
      /\ solve'.made = [solve.made EXCEPT ![item[1]] = @ \cup {m}] /\ solve' # Idle
  BY <1>1 DEF Joins, Less, SolveForm, At, Idle
<1>3. /\ \A n \in Names : server'[n] = IF n = m THEN s ELSE server[n]
      /\ \A h \in Groups, n \in Names :
           known'[h][n] = IF h = g /\ n = m THEN s ELSE known[h][n]
  OBVIOUS
<1>4. OneClient'
  <2>1. \A h \in Groups : h # g => Silent(h)
    BY <1>1 DEF Faith, OneClient
  <2>2. \A h \in Groups : h # g => Silent(h)'
    BY <1>3, <2>1 DEF Silent
  <2> QED
    BY <1>1, <1>2, <2>2 DEF OneClient
<1>5. Exact'
  <2>1. \A h \in Groups : h = g \/ \A n \in Names : known[h][n] = Nothing
    BY <1>1 DEF Faith, OneClient, Silent
  <2> HIDE DEF m, s, g
  <2> QED
    BY <1>1, <1>3, <2>1 DEF Faith, Exact
<1>6. Listed'
  BY <1>2 DEF Faith, Listed, Listing
<1>7. \A b \in Names : solve'.made[b] = IF b = item[1] THEN solve.made[b] \cup {m} ELSE solve.made[b]
  BY <1>1, <1>2
<1>8. s \in Shown(m) /\ OfScene(m)
  BY <1>1 DEF Shown, OfScene
<1>9. /\ \A n : OfScene(n)' = OfScene(n) /\ Shown(n)' = Shown(n)
      /\ \A x : MemberOf(solve.seen, x)' = MemberOf(solve.seen, x)
      /\ Bodies(solve.seen)' = Bodies(solve.seen) /\ Shapely' = Shapely
  BY <1>2, SeenSame
<1>10. \A x \in Shapely : MemberOf(solve.seen, x) \in Names /\ x[1] \in Names
  BY ShapelyForm
<1> HIDE DEF m, s, g
<1>11. \A n : OfBody(n) => OfBody(n)'
  <2>1. \A b \in Bodies(solve.seen) : b # item[1]
    BY <1>1
  <2>2. Bodies(solve.seen) \subseteq Names \/ \A b \in Bodies(solve.seen) : solve'.made[b] = solve.made[b]
    BY <1>1, <1>2
  <2>3. \A b \in Bodies(solve.seen) : solve'.made[b] = solve.made[b]
    BY <1>7, <2>1, <2>2
  <2> QED
    BY <1>2, <1>9, <2>3 DEF OfBody, ListedBy, Listing, At
<1>12. MirrorOK'
  <2>1. ASSUME NEW x \in Shapely
        PROVE  x \in solve'.todo \/ MemberOf(solve.seen, x) \in solve'.made[x[1]]
    <3>1. x[1] \in Names
      BY <1>10
    <3>2. CASE x = item
      BY <1>7, <3>1, <3>2 DEF m
    <3>3. CASE x # item
      BY <1>2, <1>7, <3>1, <3>3 DEF Faith, MirrorOK
    <3> QED
      BY <3>2, <3>3
  <2>2. ASSUME NEW x \in Shapely
        PROVE  \/ server'[MemberOf(solve.seen, x)] \in Shown(MemberOf(solve.seen, x))
               \/ \E y \in Shapely : y \in solve'.todo /\ MemberOf(solve.seen, y) = MemberOf(solve.seen, x)
    <3>1. CASE MemberOf(solve.seen, x) = m
      BY <1>1, <1>3, <1>8, <3>1
    <3>2. CASE MemberOf(solve.seen, x) # m
      <4>1. There(x) \/ Awaited(MemberOf(solve.seen, x))
        BY DEF Faith, MirrorOK
      <4>2. server'[MemberOf(solve.seen, x)] = server[MemberOf(solve.seen, x)]
        BY <1>3, <1>10, <3>2
      <4> QED
        BY <1>2, <3>2, <4>1, <4>2 DEF There, Awaited, m
    <3> QED
      BY <3>1, <3>2
  <2>4. ASSUME NEW n \in Names, server'[n] # Nothing PROVE OfScene(n) \/ OfBody(n)'
    <3>1. CASE n = m
      BY <1>8, <3>1
    <3>2. CASE n # m
      BY <1>3, <1>11, <2>4, <3>2 DEF Faith, MirrorOK
    <3> QED
      BY <3>1, <3>2
  <2> QED
    BY <1>9, <2>1, <2>2, <2>4 DEF MirrorOK, There, Awaited
<1>13. PruneOK' /\ AfterOK'
  BY <1>2 DEF PruneOK, AfterOK, Listing, At
<1> QED
  BY <1>4, <1>5, <1>6, <1>12, <1>13 DEF Faith

(* One shape has changed and its old form is removed first.                *)
LEMMA ReplaceFaith ==
  ASSUME MirrorAssumption, FormOK, SolveForm, Faith, At("mirror"), NEW item \in solve.todo,
         item \in Shapely, UNCHANGED <<solve, groups, attached, late>>,
         \A n \in Names : server'[n] = IF n = MemberOf(solve.seen, item) THEN Nothing ELSE server[n],
         \A h \in Groups, n \in Names :
           known'[h][n] = IF h = solve.group /\ n = MemberOf(solve.seen, item)
                          THEN Nothing ELSE known[h][n]
  PROVE  Faith'
<1> DEFINE g == solve.group
           m == MemberOf(solve.seen, item)
<1>1. m \in Names /\ g \in Groups /\ solve # Idle
  BY ItemForm, NotIdle DEF SolveForm
<1>2. /\ \A n \in Names : server'[n] = IF n = m THEN Nothing ELSE server[n]
      /\ \A h \in Groups, n \in Names :
           known'[h][n] = IF h = g /\ n = m THEN Nothing ELSE known[h][n]
  OBVIOUS
<1>3. \A x \in Shapely : MemberOf(solve.seen, x) \in Names
  BY ShapelyForm
<1>4. \A h \in Groups : Silent(h) => Silent(h)'
  BY <1>2 DEF Silent
<1>5. OneClient'
  BY <1>1, <1>4 DEF Faith, OneClient
<1>6. Exact'
  <2>1. \A h \in Groups : h = g \/ \A n \in Names : known[h][n] = Nothing
    BY <1>1 DEF Faith, OneClient, Silent
  <2> QED
    BY <1>1, <1>2, <2>1 DEF Faith, Exact
<1>7. Listed'
  BY DEF Faith, Listed, Listing, At
<1>8. /\ \A n : OfScene(n)' = OfScene(n) /\ Shown(n)' = Shown(n) /\ OfBody(n)' = OfBody(n)
      /\ \A x : MemberOf(solve.seen, x)' = MemberOf(solve.seen, x)
      /\ Bodies(solve.seen)' = Bodies(solve.seen) /\ Shapely' = Shapely
  BY SeenSame DEF OfBody, ListedBy, Listing, At
<1>9. MirrorOK'
  <2>1. ASSUME NEW x \in Shapely
        PROVE  \/ server'[MemberOf(solve.seen, x)] \in Shown(MemberOf(solve.seen, x))
               \/ Awaited(MemberOf(solve.seen, x))
    <3>1. CASE MemberOf(solve.seen, x) = m
      BY <3>1 DEF Awaited
    <3>2. CASE MemberOf(solve.seen, x) # m
      BY <1>2, <1>3, <3>2 DEF Faith, MirrorOK, There
    <3> QED
      BY <3>1, <3>2
  <2>2. \A n \in Names : server'[n] # Nothing => OfScene(n) \/ OfBody(n)
    BY <1>2 DEF Faith, MirrorOK
  <2>3. \A n : Awaited(n)' = Awaited(n)
    BY <1>8 DEF Awaited
  <2> HIDE DEF m, g
  <2> QED
    BY <1>8, <2>1, <2>2, <2>3 DEF Faith, MirrorOK, There
<1>10. PruneOK' /\ AfterOK'
  BY DEF PruneOK, AfterOK, Listing, At
<1> QED
  BY <1>5, <1>6, <1>7, <1>9, <1>10 DEF Faith

(* A shape no request can carry is passed over.                            *)
LEMMA SkipFaith ==
  ASSUME MirrorAssumption, FormOK, SolveForm, Faith, At("mirror"), NEW item \in solve.todo,
         item \notin Shapely, solve' = Less(item),
         UNCHANGED <<server, late, known, groups, attached>>
  PROVE  Faith'
<1>1. /\ solve'.step = "mirror" /\ solve'.group = solve.group /\ solve'.seen = solve.seen
      /\ solve'.todo = solve.todo \ {item} /\ solve'.made = solve.made /\ solve' # Idle
      /\ solve # Idle
  BY NotIdle DEF Less, SolveForm, At, Idle
<1>2. OneClient' /\ Exact'
  <2>1. \A h : Silent(h)' <=> Silent(h)
    BY DEF Silent
  <2> QED
    BY <1>1, <2>1 DEF OneClient, Faith, Exact
<1>3. Listed'
  BY <1>1 DEF Faith, Listed, Listing
<1>4. MirrorOK'
  <2>1. /\ \A n : OfScene(n)' = OfScene(n) /\ Shown(n)' = Shown(n) /\ OfBody(n)' = OfBody(n)
        /\ \A x : MemberOf(solve.seen, x)' = MemberOf(solve.seen, x)
        /\ Shapely' = Shapely
    BY <1>1, SeenSame DEF OfBody, ListedBy, Listing, At
  <2>2. \A x \in Shapely : x \in solve.todo => x \in solve'.todo
    BY <1>1
  <2>3. \A n : Awaited(n) => Awaited(n)'
    BY <2>1, <2>2 DEF Awaited
  <2>4. \A x : There(x)' = There(x)
    BY <2>1 DEF There
  <2> QED
    BY <1>1, <2>1, <2>2, <2>3, <2>4 DEF Faith, MirrorOK
<1>5. PruneOK' /\ AfterOK'
  BY <1>1 DEF PruneOK, AfterOK, Listing, At
<1> QED
  BY <1>2, <1>3, <1>4, <1>5 DEF Faith

(* One shape: there already, passed over, removed to be replaced, or added.*)
LEMMA MirrorFaith ==
  ASSUME MirrorAssumption, FormOK, SolveForm, CallsTyped, Faith, Mirror, faults' = faults
  PROVE  Faith'
<1>1. PICK item \in solve.todo, ok \in BOOLEAN : MirrorOne(item, ok)
  BY DEF Mirror
<1> DEFINE g == solve.group
           m == MemberOf(solve.seen, item)
           s == ShapeOf(solve.seen, item)
<1>2. /\ At("mirror") /\ m \in Names /\ s \in Shapes /\ s # Nothing /\ g \in Groups
      /\ UNCHANGED <<groups, attached>> /\ solve # Idle
  BY ItemForm, NotIdle DEF Mirror, SolveForm, MirrorAssumption
<1>a. item \in Shapely <=> s \in Supported
  BY <1>2 DEF Shapely, Mirrorable, SolveForm
<1>b. known[g][m] = s => s \in Supported
  BY <1>2 DEF FormOK, ServedForm
<1>3. CASE known[g][m] = s /\ solve' = Joins(item) /\ UNCHANGED <<callVars, known>>
  <2>1. server[m] = s /\ UNCHANGED <<server, late, known>>
    BY <1>2, <1>3 DEF Faith, Exact, callVars, serverVars
  <2> QED
    BY <1>2, <1>3, <1>a, <1>b, <2>1, JoinsFaith
<1>6. CASE s \in Unsupported /\ solve' = Less(item) /\ UNCHANGED <<callVars, known>>
  <2>1. item \notin Shapely
    BY <1>6, <1>a DEF Supported
  <2> QED
    BY <1>2, <1>6, <2>1, SkipFaith DEF callVars, serverVars
<1>4. CASE s \in Supported /\ RemoveMember(m, ok) /\ UNCHANGED solve
  <2>1. /\ late' = late
        /\ \A n \in Names : server'[n] = IF n = m THEN Nothing ELSE server[n]
        /\ \A h \in Groups, n \in Names :
             known'[h][n] = IF h = g /\ n = m THEN Nothing ELSE known[h][n]
    BY <1>2, <1>4, SureRemove DEF FormOK
  <2> QED
    BY <1>2, <1>4, <1>a, <2>1, ReplaceFaith
<1>5. CASE /\ s \in Supported /\ known[g][m] = Nothing /\ Call(Request("add", m, s), ok)
           /\ Remembers(g, m, s, ok) /\ solve' = AfterAdd(item, ok)
  <2>1. server[m] = Nothing
    BY <1>2, <1>5 DEF Faith, Exact, OneClient, Silent
  <2>2. /\ ok /\ late' = late
        /\ \A n \in Names : server'[n] = IF n = m THEN s ELSE server[n]
        /\ \A h \in Groups, n \in Names :
             known'[h][n] = IF h = g /\ n = m THEN s ELSE known[h][n]
    <3> HIDE DEF m, s, g
    <3> QED
      BY <1>2, <1>5, <2>1, SureAdd DEF FormOK
  <2>3. solve' = Joins(item)
    BY <1>5, <2>2 DEF AfterAdd
  <2> QED
    BY <1>2, <1>5, <1>a, <2>2, <2>3, JoinsFaith
<1> QED
  BY <1>1, <1>3, <1>4, <1>5, <1>6 DEF MirrorOne, Unchanged

(* All shapes are there, and the client lists what it mirrored.            *)
LEMMA MirroredFaith ==
  ASSUME MirrorAssumption, FormOK, SolveForm, CarryTyped, Faith, Mirrored
  PROVE  Faith'
<1>1. /\ solve'.step = "attach" /\ solve'.group = solve.group /\ solve'.seen = solve.seen
      /\ solve' # Idle /\ solve # Idle /\ At("mirror") /\ solve.todo = {}
      /\ UNCHANGED <<server, late, known, attached>> /\ solve.group \in Groups
      /\ groups' = [groups EXCEPT ![solve.group] = solve.made]
  BY NotIdle DEF Mirrored, Done, Enter, SolveForm, callVars, serverVars, Idle
<1>2. \A h \in Groups, b \in Names :
        groups'[h][b] = IF h = solve.group THEN solve.made[b] ELSE groups[h][b]
  BY <1>1 DEF FormOK
<1>3. OneClient' /\ Exact'
  <2>1. \A h : Silent(h)' <=> Silent(h)
    BY <1>1 DEF Silent
  <2> QED
    BY <1>1, <2>1 DEF OneClient, Faith, Exact
<1>5. ASSUME NEW m \in Names, server[m] # Nothing PROVE \E b \in Names : m \in solve.made[b]
  <2>1. OfScene(m) \/ OfBody(m)
    BY <1>1, <1>5 DEF Faith, MirrorOK
  <2>2. CASE OfScene(m)
    <3>1. PICK x \in Shapely : MemberOf(solve.seen, x) = m
      BY <2>2 DEF OfScene
    <3>2. m \in solve.made[x[1]] /\ x[1] \in Names
      BY <1>1, <3>1, ShapelyForm DEF Faith, MirrorOK
    <3> QED
      BY <3>2
  <2>3. CASE OfBody(m)
    <3>1. PICK b \in Bodies(solve.seen) : m \in solve.made[b]
      BY <1>1, <2>3 DEF OfBody, ListedBy, Listing, At
    <3>2. b \in Names
      BY <1>1, <3>1, PlainIsName DEF CarryTyped, Bodies, MirrorAssumption
    <3> QED
      BY <3>1, <3>2
  <2> QED
    BY <2>1, <2>2, <2>3
<1>6. Listed'
  <2>3. ASSUME NEW h \in Groups, NEW m \in Names, known[h][m] # Nothing
        PROVE  \E b \in Names : m \in groups'[h][b]
    <3>1. h = solve.group /\ server[m] # Nothing
      BY <1>1, <2>3 DEF Faith, OneClient, Silent, Exact, FormOK, ServedForm
    <3> QED
      BY <1>2, <1>5, <3>1
  <2> QED
    BY <1>1, <2>3 DEF Listed
<1>7. AfterOK'
  <2>1. /\ \A n : OfScene(n)' = OfScene(n) /\ Shown(n)' = Shown(n)
        /\ \A x : MemberOf(solve.seen, x)' = MemberOf(solve.seen, x)
        /\ Bodies(solve.seen)' = Bodies(solve.seen) /\ Shapely' = Shapely
    BY <1>1, SeenSame
  <2>2. \A n : OfBody(n) => OfBody(n)'
    <3>1. \A b \in Bodies(solve.seen) : groups'[solve.group][b] = solve.made[b]
      BY <1>1 DEF FormOK
    <3> QED
      BY <1>1, <2>1, <3>1 DEF OfBody, ListedBy, Listing, At
  <2>3. \A x \in Shapely : There(x)' = There(x) /\ There(x)
    BY <1>1, <2>1 DEF There, Awaited, Faith, MirrorOK
  <2> QED
    BY <1>1, <2>1, <2>2, <2>3 DEF AfterOK, Faith, MirrorOK, At
<1>8. PruneOK' /\ MirrorOK'
  BY <1>1 DEF PruneOK, MirrorOK, At
<1> QED
  BY <1>3, <1>6, <1>7, <1>8 DEF Faith

(* The sync goes on after the mirroring: the server's obstacles stay.      *)
LEMMA AfterFaith ==
  ASSUME Faith, solve # Idle, ~Listing, solve' # Idle, ~Listing',
         solve'.group = solve.group, solve'.seen = solve.seen,
         UNCHANGED <<server, late, known, groups>>,
         \A h \in Groups : h = solve.group \/ attached'[h] = attached[h],
         solve'.step = "back" => solve'.todo = {m \in Names : server[m] # Nothing}
  PROVE  Faith'
<1>1. \A h \in Groups : h = solve.group \/ (Silent(h)' <=> Silent(h))
  BY DEF Silent
<1>2. OneClient' /\ Exact' /\ Listed'
  BY <1>1 DEF Faith, OneClient, Exact, Listed
<1>3. /\ \A n : OfScene(n)' = OfScene(n) /\ Shown(n)' = Shown(n) /\ OfBody(n)' = OfBody(n)
      /\ \A x : There(x)' = There(x)
      /\ Shapely' = Shapely
  BY SeenSame DEF OfBody, ListedBy, There
<1>4. AfterOK'
  BY <1>3 DEF Faith, AfterOK, At
<1>5. PruneOK' /\ MirrorOK'
  BY DEF PruneOK, MirrorOK, Listing, At
<1> QED
  BY <1>2, <1>4, <1>5 DEF Faith

(* Attaching, detaching and the reverse sync leave the obstacles.          *)
LEMMA LaterFaith ==
  ASSUME MirrorAssumption, FormOK, SolveForm, CallsTyped, Faith, faults' = faults,
         AttachBody \/ AttachedAll \/ DetachBody \/ DetachedAll \/ GetObstacles \/ MirrorBack
  PROVE  Faith'
<1>0. solve # Idle /\ solve.group \in Groups
  BY NotIdle DEF SolveForm
<1>1. CASE AttachBody
  <2>1. PICK b, ok : Call(Request("attach", b, Nothing), ok)
                     /\ solve' = [Less(b) EXCEPT !.keeps = IF ok THEN @ \cup {b} ELSE @]
    BY <1>1 DEF AttachBody
  <2>2. late' = late /\ server' = server
    BY <2>1, SureCall DEF Execute, Request
  <2>3. /\ solve'.step = "attach" /\ solve'.group = solve.group /\ solve'.seen = solve.seen
        /\ solve' # Idle
    BY <1>1, <2>1 DEF AttachBody, Less, SolveForm, At, Idle
  <2> QED
    BY <1>0, <1>1, <2>2, <2>3, AfterFaith DEF AttachBody, clientVars, Listing, At
<1>2. CASE DetachBody
  <2>1. PICK b, ok : Call(Request("detach", b, Nothing), ok) /\ solve' = Less(b)
    BY <1>2 DEF DetachBody
  <2>2. late' = late /\ server' = server
    BY <2>1, SureCall DEF Execute, Request
  <2>3. /\ solve'.step = "detach" /\ solve'.group = solve.group /\ solve'.seen = solve.seen
        /\ solve' # Idle
    BY <1>2, <2>1 DEF DetachBody, Less, SolveForm, At, Idle
  <2> QED
    BY <1>0, <1>2, <2>2, <2>3, AfterFaith DEF DetachBody, clientVars, Listing, At
<1>3. CASE AttachedAll
  <2>1. /\ solve'.step = "detach" /\ solve'.group = solve.group /\ solve'.seen = solve.seen
        /\ solve' # Idle
    BY <1>3 DEF AttachedAll, Enter, SolveForm, Idle
  <2> QED
    BY <1>0, <1>3, <2>1, AfterFaith
       DEF AttachedAll, Done, callVars, serverVars, clientVars, Listing, At
<1>4. CASE DetachedAll
  <2>1. /\ solve'.step = "list" /\ solve'.group = solve.group /\ solve'.seen = solve.seen
        /\ solve' # Idle
    BY <1>4 DEF DetachedAll, Enter, SolveForm, Idle
  <2>2. \A h \in Groups : h = solve.group \/ attached'[h] = attached[h]
    BY <1>4 DEF DetachedAll
  <2> QED
    BY <1>0, <1>4, <2>1, <2>2, AfterFaith DEF DetachedAll, Done, callVars, serverVars, Listing, At
<1>5. CASE GetObstacles
  <2>1. /\ solve' = Enter("back", {m \in Names : server[m] # Nothing}) /\ UNCHANGED callVars
    BY <1>5 DEF GetObstacles, CallsTyped, MirrorAssumption
  <2>2. /\ solve'.step = "back" /\ solve'.group = solve.group /\ solve'.seen = solve.seen
        /\ solve' # Idle /\ solve'.todo = {m \in Names : server[m] # Nothing}
    BY <2>1 DEF Enter, SolveForm, Idle
  <2> QED
    BY <1>0, <1>5, <2>1, <2>2, AfterFaith
       DEF GetObstacles, callVars, serverVars, clientVars, Listing, At
<1>6. CASE MirrorBack
  <2>1. /\ solve'.step = "plan" /\ solve'.group = solve.group /\ solve'.seen = solve.seen
        /\ solve' # Idle
    BY <1>6 DEF MirrorBack, Enter, SolveForm, Idle
  <2> QED
    BY <1>0, <1>6, <2>1, AfterFaith DEF MirrorBack, callVars, serverVars, Listing, At
<1> QED
  BY <1>1, <1>2, <1>3, <1>4, <1>5, <1>6

(* Between plans the client knows and lists what the server has.           *)
LEMMA PlanFaith ==
  ASSUME Faith, Plan PROVE Faith'
<1>1. /\ solve' = Idle /\ ~Listing /\ ~Listing'
      /\ UNCHANGED <<server, late, known, attached, groups>>
  BY DEF Plan, callVars, serverVars, clientVars, Listing, At, Idle
<1>2. \A h : Silent(h)' <=> Silent(h)
  BY <1>1 DEF Silent
<1>3. OneClient' /\ Exact' /\ Listed'
  BY <1>1, <1>2 DEF Faith, OneClient, Exact, Listed
<1>4. PruneOK' /\ MirrorOK' /\ AfterOK'
  BY <1>1 DEF PruneOK, MirrorOK, AfterOK, Listing, At, Idle
<1> QED
  BY <1>3, <1>4 DEF Faith

(* FaithInv is inductive, beside the types and what is served.             *)
LEMMA FaithStep ==
  ASSUME MirrorAssumption, FormOK, RestTyped, FaithInv, [Next]_vars
  PROVE  FaithInv'
<1>0. CallsTyped /\ SceneTyped /\ CarryTyped
  BY DEF RestTyped
<1>2. SUFFICES ASSUME Sound' PROVE Faith'
  BY DEF FaithInv
<1>3. Faith /\ faults' = faults /\ ~mixed'
  BY <1>0, <1>2, SoundBefore DEF FaithInv, Sound
<1>4. CASE User \/ UNCHANGED vars
  BY <1>3, <1>4, FaithSame DEF User, PutObject, DeleteObject, PickUp, PutDown, vars, callVars,
     serverVars, clientVars
<1>5. CASE \E r \in late : LateRequest(r)
  BY <1>3, <1>5 DEF Faith, Exact
<1>6. CASE \E g \in Groups : Solve(g)
  BY <1>0, <1>3, <1>6, SolveFaith
<1>7. CASE Prune \/ Pruned \/ Mirror \/ Mirrored
  BY <1>0, <1>3, <1>7, StepNotIdle, PruneFaith, PrunedFaith, MirrorFaith, MirroredFaith DEF Sync
<1>8. CASE AttachBody \/ AttachedAll \/ DetachBody \/ DetachedAll \/ GetObstacles \/ MirrorBack
  BY <1>0, <1>3, <1>8, StepNotIdle, LaterFaith DEF Sync
<1>9. CASE Plan
  BY <1>3, <1>9, PlanFaith
<1> QED
  BY <1>4, <1>5, <1>6, <1>7, <1>8, <1>9 DEF Next, Sync

LEMMA FaithInit == ASSUME MirrorAssumption, Init PROVE FaithInv
<1>1. OneClient /\ Exact
  BY DEF Init, OneClient, Exact, Silent, Idle
<1>2. Listed
  BY DEF Init, Listed, Listing, Idle, At
<1>3. PruneOK /\ MirrorOK /\ AfterOK
  BY DEF Init, PruneOK, MirrorOK, AfterOK, At, Idle
<1> QED
  BY <1>1, <1>2, <1>3 DEF FaithInv, Faith

SyncInv == MirrorInv /\ RestTyped /\ FaithInv

(* The inductive invariant of the synchronisation.                         *)
LEMMA SyncInit == ASSUME MirrorAssumption, Init PROVE SyncInv
<1>1. MirrorInv
  BY MirrorAssumption, PlainIsName
     DEF Init, MirrorInv, FormOK, ServedForm, KnownIsServed, OwnersOK, ListsOK,
         Listing, Idle, At, MirrorAssumption
<1>2. SceneTyped
  BY DEF Init, SceneTyped
<1>3. CallsTyped
  BY MirrorAssumption DEF Init, CallsTyped, NoName, MirrorAssumption
<1>4. CarryTyped
  BY DEF Init, CarryTyped
<1> QED
  BY <1>1, <1>2, <1>3, <1>4, FaithInit DEF SyncInv, RestTyped

LEMMA SyncStep == ASSUME MirrorAssumption, SyncInv, [Next]_vars PROVE SyncInv'
BY FormStep, ServedStep, ListsStep, SceneTypedStep, CallsTypedStep, CarryTypedStep, FaithStep
   DEF SyncInv, MirrorInv, Served, RestTyped

(* syncFromPlanningScene (cumotion_service_client.cpp): after a forward     *)
(* sync with no failed call, the plan sees every shape of MoveIt's scene   *)
(* that a request can carry in its place, and nothing else but what a      *)
(* carried body left.                                                      *)
THEOREM PlansSeeTheScene == Spec => []PlanSeesScene
<1>1. Init => SyncInv
  BY SyncInit, MirrorAssumption
<1>2. SyncInv /\ [Next]_vars => SyncInv'
  BY SyncStep, MirrorAssumption
<1>3. SyncInv => PlanSeesScene
  <2> SUFFICES ASSUME SyncInv, At("plan"), Sound PROVE
        LET s == solve.seen
            made == [m \in Names |-> {ShapeOf(s, item) : item \in
                       {x \in Mirrorable(s) : MemberOf(s, x) = m}}]
        IN \A m \in Names :
             /\ made[m] # {} => server[m] \in made[m]
             /\ server[m] # Nothing =>
                  made[m] # {} \/ m \in UNION {groups[solve.group][b] : b \in Bodies(s)}
    BY DEF PlanSeesScene
  <2>1. solve # Idle /\ ~Listing /\ AfterOK
    BY DEF SyncInv, FaithInv, Faith, Listing, At, Idle
  <2>2. ASSUME NEW m \in Names
        PROVE  /\ Shown(m) # {} => server[m] \in Shown(m)
               /\ server[m] # Nothing =>
                    Shown(m) # {} \/ m \in UNION {groups[solve.group][b] : b \in Bodies(solve.seen)}
    <3>1. ASSUME Shown(m) # {} PROVE server[m] \in Shown(m)
      <4>1. PICK x \in Shapely : MemberOf(solve.seen, x) = m
        BY <3>1 DEF Shown
      <4> QED
        BY <2>1, <4>1 DEF AfterOK, There
    <3>2. CASE OfScene(m)
      <4>1. Shown(m) # {}
        BY <3>2 DEF Shown, OfScene
      <4> QED
        BY <3>1, <4>1
    <3>3. CASE OfBody(m)
      BY <2>1, <3>1, <3>3 DEF OfBody, ListedBy
    <3> QED
      BY <2>1, <3>1, <3>2, <3>3 DEF AfterOK
  <2> QED
    BY <2>2 DEF Shown, Shapely
<1> QED
  BY <1>1, <1>2, <1>3, PTL DEF Spec

-----------------------------------------------------------------------------
(* The reverse sync: what it mirrored before is still remembered, save     *)
(* what has left the scene of the sync at work or is to be mirrored anew.  *)
(* The names of members only ever hold what was mirrored back.             *)
WorldOK ==
  \A o \in Objects, i \in 1..MaxShapes :
    world[<<o, i>>] = <<>> \/ \E s \in Supported : world[<<o, i>>] = <<s>>

Remembered(h, m) == known[h][m] # Nothing
InTurn(h, m) ==
  /\ solve # Idle /\ ~At("plan") /\ h = solve.group
  /\ m \notin InWorld(solve.seen) \/ OfScene(m)

Backed ==
  /\ \A h \in Groups, o \in Objects :
       Plain(o) \in mirrored[h] => Remembered(h, Plain(o)) \/ InTurn(h, Plain(o))
  /\ At("prune") => \A o \in Objects :
       Plain(o) \in solve.todo => Plain(o) \notin InWorld(solve.seen)

BackInv == WorldOK /\ (Sound => Backed)

LEMMA WorldStep ==
  ASSUME MirrorAssumption, FormOK, SceneTyped, WorldOK, [Next]_vars
  PROVE  WorldOK'
<1>0. \A o \in Objects : Plain(o) \in Names /\ \A i \in 1..MaxShapes :
        <<o, i>> \in Names /\ <<o, i>> # Plain(o) /\ \A p \in Objects : <<o, i>> # Plain(p)
  BY DEF Plain, Names, MirrorAssumption
<1>1. CASE User
  <2>1. \/ \E p \in Objects, s \in ShapeLists \cup {<<>>} : world' = [world EXCEPT ![Plain(p)] = s]
        \/ \E b \in Names : world' = [world EXCEPT ![b] = <<>>]
    BY <1>1 DEF User, PutObject, DeleteObject, PickUp, PutDown, MirrorAssumption
  <2>2. \A o \in Objects, i \in 1..MaxShapes :
          world'[<<o, i>>] = world[<<o, i>>] \/ world'[<<o, i>>] = <<>>
    BY <1>0, <2>1 DEF FormOK
  <2> QED
    BY <2>2 DEF WorldOK
<1>2. CASE MirrorBack
  <2>1. SolveForm
    BY <1>2, StepNotIdle DEF Sync
  <2> DEFINE g == solve.group
             kept == {m \in solve.todo : known[g][m] # Nothing}
  <2>2. PICK back \in [kept -> Shapes] :
          /\ \A b \in kept : back[b] \in Converted[known[g][b]]
          /\ world' = [b \in Names |-> IF b \in kept THEN <<back[b]>>
                                       ELSE IF b \in Gone THEN <<>> ELSE world[b]]
    BY <1>2 DEF MirrorBack
  <2>3. \A b \in kept \cap Names : back[b] \in Supported
    BY <2>1, <2>2 DEF SolveForm, FormOK, ServedForm, Supported, MirrorAssumption
  <2> HIDE DEF kept
  <2>4. ASSUME NEW o \in Objects, NEW i \in 1..MaxShapes
        PROVE  world'[<<o, i>>] = <<>> \/ \E s \in Supported : world'[<<o, i>>] = <<s>>
    BY <1>0, <2>2, <2>3 DEF WorldOK
  <2> QED
    BY <2>4 DEF WorldOK
<1>3. CASE world' = world
  BY <1>3 DEF WorldOK
<1> QED
  BY <1>1, <1>2, <1>3 DEF Next, Sync, Solve, LateRequest, Prune, Pruned, Mirror, Mirrored,
     AttachBody, AttachedAll, DetachBody, DetachedAll, GetObstacles, Plan, vars, moveItVars

(* A step of the sync that neither mirrors back nor forgets a name that    *)
(* stays in the scene.                                                     *)
LEMMA GoesOnBacked ==
  ASSUME Backed, solve # Idle, solve' # Idle, ~At("plan"), solve'.step # "plan",
         solve'.group = solve.group, solve'.seen = solve.seen, mirrored' = mirrored,
         \A h \in Groups, o \in Objects :
           Remembered(h, Plain(o)) => Remembered(h, Plain(o))' \/ InTurn(h, Plain(o)),
         solve'.step = "prune" => At("prune") /\ solve'.todo \subseteq solve.todo
  PROVE  Backed'
<1>1. \A h, m : InTurn(h, m) => InTurn(h, m)'
  BY SeenSame DEF InTurn, At, InWorld
<1>2. InWorld(solve'.seen) = InWorld(solve.seen)
  OBVIOUS
<1> QED
  BY <1>1, <1>2 DEF Backed, At

LEMMA BackedStep ==
  ASSUME MirrorAssumption, FormOK, ListsOK, SceneTyped, CallsTyped, Backed, [Next]_vars,
         faults' = faults
  PROVE  Backed'
<1>1. CASE User \/ UNCHANGED vars \/ \E r \in late : LateRequest(r)
  <2>1. UNCHANGED <<mirrored, known, solve>>
    BY <1>1 DEF User, PutObject, DeleteObject, PickUp, PutDown, vars, LateRequest, clientVars
  <2>2. \A h, m : InTurn(h, m)' = InTurn(h, m) /\ Remembered(h, m)' = Remembered(h, m)
    BY <2>1, SeenSame DEF InTurn, Remembered, At
  <2> QED
    BY <2>1, <2>2 DEF Backed, At
<1>2. ASSUME NEW g \in Groups, Solve(g) PROVE Backed'
  <2> DEFINE seen == [world |-> world, carried |-> carried]
  <2>1. /\ solve'.step = "prune" /\ solve'.seen = seen /\ solve = Idle
        /\ solve'.todo = UNION {groups[g][b] : b \in Names \ Wanted(seen)}
        /\ UNCHANGED <<mirrored, known>>
    BY <1>2 DEF Solve, clientVars
  <2>2. ~Listing
    BY <2>1 DEF Listing, Idle
  <2>3. \A b \in Names, o \in Objects : Plain(o) \in groups[g][b] => b = Plain(o)
    BY DEF ListsOK
  <2>4. \A o \in Objects : Plain(o) \in solve'.todo => Plain(o) \notin InWorld(seen)
    BY <2>1, <2>3 DEF Wanted
  <2>5. \A h \in Groups, o \in Objects : Plain(o) \in mirrored[h] => Remembered(h, Plain(o))
    BY <2>1 DEF Backed, InTurn
  <2> QED
    BY <2>1, <2>4, <2>5 DEF Backed, Remembered
<1>3. CASE Prune
  <2>1. SolveForm /\ solve # Idle /\ At("prune")
    BY <1>3, StepNotIdle, NotIdle DEF Sync, Prune
  <2>2. PICK m \in solve.todo, ok \in BOOLEAN : RemoveMember(m, ok) /\ solve' = Less(m)
    BY <1>3 DEF Prune
  <2>3. /\ solve'.step = "prune" /\ solve'.group = solve.group /\ solve'.seen = solve.seen
        /\ solve'.todo \subseteq solve.todo /\ solve' # Idle /\ mirrored' = mirrored
        /\ m \in Names
    BY <1>3, <2>1, <2>2 DEF Less, SolveForm, At, Prune, Idle
  <2>4. \A h \in Groups, n \in Names :
          known'[h][n] = IF h = solve.group /\ n = m THEN Nothing ELSE known[h][n]
    BY <2>2, <2>3 DEF RemoveMember, Forgets, FormOK, ServedForm
  <2>5. \A h \in Groups, o \in Objects :
          Remembered(h, Plain(o)) => Remembered(h, Plain(o))' \/ InTurn(h, Plain(o))
    BY <2>1, <2>2, <2>4, PlainIsName DEF Remembered, InTurn, Backed, At
  <2> QED
    BY <2>1, <2>3, <2>5, GoesOnBacked DEF At
<1>4. CASE Mirror
  <2>1. SolveForm /\ solve # Idle /\ At("mirror")
    BY <1>4, StepNotIdle, NotIdle DEF Sync, Mirror
  <2>2. PICK item \in solve.todo, ok \in BOOLEAN : MirrorOne(item, ok)
    BY <1>4 DEF Mirror
  <2> DEFINE g == solve.group
             m == MemberOf(solve.seen, item)
             s == ShapeOf(solve.seen, item)
  <2>3. /\ m \in Names /\ s \in Shapes /\ s # Nothing /\ g \in Groups /\ item \in Items(solve.seen)
    BY <2>1, ItemForm DEF SolveForm, MirrorAssumption
  <2>4. /\ solve'.step = "mirror" /\ solve'.group = solve.group /\ solve'.seen = solve.seen
        /\ solve' # Idle
    BY <2>1, <2>2 DEF MirrorOne, Less, Joins, AfterAdd, SolveForm, At, Idle
  <2>5. \/ known' = known
        \/ s \in Supported /\ known' = [known EXCEPT ![g][m] = Nothing]
        \/ known' = [known EXCEPT ![g][m] = s]
    BY <2>2 DEF MirrorOne, RemoveMember, Forgets, Remembers
  <2>6. s \in Supported => OfScene(m)
    BY <2>3 DEF OfScene, Shapely, Mirrorable
  <2>7. \A h \in Groups, n \in Names :
          Remembered(h, n) => Remembered(h, n)' \/ (h = g /\ n = m /\ s \in Supported)
    BY <2>3, <2>5 DEF Remembered, FormOK, ServedForm
  <2>8. \A h \in Groups, o \in Objects :
          Remembered(h, Plain(o)) => Remembered(h, Plain(o))' \/ InTurn(h, Plain(o))
    BY <2>1, <2>6, <2>7, PlainIsName DEF InTurn, At
  <2>9. mirrored' = mirrored
    BY <1>4 DEF Mirror
  <2> QED
    BY <2>1, <2>4, <2>8, <2>9, GoesOnBacked DEF At
<1>5. CASE Pruned \/ Mirrored \/ AttachBody \/ AttachedAll \/ DetachBody \/ DetachedAll
           \/ GetObstacles
  <2>1. SolveForm /\ solve # Idle
    BY <1>5, StepNotIdle, NotIdle DEF Sync
  <2>2. UNCHANGED <<mirrored, known>> /\ ~At("plan")
    BY <1>5 DEF Pruned, Mirrored, AttachBody, AttachedAll, DetachBody, DetachedAll, GetObstacles,
       clientVars, At, Done
  <2>3. /\ solve'.step \notin {"plan", "prune"} /\ solve'.group = solve.group
        /\ solve'.seen = solve.seen /\ solve' # Idle
    <3>1. CASE AttachBody \/ DetachBody
      BY <2>1, <3>1 DEF AttachBody, DetachBody, Less, SolveForm, At, Idle
    <3>2. CASE GetObstacles
      <4>1. solve' = Enter("back", {m \in Names : server[m] # Nothing})
        BY <3>2 DEF GetObstacles, CallsTyped, MirrorAssumption
      <4> QED
        BY <2>1, <4>1 DEF Enter, SolveForm, Idle
    <3>3. CASE Pruned \/ Mirrored \/ AttachedAll \/ DetachedAll
      BY <2>1, <3>3 DEF Pruned, Mirrored, AttachedAll, DetachedAll, Enter, SolveForm, Idle
    <3> QED
      BY <1>5, <3>1, <3>2, <3>3
  <2>4. \A h, m : Remembered(h, m)' = Remembered(h, m)
    BY <2>2 DEF Remembered
  <2> QED
    BY <2>1, <2>2, <2>3, <2>4, GoesOnBacked
<1>6. CASE MirrorBack
  <2>1. SolveForm /\ solve.group \in Groups
    BY <1>6, StepNotIdle DEF Sync, SolveForm
  <2> DEFINE kept == {m \in solve.todo : known[solve.group][m] # Nothing}
  <2>2. /\ solve'.step = "plan" /\ known' = known /\ At("back")
        /\ mirrored' = [mirrored EXCEPT ![solve.group] = kept]
    BY <1>6, <2>1 DEF MirrorBack, Enter, SolveForm
  <2>3. \A h \in Groups, o \in Objects : Plain(o) \in mirrored'[h] => Remembered(h, Plain(o))
    BY <2>1, <2>2 DEF SceneTyped, Backed, InTurn, Remembered
  <2> QED
    BY <2>2, <2>3 DEF Backed, Remembered, At
<1>7. CASE Plan
  <2>1. At("plan") /\ solve' = Idle /\ UNCHANGED <<known, mirrored>>
    BY <1>7 DEF Plan, clientVars
  <2>2. \A h \in Groups, o \in Objects : Plain(o) \in mirrored[h] => Remembered(h, Plain(o))
    BY <2>1 DEF Backed, InTurn
  <2> QED
    BY <2>1, <2>2 DEF Backed, Remembered, At, Idle
<1> QED
  BY <1>1, <1>2, <1>3, <1>4, <1>5, <1>6, <1>7 DEF Next, Sync

LEMMA BackStep ==
  ASSUME MirrorAssumption, SyncInv, BackInv, [Next]_vars PROVE BackInv'
<1>0. FormOK /\ ListsOK /\ SceneTyped /\ CallsTyped
  BY DEF SyncInv, MirrorInv, RestTyped
<1>1. WorldOK'
  BY <1>0, WorldStep DEF BackInv
<1>2. ASSUME Sound' PROVE Backed'
  <2>1. Sound /\ faults' = faults
    BY <1>0, <1>2, SoundBefore
  <2> QED
    BY <1>0, <2>1, BackedStep DEF BackInv
<1> QED
  BY <1>1, <1>2 DEF BackInv

LEMMA BackInit == ASSUME MirrorAssumption, Init PROVE BackInv
<1>1. WorldOK
  BY DEF Init, WorldOK, Names, MirrorAssumption
<1>2. Backed
  BY DEF Init, Backed, At, Idle
<1> QED
  BY <1>1, <1>2 DEF BackInv

(* syncToPlanningScene: in a MoveIt world of single shapes that stayed as  *)
(* the forward sync saw it, with nothing carried, it changes nothing but   *)
(* what it mirrored, and that only by the conversion.                      *)
THEOREM MirrorBackIdle == Spec => MirrorBackIsIdle
<1> DEFINE Converts(w, v) ==
             \A b \in Names : \/ v[b] = w[b]
                              \/ \E s \in Supported, c \in Shapes :
                                   w[b] = <<s>> /\ c \in Converted[s] /\ v[b] = <<c>>
<1>1. Init => SyncInv /\ BackInv
  BY SyncInit, BackInit, MirrorAssumption
<1>2. SyncInv /\ BackInv /\ [Next]_vars => SyncInv' /\ BackInv'
  BY SyncStep, BackStep, MirrorAssumption
<1>3. SyncInv /\ BackInv => (MirrorBack /\ Sound /\ carried = {}
                  /\ solve.seen = [world |-> world, carried |-> carried]
                  /\ (\A b \in Names : Len(world[b]) <= 1)
                  => Converts(world, world'))
  <2> SUFFICES ASSUME SyncInv, BackInv, MirrorBack, Sound, carried = {},
                      solve.seen = [world |-> world, carried |-> carried],
                      \A b \in Names : Len(world[b]) <= 1
               PROVE  Converts(world, world')
    OBVIOUS
  <2> DEFINE g == solve.group
  <2>0. \A b \in Names : Len(world[b]) <= 1
    OBVIOUS
  <2>1. SolveForm /\ FormOK
    BY StepNotIdle DEF SyncInv, MirrorInv, Sync
  <2>2. /\ At("back") /\ solve # Idle /\ ~Listing /\ AfterOK /\ Exact /\ OneClient /\ Backed
        /\ WorldOK /\ g \in Groups /\ Bodies(solve.seen) = {} /\ solve.seen.world = world
    BY <2>1, NotIdle DEF MirrorBack, SyncInv, FaithInv, Faith, BackInv, Listing, At, Bodies, SolveForm
  <2>3. solve.todo = {m \in Names : server[m] # Nothing}
    BY <2>2 DEF AfterOK
  <2>4. ASSUME NEW x \in Shapely
        PROVE  /\ x[1] \in Names /\ MemberOf(solve.seen, x) = x[1]
               /\ ShapeOf(solve.seen, x) = world[x[1]][1] /\ Len(world[x[1]]) = 1
               /\ ShapeOf(solve.seen, x) \in Supported
    <3>1. /\ x[1] \in Names /\ x[2] \in 1..MaxShapes /\ x[2] <= Len(world[x[1]])
          /\ ShapeOf(solve.seen, x) \in Supported
      BY <2>2 DEF Shapely, Mirrorable, Items, InWorld
    <3>2. Len(world[x[1]]) \in Nat /\ Len(world[x[1]]) <= 1
      BY <2>0, <2>1, <3>1, LenProperties DEF FormOK
    <3> DEFINE n == Len(world[x[1]])
               i == x[2]
    <3>a. n \in Nat /\ n <= 1 /\ i \in 1..MaxShapes /\ i <= n
      BY <3>1, <3>2
    <3> HIDE DEF n, i
    <3>b. n = 1 /\ i = 1
      BY <3>a, MirrorAssumption DEF MirrorAssumption
    <3>3. Len(world[x[1]]) = 1 /\ x[2] = 1
      BY <3>b DEF n, i
    <3> QED
      BY <2>2, <3>1, <3>3 DEF MemberOf, Member, ShapeOf
  <2>5. ASSUME NEW b \in Names, world[b] # <<>>
        PROVE  Len(world[b]) = 1 /\ world[b][1] \in Shapes /\ world[b] = <<world[b][1]>>
    <3>0. world[b] \in Seq(Shapes)
      BY <2>1, <2>5 DEF FormOK
    <3>1. Len(world[b]) = 1
      <4>1. Len(world[b]) \in Nat /\ Len(world[b]) # 0
        BY <2>5, <3>0, EmptySeq, LenProperties
      <4>2. Len(world[b]) <= 1
        BY <2>0, <2>5
      <4> DEFINE n == Len(world[b])
      <4>3. n \in Nat /\ n # 0 /\ n <= 1
        BY <4>1, <4>2
      <4> HIDE DEF n
      <4>4. n = 1
        BY <4>3
      <4> QED
        BY <4>4 DEF n
    <3> QED
      BY <3>0, <3>1
  <2>6. ASSUME NEW b \in Names, server[b] # Nothing
        PROVE  world[b] = <<server[b]>> /\ server[b] \in Supported
    <3>1. PICK x \in Shapely : MemberOf(solve.seen, x) = b
      BY <2>2, <2>6 DEF AfterOK, OfScene, OfBody
    <3>2. Len(world[b]) = 1
      BY <2>4, <3>1
    <3>3. Len(<<>>) = 0
      BY EmptySeq
    <3>4. world[b] = <<world[b][1]>>
      BY <2>5, <3>2, <3>3
    <3>5. server[b] \in Shown(b)
      BY <2>2, <3>1 DEF AfterOK, There
    <3>6. \A y \in Shapely : MemberOf(solve.seen, y) = b =>
            ShapeOf(solve.seen, y) = world[b][1] /\ world[b][1] \in Supported
      BY <2>4
    <3> QED
      BY <3>4, <3>5, <3>6 DEF Shown
  <2>7. ASSUME NEW b \in Names, server[b] = Nothing
        PROVE  ~OfScene(b)
    <3>1. SUFFICES ASSUME NEW x \in Shapely, MemberOf(solve.seen, x) = b PROVE FALSE
      BY DEF OfScene
    <3>2. server[b] \in Shown(b)
      BY <2>2, <3>1 DEF AfterOK, There
    <3>3. \A y \in Shapely : ShapeOf(solve.seen, y) \in Supported
      BY <2>4
    <3> QED
      BY <2>7, <3>2, <3>3, MirrorAssumption DEF Shown, Supported, MirrorAssumption
  <2>8. ASSUME NEW b \in Names, b \in Gone, world[b] # <<>>
        PROVE  FALSE
    <3>1. server[b] = Nothing /\ b \in mirrored[g]
      BY <2>3, <2>8 DEF Gone
    <3>2. b \in InWorld(solve.seen)
      BY <2>2, <2>8 DEF InWorld
    <3>3. CASE \E o \in Objects : b = Plain(o)
      <4>1. Remembered(g, b) \/ InTurn(g, b)
        BY <2>2, <3>1, <3>3 DEF Backed
      <4>2. ~Remembered(g, b)
        BY <2>2, <3>1 DEF Remembered, Exact
      <4>3. OfScene(b)
        BY <3>2, <4>1, <4>2 DEF InTurn
      <4> QED
        BY <2>7, <3>1, <4>3
    <3>4. CASE \E o \in Objects, i \in 1..MaxShapes : b = <<o, i>>
      <4>1. PICK s \in Supported : world[b] = <<s>>
        BY <2>2, <2>8, <3>4 DEF WorldOK
      <4>2. 1 \in 1..MaxShapes
        BY MirrorAssumption DEF MirrorAssumption
      <4>3. Len(world[b]) = 1 /\ world[b][1] = s
        BY <4>1
      <4>4. <<b, 1>> \in Shapely
        BY <2>2, <3>2, <4>1, <4>2, <4>3 DEF Shapely, Mirrorable, Items, ShapeOf
      <4>5. MemberOf(solve.seen, <<b, 1>>) = b
        BY <2>4, <4>4
      <4> QED
        BY <2>7, <3>1, <4>4, <4>5 DEF OfScene
    <3>5. \/ \E o \in Objects : b = Plain(o)
          \/ \E o \in Objects, i \in 1..MaxShapes : b = <<o, i>>
      BY MirrorAssumption DEF Names, Plain, MirrorAssumption
    <3> QED
      BY <3>3, <3>4, <3>5
  <2> DEFINE kept == {m \in solve.todo : known[g][m] # Nothing}
  <2>9. PICK back \in [kept -> Shapes] :
          /\ \A b \in kept : back[b] \in Converted[known[g][b]]
          /\ world' = [b \in Names |-> IF b \in kept THEN <<back[b]>>
                                       ELSE IF b \in Gone THEN <<>> ELSE world[b]]
    BY DEF MirrorBack
  <2>10. \A b \in kept : b \in Names /\ server[b] = known[g][b] /\ server[b] # Nothing
    BY <2>2, <2>3 DEF Exact
  <2> HIDE DEF kept
  <2>11. ASSUME NEW b \in Names
         PROVE  \/ world'[b] = world[b]
                \/ \E s \in Supported, c \in Shapes :
                     world[b] = <<s>> /\ c \in Converted[s] /\ world'[b] = <<c>>
    <3>1. CASE b \in kept
      <4>1. /\ world[b] = <<server[b]>> /\ server[b] \in Supported
            /\ back[b] \in Converted[server[b]] /\ back[b] \in Shapes
        BY <2>6, <2>9, <2>10, <3>1
      <4>2. world'[b] = <<back[b]>>
        BY <2>9, <3>1
      <4> QED
        BY <4>1, <4>2
    <3>2. CASE b \notin kept
      BY <2>8, <2>9, <3>2
    <3> QED
      BY <3>1, <3>2
  <2> QED
    BY <2>11
<1> QED
  BY <1>1, <1>2, <1>3, PTL DEF Spec, MirrorBackIsIdle
-----------------------------------------------------------------------------
(* What is carried: in a sound sync the server holds nothing but what the  *)
(* client says it attached, save between a call and the end of the forward *)
(* sync; and all of it, as long as no sync met more than one body.         *)
HeldSet == {held} \ {NoName}
InHand == UNION {attached[g] : g \in Groups}
AtMostOne(S) == \A x, y \in S : x = y

Carrying(a, b) ==
  /\ solve.step \in {"prune", "mirror"} => HeldSet \subseteq a /\ solve.keeps = a \cap b
  /\ At("attach") =>
       /\ HeldSet \subseteq a \cup solve.keeps /\ solve.keeps \subseteq b
       /\ a \cap b \subseteq solve.keeps /\ solve.todo \subseteq b
  /\ At("detach") =>
       /\ HeldSet \subseteq solve.keeps \cup solve.todo
       /\ solve.keeps \subseteq b /\ solve.todo \subseteq a \ b
  /\ solve.step \in {"list", "back", "plan"} => HeldSet \subseteq a

CarryingOne(a, b) ==
  /\ solve.step \in {"prune", "mirror", "attach", "detach"} => AtMostOne(a \cup b)
  /\ solve.step \in {"prune", "mirror"} => a \subseteq HeldSet
  /\ At("attach") => a \cup solve.keeps \subseteq HeldSet
  /\ At("detach") => solve.keeps \cup solve.todo \subseteq HeldSet
  /\ solve.step \in {"list", "back", "plan"} => a \subseteq HeldSet

Carries ==
  IF solve = Idle THEN HeldSet \subseteq InHand
  ELSE Carrying(attached[solve.group], Bodies(solve.seen))

CarriesOne ==
  IF solve = Idle THEN InHand \subseteq HeldSet
  ELSE CarryingOne(attached[solve.group], Bodies(solve.seen))

Hold == Carries /\ (~several => CarriesOne)
HoldInv == Sound => Hold

(* A sync keeps to its group and its scene.                                *)
LEMMA SyncStays ==
  ASSUME SolveForm, Sync, ~Plan
  PROVE  /\ solve'.seen = solve.seen /\ solve'.group = solve.group /\ solve' # Idle
         /\ several' = several
<1>1. CASE Prune \/ Mirror \/ AttachBody \/ DetachBody
  BY <1>1, NotIdle
     DEF Prune, Mirror, MirrorOne, AttachBody, DetachBody, Less, Joins, AfterAdd, SolveForm, Idle,
         moveItVars, history
<1>2. CASE Pruned \/ Mirrored \/ AttachedAll \/ DetachedAll \/ GetObstacles \/ MirrorBack
  BY <1>2 DEF Pruned, Mirrored, AttachedAll, DetachedAll, GetObstacles, MirrorBack, Enter,
     SolveForm, Idle, moveItVars, history
<1> QED
  BY <1>1, <1>2 DEF Sync

(* The gripper of a sound state is one client's.                           *)
LEMMA OneHand ==
  ASSUME NEW g \in Groups, \A h \in Groups : h = g \/ attached[h] = {}
  PROVE  InHand = attached[g]
BY DEF InHand

(* A sync starts with the gripper of the client that is at work.           *)
LEMMA SolveHold ==
  ASSUME NEW g \in Groups, Solve(g), ~mixed', Hold
  PROVE  Hold'
<1> DEFINE seen == [world |-> world, carried |-> carried]
           b == Bodies(seen)
<1>1. (\A h \in Groups : h = g \/ attached[h] = {}) /\ solve = Idle
  BY DEF Solve
<1>2. HeldSet \subseteq attached[g] /\ (~several => attached[g] \subseteq HeldSet)
  BY <1>1, OneHand DEF Hold, Carries, CarriesOne
<1>3. /\ solve'.step = "prune" /\ solve'.group = g /\ solve'.keeps = attached[g] \cap b
      /\ solve'.seen = seen /\ solve' # Idle /\ UNCHANGED <<held, attached>>
  BY DEF Solve, Idle, callVars, serverVars, clientVars
<1>4. ~several' => ~several /\ AtMostOne(attached[g] \cup b)
  BY DEF Solve, AtMostOne
<1> HIDE DEF b, seen
<1>5. Bodies(solve.seen)' = b
  BY <1>3 DEF b
<1>6. Carries'
  BY <1>2, <1>3, <1>5 DEF Carries, Carrying, HeldSet, At
<1>7. ~several' => CarriesOne'
  BY <1>2, <1>3, <1>4, <1>5 DEF CarriesOne, CarryingOne, HeldSet, At
<1> QED
  BY <1>6, <1>7 DEF Hold

(* The calls that leave the gripper alone.                                 *)
LEMMA SureOther ==
  ASSUME MirrorAssumption, CallsTyped, NEW op \in {"add", "remove"}, NEW name, NEW shape, NEW ok,
         Call(Request(op, name, shape), ok), faults' = faults
  PROVE  held' = held
BY SureCall DEF Execute, Request

(* Mirroring the obstacles leaves the gripper alone.                       *)
LEMMA MirrorHold ==
  ASSUME MirrorAssumption, FormOK, CallsTyped, Hold, faults' = faults,
         Prune \/ Pruned \/ Mirror \/ Mirrored
  PROVE  Hold'
<1> DEFINE a == attached[solve.group]
           b == Bodies(solve.seen)
<1>1. SolveForm /\ solve # Idle
  BY StepNotIdle, NotIdle DEF Sync
<1>2. held' = held
  <2>1. CASE Prune
    BY <2>1, SureOther DEF Prune, RemoveMember
  <2>2. CASE Mirror
    BY <2>2, SureOther DEF Mirror, MirrorOne, RemoveMember, callVars, serverVars
  <2> QED
    BY <2>1, <2>2 DEF Pruned, Mirrored, callVars, serverVars
<1>3. /\ UNCHANGED attached /\ solve'.seen = solve.seen /\ solve'.group = solve.group
      /\ solve' # Idle /\ several' = several
  BY <1>1, SyncStays
     DEF Prune, Pruned, Mirror, Mirrored, Sync, Plan, clientVars, At, Done
<1>4. /\ solve.step \in {"prune", "mirror"}
      /\ HeldSet \subseteq a /\ solve.keeps = a \cap b
      /\ ~several => AtMostOne(a \cup b) /\ a \subseteq HeldSet
  BY <1>1 DEF Hold, Carries, Carrying, CarriesOne, CarryingOne, Prune, Pruned, Mirror, Mirrored,
     At, Done
<1>5. solve'.keeps = solve.keeps
  BY <1>1 DEF Prune, Pruned, Mirror, MirrorOne, Mirrored, Less, Joins, AfterAdd, Enter, SolveForm
<1>6. \/ solve'.step \in {"prune", "mirror"}
      \/ solve'.step = "attach" /\ solve'.todo = b \ a
  <2>1. CASE Mirrored
    BY <1>1, <2>1 DEF Mirrored, Enter, SolveForm
  <2>2. CASE Prune \/ Pruned \/ Mirror
    BY <1>1, <2>2 DEF Prune, Pruned, Mirror, MirrorOne, Less, Joins, AfterAdd, Enter, SolveForm, At
  <2> QED
    BY <2>1, <2>2
<1> HIDE DEF a, b
<1>7. a' = a /\ b' = b
  BY <1>3 DEF a, b
<1>8. Carrying(a, b)'
  BY <1>2, <1>4, <1>5, <1>6, <1>7 DEF Carrying, HeldSet, At
<1>9. ~several' => CarryingOne(a, b)'
  BY <1>2, <1>3, <1>4, <1>5, <1>6, <1>7 DEF CarryingOne, HeldSet, At, AtMostOne
<1> QED
  BY <1>3, <1>8, <1>9 DEF Hold, Carries, CarriesOne, a, b

(* A body is attached, in the place of what the server held.               *)
LEMMA AttachHold ==
  ASSUME MirrorAssumption, FormOK, CallsTyped, CarryTyped, Hold, faults' = faults,
         AttachBody
  PROVE  Hold'
<1> DEFINE a == attached[solve.group]
           b == Bodies(solve.seen)
<1>1. SolveForm /\ solve # Idle /\ At("attach")
  BY StepNotIdle, NotIdle DEF Sync, AttachBody
<1>2. PICK c \in solve.todo, ok \in BOOLEAN :
        /\ Call(Request("attach", c, Nothing), ok)
        /\ solve' = [Less(c) EXCEPT !.keeps = IF ok THEN @ \cup {c} ELSE @]
  BY DEF AttachBody
<1>3. ok = Granted(Request("attach", c, Nothing)) /\ Execute(Request("attach", c, Nothing))
  BY <1>2, SureCall
<1>4. held' = IF ok THEN c ELSE held
  BY <1>3 DEF Execute, Request
<1>5. c # NoName
  BY <1>1 DEF CarryTyped, CarryNames, Plain, NoName
<1>6. /\ HeldSet \subseteq a \cup solve.keeps /\ solve.keeps \subseteq b
      /\ a \cap b \subseteq solve.keeps /\ solve.todo \subseteq b
      /\ ~several => AtMostOne(a \cup b) /\ a \cup solve.keeps \subseteq HeldSet
  BY <1>1 DEF Hold, Carries, Carrying, CarriesOne, CarryingOne, At
<1>7. /\ solve'.step = "attach" /\ solve'.todo = solve.todo \ {c} /\ solve'.seen = solve.seen
      /\ solve'.group = solve.group /\ solve' # Idle /\ UNCHANGED <<attached, several>>
      /\ solve'.keeps = IF ok THEN solve.keeps \cup {c} ELSE solve.keeps
  BY <1>1, <1>2 DEF AttachBody, clientVars, moveItVars, history, Less, SolveForm, Idle, At
<1> HIDE DEF a, b
<1>8. a' = a /\ b' = b
  BY <1>7 DEF a, b
<1>9. HeldSet' = IF ok THEN {c} ELSE HeldSet
  BY <1>4, <1>5 DEF HeldSet
<1>10. Carrying(a, b)'
  BY <1>6, <1>7, <1>8, <1>9 DEF Carrying, At
<1>11. ASSUME ~several PROVE a \cup solve'.keeps \subseteq HeldSet'
  <2>1. CASE ok
    <3>1. c \in b /\ a \cup solve'.keeps \subseteq a \cup b
      BY <1>6, <1>7
    <3> QED
      BY <1>6, <1>9, <1>11, <2>1, <3>1 DEF AtMostOne
  <2>2. CASE ~ok
    BY <1>6, <1>7, <1>9, <1>11, <2>2
  <2> QED
    BY <2>1, <2>2
<1>12. ~several' => CarryingOne(a, b)'
  BY <1>6, <1>7, <1>8, <1>11 DEF CarryingOne, At
<1> QED
  BY <1>7, <1>10, <1>12 DEF Hold, Carries, CarriesOne, a, b

(* A detach names no body: the server lets go of whatever it held.         *)
LEMMA DetachHold ==
  ASSUME MirrorAssumption, FormOK, CallsTyped, Hold, faults' = faults,
         DetachBody
  PROVE  Hold'
<1> DEFINE a == attached[solve.group]
           b == Bodies(solve.seen)
<1>1. SolveForm /\ solve # Idle /\ At("detach")
  BY StepNotIdle, NotIdle DEF Sync, DetachBody
<1>2. PICK c \in solve.todo, ok \in BOOLEAN :
        Call(Request("detach", c, Nothing), ok) /\ solve' = Less(c)
  BY DEF DetachBody
<1>3. held' = NoName
  BY <1>2, SureCall DEF Execute, Request
<1>4. /\ solve.keeps \subseteq b /\ solve.todo \subseteq a \ b
      /\ ~several => AtMostOne(a \cup b) /\ solve.keeps \cup solve.todo \subseteq HeldSet
  BY <1>1 DEF Hold, Carries, Carrying, CarriesOne, CarryingOne, At
<1>5. /\ solve'.step = "detach" /\ solve'.todo = solve.todo \ {c} /\ solve'.seen = solve.seen
      /\ solve'.group = solve.group /\ solve' # Idle /\ UNCHANGED <<attached, several>>
      /\ solve'.keeps = solve.keeps
  BY <1>1, <1>2 DEF DetachBody, clientVars, moveItVars, history, Less, SolveForm, Idle, At
<1> HIDE DEF a, b
<1>6. a' = a /\ b' = b
  BY <1>5 DEF a, b
<1>7. HeldSet' = {}
  BY <1>3 DEF HeldSet
<1>8. Carrying(a, b)'
  BY <1>4, <1>5, <1>6, <1>7 DEF Carrying, At
<1>9. ASSUME ~several PROVE solve.keeps = {} /\ solve.todo = {c}
  <2>1. c \in a /\ c \notin b
    BY <1>4
  <2> QED
    BY <1>4, <1>9, <2>1 DEF AtMostOne
<1>10. ~several' => CarryingOne(a, b)'
  BY <1>4, <1>5, <1>6, <1>9 DEF CarryingOne, At
<1> QED
  BY <1>5, <1>8, <1>10 DEF Hold, Carries, CarriesOne, a, b

(* The client's attached names become those the sync kept.                 *)
LEMMA EndHold ==
  ASSUME MirrorAssumption, FormOK, CarryTyped, CallsTyped, Hold, faults' = faults,
         AttachedAll \/ DetachedAll \/ GetObstacles \/ MirrorBack
  PROVE  Hold'
<1> DEFINE a == attached[solve.group]
           b == Bodies(solve.seen)
<1>1. SolveForm /\ solve # Idle
  BY StepNotIdle, NotIdle DEF Sync
<1>2. /\ held' = held /\ solve'.seen = solve.seen /\ solve'.group = solve.group
      /\ solve' # Idle /\ solve'.keeps = solve.keeps
  BY <1>1 DEF AttachedAll, DetachedAll, GetObstacles, MirrorBack, Enter, SolveForm, Idle,
     callVars, serverVars
<1>3. several' = several
  BY DEF AttachedAll, DetachedAll, GetObstacles, MirrorBack, moveItVars, history
<1>4. HeldSet' = HeldSet
  BY <1>2 DEF HeldSet
<1>5. Carries /\ (~several => CarriesOne)
  BY DEF Hold
<1>6. CASE AttachedAll
  <2>1. /\ HeldSet \subseteq a \cup solve.keeps /\ solve.keeps \subseteq b
        /\ a \cap b \subseteq solve.keeps
        /\ ~several => AtMostOne(a \cup b) /\ a \cup solve.keeps \subseteq HeldSet
    BY <1>1, <1>5, <1>6 DEF Carries, Carrying, CarriesOne, CarryingOne, AttachedAll, Done, At
  <2>2. solve'.step = "detach" /\ solve'.todo = a \ b /\ UNCHANGED attached
    BY <1>1, <1>6 DEF AttachedAll, Enter, SolveForm, Released, clientVars
  <2> HIDE DEF a, b
  <2>3. a' = a /\ b' = b
    BY <1>2, <2>2 DEF a, b
  <2>4. Carrying(a, b)'
    BY <1>2, <1>4, <2>1, <2>2, <2>3 DEF Carrying, At
  <2>5. ~several' => CarryingOne(a, b)'
    BY <1>2, <1>3, <1>4, <2>1, <2>2, <2>3 DEF CarryingOne, At
  <2> QED
    BY <1>2, <2>4, <2>5 DEF Hold, Carries, CarriesOne, a, b
<1>7. CASE DetachedAll
  <2>1. HeldSet \subseteq solve.keeps /\ (~several => solve.keeps \subseteq HeldSet)
    BY <1>1, <1>5, <1>7 DEF Carries, Carrying, CarriesOne, CarryingOne, DetachedAll, Done, At
  <2>2. solve'.step = "list" /\ attached'[solve.group] = solve.keeps
    BY <1>1, <1>7 DEF DetachedAll, Enter, SolveForm, CarryTyped
  <2>3. Carrying(a, b)'
    BY <1>2, <1>4, <2>1, <2>2 DEF Carrying, At
  <2>4. ~several' => CarryingOne(a, b)'
    BY <1>2, <1>3, <1>4, <2>1, <2>2 DEF CarryingOne, At
  <2> QED
    BY <1>2, <2>3, <2>4 DEF Hold, Carries, CarriesOne
<1>8. CASE GetObstacles \/ MirrorBack
  <2>1. HeldSet \subseteq a /\ (~several => a \subseteq HeldSet)
    BY <1>1, <1>5, <1>8 DEF Carries, Carrying, CarriesOne, CarryingOne, GetObstacles, MirrorBack, At
  <2>2. solve'.step \in {"back", "plan"} /\ UNCHANGED attached
    BY <1>1, <1>8 DEF GetObstacles, MirrorBack, Enter, SolveForm, clientVars
  <2> HIDE DEF a, b
  <2>3. a' = a /\ b' = b
    BY <1>2, <2>2 DEF a, b
  <2>4. Carrying(a, b)'
    BY <1>4, <2>1, <2>2, <2>3 DEF Carrying, At
  <2>5. ~several' => CarryingOne(a, b)'
    BY <1>3, <1>4, <2>1, <2>2, <2>3 DEF CarryingOne, At
  <2> QED
    BY <1>2, <2>4, <2>5 DEF Hold, Carries, CarriesOne, a, b
<1> QED
  BY <1>6, <1>7, <1>8

(* HoldInv is inductive, given SyncInv.                                    *)
LEMMA HoldStep ==
  ASSUME MirrorAssumption, SyncInv, HoldInv, [Next]_vars PROVE HoldInv'
<1>0. FormOK /\ CallsTyped /\ SceneTyped /\ CarryTyped
  BY DEF SyncInv, MirrorInv, RestTyped
<1>2. SUFFICES ASSUME Sound' PROVE Hold'
  BY DEF HoldInv
<1>3. Faith /\ Hold /\ faults' = faults /\ ~mixed'
  BY <1>0, <1>2, SoundBefore DEF SyncInv, FaithInv, HoldInv, Sound
<1>4. CASE User \/ UNCHANGED vars
  <2>1. UNCHANGED <<solve, held, attached, several>>
    BY <1>4 DEF User, PutObject, DeleteObject, PickUp, PutDown, vars, moveItVars, history, callVars,
       serverVars, clientVars
  <2>2. Carries' = Carries /\ CarriesOne' = CarriesOne
    BY <2>1 DEF Carries, Carrying, CarriesOne, CarryingOne, HeldSet, InHand, At, AtMostOne
  <2> QED
    BY <1>3, <2>1, <2>2 DEF Hold
<1>5. CASE \E r \in late : LateRequest(r)
  BY <1>3, <1>5 DEF Faith, Exact
<1>6. CASE \E g \in Groups : Solve(g)
  BY <1>3, <1>6, SolveHold
<1>7. CASE Prune \/ Pruned \/ Mirror \/ Mirrored
  BY <1>0, <1>3, <1>7, MirrorHold
<1>8. CASE AttachBody \/ DetachBody
  BY <1>0, <1>3, <1>8, AttachHold, DetachHold
<1>9. CASE AttachedAll \/ DetachedAll \/ GetObstacles \/ MirrorBack
  BY <1>0, <1>3, <1>9, EndHold
<1>10. CASE Plan
  <2>1. solve # Idle /\ solve.group \in Groups /\ At("plan") /\ solve' = Idle
    BY <1>0, <1>10, StepNotIdle, NotIdle DEF Sync, Plan, SolveForm
  <2>2. \A h \in Groups : h = solve.group \/ attached[h] = {}
    BY <1>3, <2>1 DEF Faith, OneClient, Silent
  <2>3. HeldSet \subseteq InHand /\ (~several => InHand \subseteq HeldSet)
    BY <1>3, <2>1, <2>2, OneHand DEF Hold, Carries, Carrying, CarriesOne, CarryingOne, At
  <2>4. UNCHANGED <<held, attached, several>>
    BY <1>10 DEF Plan, callVars, serverVars, clientVars, moveItVars, history
  <2>5. HeldSet' = HeldSet /\ InHand' = InHand
    BY <2>4 DEF HeldSet, InHand
  <2> QED
    BY <2>1, <2>3, <2>4, <2>5 DEF Hold, Carries, CarriesOne
<1> QED
  BY <1>4, <1>5, <1>6, <1>7, <1>8, <1>9, <1>10 DEF Next, Sync

LEMMA HoldInit == ASSUME MirrorAssumption, Init PROVE HoldInv
BY DEF Init, HoldInv, Hold, Carries, CarriesOne, HeldSet, InHand

(* The attached names of the client (hpp:135) and the body the server      *)
(* holds: after a forward sync with no failed call it is one of them, and  *)
(* the only one as long as no sync met more than one body.                 *)
THEOREM AttachedAgrees == Spec => []AttachedIsHeld
<1> DEFINE Inv == SyncInv /\ HoldInv
<1>1. Init => Inv
  BY SyncInit, HoldInit, MirrorAssumption
<1>2. Inv /\ [Next]_vars => Inv'
  BY SyncStep, HoldStep, MirrorAssumption
<1>3. Inv => AttachedIsHeld
  <2> SUFFICES ASSUME HoldInv, At("plan"), Sound
               PROVE  /\ held # NoName => held \in attached[solve.group]
                      /\ ~several => attached[solve.group] \subseteq {held}
    BY DEF AttachedIsHeld
  <2>1. /\ HeldSet \subseteq attached[solve.group]
        /\ ~several => attached[solve.group] \subseteq HeldSet
    BY DEF HoldInv, Hold, Carries, Carrying, CarriesOne, CarryingOne, At, Idle
  <2> QED
    BY <2>1 DEF HeldSet
<1> QED
  BY <1>1, <1>2, <1>3, PTL DEF Spec
=============================================================================
