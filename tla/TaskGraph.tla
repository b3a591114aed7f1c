------------------------------ MODULE TaskGraph ------------------------------
(* The task constructor's planner: a tree of stages (core/stage.py) under
   containers (core/container.py), resolved by TaskExecutor.init and driven by
   TaskExecutor.plan (executor.py).

   An interface state is an object with a semantic key: pushes and emissions
   are deduplicated by KEY, chains are threaded by OBJECT.  A state here is
   [key, id], its id standing for the Python object.  What a planner call
   returns is a nondeterministic set of keys of the states it reaches.

   The planner is one thread; the only nondeterminism is in the solver.  A
   call of a container is a frame of `stack`; the emissions a compute makes
   wait in `queue` and are lifted depth first, as the on_solution hooks do,
   before the thread goes on. *)
EXTENDS Naturals, Sequences, FiniteSets, SequencesExt, TLC

CONSTANTS Tasks,       \* the trees planned: [kind, kids, cap], stage 1 the root
          Keys,        \* semantic identities of interface states
          MaxOutputs   \* bound: solutions of one relative move from one state

Kinds == {"serial", "alternatives", "fallbacks", "independent", "ik",
          "generator", "motion", "connect", "either"}

(* A task is a tree of Python objects, numbered from the root down: every
   stage but the root is the child of one stage, at one place, with a smaller
   number.  Only containers have children, and ComputeIK the one it wraps.
   The root is a container: a task of a single stage is not modelled. *)
ASSUME TaskAssumption ==
  /\ Keys = 1 .. Cardinality(Keys) /\ IsFiniteSet(Keys)
  /\ MaxOutputs \in Nat
  /\ \A t \in Tasks :
       LET n == Len(t.kind)
       IN  /\ t = [kind |-> t.kind, kids |-> t.kids, cap |-> t.cap]
           /\ t.kind \in Seq(Kinds) /\ n > 0
           /\ t.kind[1] \in {"serial", "alternatives", "fallbacks", "independent"}
           /\ t.kids \in [1 .. n -> Seq(2 .. n)]
           /\ t.cap \in [1 .. n -> Nat]
           /\ \A s \in 1 .. n :
                /\ t.kind[s] = "ik" => Len(t.kids[s]) = 1 /\ t.kind[t.kids[s][1]] = "generator"
                /\ t.kind[s] \in {"generator", "motion", "connect", "either"} => t.kids[s] = <<>>
                /\ \A i \in DOMAIN t.kids[s] : t.kids[s][i] > s
           /\ \A k \in 2 .. n : \E s \in 1 .. n : k \in ToSet(t.kids[s])
           /\ \A r, s \in 1 .. n : \A i \in DOMAIN t.kids[r], j \in DOMAIN t.kids[s] :
                t.kids[r][i] = t.kids[s][j] => r = s /\ i = j

VARIABLES task,        \* the StageSpec tree of this goal
          face,        \* per stage <<start, end>>: "R" reads it, "W" writes it
          startPull, endPull,    \* states received from the neighbours
          starts, ends,          \* states written on the two interfaces
          fed,         \* per container, external pulls already handed down
          emitted,     \* every solution of every stage, in emission order
          failures,    \* failed attempts [stage, from, to]
          computed,    \* generators that have run
          current,     \* Fallbacks: index of the child being tried
          processed,   \* ComputeIK: candidates of the child already taken
          jobs,        \* requests deferred to an open batch session
          made,        \* interface-state objects created so far
          stack, queue, verdict

vars == <<task, face, startPull, endPull, starts, ends, fed, emitted, failures,
          computed, current, processed, jobs, made, stack, queue, verdict>>
pulls == <<startPull, endPull, fed>>
progress == <<computed, current, processed>>

Root == 1
Stages == DOMAIN task.kind
Kind(s) == task.kind[s]
Kids(s) == task.kids[s]
Serial(s) == Kind(s) = "serial"
Parallel(s) == Kind(s) \in {"alternatives", "fallbacks", "independent"}
Container(s) == Serial(s) \/ Parallel(s)
Parent(s) == CHOOSE p \in Stages : s \in ToSet(Kids(p))
Pos(p, s) == IF s \in ToSet(Kids(p)) THEN CHOOSE i \in DOMAIN Kids(p) : Kids(p)[i] = s ELSE 0

NoState == [key |-> 0, id |-> 0]

(* The members of a finite set of numbers in ascending order, and the elements
   of a sequence at the positions in a set. *)
Nth(S, n) == CHOOSE x \in S : Cardinality({y \in S : y < x}) = n - 1
Ascending(S) == [n \in 1 .. Cardinality(S) |-> Nth(S, n)]
Picked(xs, S) == [n \in 1 .. Cardinality(S) |-> xs[Nth(S, n)]]

Sols(s) == Picked(emitted, {x \in DOMAIN emitted : emitted[x].stage = s})

(* All motion children: the requests go out in one plan_batch call. *)
Batched(s) == Kind(s) = "alternatives" /\ \A k \in ToSet(Kids(s)) : Kind(k) = "motion"

-----------------------------------------------------------------------------
(* Interface resolution.  A container shows the interfaces of the leaves at
   its two borders.  What is expected of a stage at its start comes down from
   the container, or is the answer to its elder brother's end; a relative move
   that is to read its start goes forward, otherwise backward. *)
Border[x \in Stages \X {1, 2}] ==
  LET s == x[1]
  IN  IF ~Container(s) \/ Kids(s) = <<>> THEN s
      ELSE Border[<<IF x[2] = 1 \/ ~Serial(s) THEN Kids(s)[1] ELSE Last(Kids(s)), x[2]>>]

Shown(k, side, expected) ==
  CASE Kind(k) = "motion" -> IF side = 1 THEN "R" ELSE "W"
    [] Kind(k) = "connect" -> "R"
    [] Kind(k) = "either" -> IF (expected = "R") = (side = 1) THEN "R" ELSE "W"
    [] OTHER -> "W"

Expected[s \in Stages] ==
  LET p == Parent(s)
      elder == Border[<<Kids(p)[Pos(p, s) - 1], 2>>]
  IN  IF s = Root THEN "W"
      ELSE IF ~Serial(p) \/ Pos(p, s) = 1 THEN Expected[p]
      ELSE IF Shown(elder, 2, Expected[elder]) = "W" THEN "R" ELSE "W"

IO(s, side) == LET k == Border[<<s, side>>] IN Shown(k, side, Expected[k])
StartIO(s) == IO(s, 1)
EndIO(s) == IO(s, 2)

(* Every container's first child answers what is expected of the container,
   adjacent children meet (one writes what the other reads), the children of
   a parallel container agree, and the root also writes its end. *)
Resolvable ==
  /\ \A s \in Stages : Container(s) =>
       /\ Kids(s) # <<>>
       /\ StartIO(s) = Expected[s]
       /\ Serial(s) => \A i \in 1 .. Len(Kids(s)) - 1 :
                          EndIO(Kids(s)[i]) # StartIO(Kids(s)[i + 1])
       /\ Parallel(s) => \A k \in ToSet(Kids(s)) :
                          StartIO(k) = StartIO(s) /\ EndIO(k) = EndIO(s)
  /\ EndIO(Root) = "W"

Reads(s, side) == face[s][side] = "R"
Writes(s, side) == face[s][side] = "W"

Init ==
  /\ task \in Tasks
  /\ face = [s \in Stages |-> <<"-", "-">>]
  /\ startPull = [s \in Stages |-> <<>>] /\ endPull = startPull
  /\ starts = startPull /\ ends = startPull
  /\ fed = [s \in Stages |-> <<0, 0>>]
  /\ emitted = <<>> /\ failures = {} /\ computed = {}
  /\ current = [s \in Stages |-> 1] /\ processed = [s \in Stages |-> 0]
  /\ jobs = <<>> /\ made = 0
  /\ stack = <<>> /\ queue = <<>> /\ verdict = "built"

(* TaskExecutor.init: resolve the root with the GENERATE interface. *)
InitTask ==
  /\ verdict = "built"
  /\ verdict' = IF Resolvable THEN "planning" ELSE "invalid"
  /\ face' = IF Resolvable THEN [s \in Stages |-> <<StartIO(s), EndIO(s)>>] ELSE face
  /\ UNCHANGED <<task, pulls, starts, ends, emitted, failures, progress, jobs, made, stack, queue>>

-----------------------------------------------------------------------------
(* Scheduling. *)
(* Mutant: what was already handed down counts as new. *)
UnfedForever(s) ==
  \/ Reads(s, 1) /\ startPull[s] # <<>>
  \/ Reads(s, 2) /\ endPull[s] # <<>>

Unfed(s) ==
  \/ Reads(s, 1) /\ Len(startPull[s]) > fed[s][1]
  \/ Reads(s, 2) /\ Len(endPull[s]) > fed[s][2]

Can[s \in Stages] ==
  CASE Kind(s) = "generator" -> s \notin computed
    [] Kind(s) = "motion" -> startPull[s] # <<>>
    [] Kind(s) = "either" -> (IF Reads(s, 1) THEN startPull[s] ELSE endPull[s]) # <<>>
    [] Kind(s) = "connect" -> startPull[s] # <<>> /\ endPull[s] # <<>>
    [] Kind(s) = "ik" -> Can[Kids(s)[1]] \/ processed[s] < Len(Sols(Kids(s)[1]))
    [] Kind(s) = "fallbacks" ->
         \/ Unfed(s)
         \/ Sols(s) = <<>> /\ current[s] <= Len(Kids(s)) /\ Can[Kids(s)[current[s]]]
    [] OTHER -> Unfed(s) \/ \E k \in ToSet(Kids(s)) : Can[k]

(* Mutants: no dedup; only the first state of a batch is taken. *)
MergeAll(interface, xs) == interface \o xs
MergeFirst(interface, xs) == IF interface = <<>> /\ xs # <<>> THEN <<Head(xs)>> ELSE interface

(* The states of xs not yet in the interface, one per key. *)
Merge(interface, xs) ==
  interface \o Picked(xs, {i \in DOMAIN xs : /\ \A y \in ToSet(interface) : y.key # xs[i].key
                                            /\ \A j \in 1 .. i - 1 : xs[j].key # xs[i].key})

Frame(s) == [stage |-> s, at |-> 0, ran |-> FALSE]
Thread == verdict = "planning" /\ queue = <<>>
Top == Head(stack)
At(s, n) == Thread /\ stack # <<>> /\ Top.stage = s /\ Top.at = n
Goto(n, ran) == stack' = <<[Top EXCEPT !.at = n, !.ran = ran]>> \o Tail(stack)
Pop == stack' = Tail(stack)

(* TaskExecutor.plan: another pass while any stage of the tree can compute,
   and no pass after the first root solution. *)
Pass ==
  /\ Thread /\ stack = <<>> /\ Sols(Root) = <<>>
  /\ \E s \in Stages : Can[s]
  /\ stack' = <<Frame(Root)>>
  /\ UNCHANGED <<task, face, pulls, starts, ends, emitted, failures, progress, jobs, made, queue, verdict>>

Conclude ==
  /\ Thread /\ stack = <<>>
  /\ Sols(Root) # <<>> \/ \A s \in Stages : ~Can[s]
  /\ verdict' = IF Sols(Root) # <<>> THEN "solved" ELSE "failed"
  /\ UNCHANGED <<task, face, pulls, starts, ends, emitted, failures, progress, jobs, made, stack, queue>>

-----------------------------------------------------------------------------
(* Containers: entering, feeding and leaving. *)
NewStarts(s) == IF Reads(s, 1) THEN SubSeq(startPull[s], fed[s][1] + 1, Len(startPull[s])) ELSE <<>>
NewEnds(s) == IF Reads(s, 2) THEN SubSeq(endPull[s], fed[s][2] + 1, Len(endPull[s])) ELSE <<>>

(* Hand the new external states to the children that take them: the boundary
   children of a serial container, every child of a parallel one. *)
Feed(s) ==
  LET toStart == IF Serial(s) THEN {Kids(s)[1]} ELSE ToSet(Kids(s))
      toEnd == IF Serial(s) THEN {Last(Kids(s))} ELSE ToSet(Kids(s))
  IN  /\ startPull' = [k \in Stages |-> IF k \in toStart THEN Merge(startPull[k], NewStarts(s))
                                        ELSE startPull[k]]
      /\ endPull' = [k \in Stages |-> IF k \in toEnd THEN Merge(endPull[k], NewEnds(s))
                                      ELSE endPull[k]]
      /\ fed' = [fed EXCEPT ![s] = <<@[1] + Len(NewStarts(s)), @[2] + Len(NewEnds(s))>>]

(* First solution wins in a serial container and in Fallbacks: a container
   that has one returns before it feeds anything. *)
EnterSolved(s) ==
  /\ At(s, 0) /\ Kind(s) \in {"serial", "fallbacks"} /\ Sols(s) # <<>>
  /\ Pop
  /\ UNCHANGED <<task, face, pulls, starts, ends, emitted, failures, progress, jobs, made, queue, verdict>>

Enter(s) ==
  /\ At(s, 0) /\ Container(s)
  /\ Kind(s) \in {"serial", "fallbacks"} => Sols(s) = <<>>
  /\ Feed(s)
  /\ Goto(1, FALSE)
  /\ UNCHANGED <<task, face, starts, ends, emitted, failures, progress, jobs, made, queue, verdict>>

(* A container child is a call; a leaf child computes in place (below). *)
Call(s, i) ==
  /\ Container(Kids(s)[i]) \/ Kind(Kids(s)[i]) = "ik"
  /\ stack' = <<Frame(Kids(s)[i])>> \o <<[Top EXCEPT !.at = i, !.ran = TRUE]>> \o Tail(stack)
  /\ UNCHANGED <<task, face, pulls, starts, ends, emitted, failures, computed, processed, jobs, made,
                 queue, verdict>>

(* The child of s whose turn it is. *)
InOrder(s, i) ==
  /\ Kind(s) # "fallbacks" /\ Container(s)
  /\ At(s, i) /\ i \in DOMAIN Kids(s) /\ ~Top.ran

Skip(s, i) ==
  /\ InOrder(s, i) /\ ~Can[Kids(s)[i]]
  /\ Goto(i + 1, FALSE)
  /\ UNCHANGED <<task, face, pulls, starts, ends, emitted, failures, progress, jobs, made, queue, verdict>>

(* Fallbacks advances past children that cannot compute; when none is left
   it is exhausted for good. *)
Candidates(s) == {i \in DOMAIN Kids(s) : i >= current[s] /\ Can[Kids(s)[i]]}
Exhausted(s) ==
  /\ Kind(s) = "fallbacks" /\ At(s, 1) /\ ~Top.ran
  /\ Candidates(s) = {}
  /\ current' = [current EXCEPT ![s] = Len(Kids(s)) + 1]
  /\ Pop
  /\ UNCHANGED <<task, face, pulls, starts, ends, emitted, failures, computed, processed, jobs, made,
                 queue, verdict>>
Trying(s, i) ==
  /\ Kind(s) = "fallbacks" /\ At(s, 1) /\ ~Top.ran
  /\ i \in Candidates(s) /\ \A j \in Candidates(s) : i <= j

(* Child i of s runs: in turn, or as the child Fallbacks is trying. *)
Runs(s, i) ==
  \/ InOrder(s, i) /\ Can[Kids(s)[i]] /\ UNCHANGED current
  \/ Trying(s, i) /\ current' = [current EXCEPT ![s] = i]

(* Where child i's written states go: to the neighbour that reads them, or
   to the container's own interface. *)
Propagated(s, i) ==
  LET k == Kids(s)[i]
      own(side) == Writes(k, side) /\ (Parallel(s) \/ i = IF side = 1 THEN 1 ELSE Len(Kids(s)))
  IN  /\ startPull' = IF Serial(s) /\ i < Len(Kids(s)) /\ Writes(k, 2)
                      THEN [startPull EXCEPT ![Kids(s)[i + 1]] = Merge(@, ends[k])] ELSE startPull
      /\ endPull' = IF Serial(s) /\ i > 1 /\ Writes(k, 1) /\ Reads(Kids(s)[i - 1], 2)
                    THEN [endPull EXCEPT ![Kids(s)[i - 1]] = Merge(@, starts[k])] ELSE endPull
      /\ starts' = IF own(1) THEN [starts EXCEPT ![s] = Merge(@, starts[k])] ELSE starts
      /\ ends' = IF own(2) THEN [ends EXCEPT ![s] = Merge(@, ends[k])] ELSE ends

Propagate(s, i) ==
  /\ Kind(s) # "fallbacks" /\ Container(s)
  /\ At(s, i) /\ Top.ran
  /\ Propagated(s, i)
  /\ Goto(i + 1, FALSE)
  /\ UNCHANGED <<task, face, fed, emitted, failures, progress, jobs, made, queue, verdict>>

(* Mutant: the return after a child ran is missing. *)
FallbacksGoesOn(s, i) ==
  /\ Kind(s) = "fallbacks" /\ At(s, i) /\ Top.ran
  /\ Propagated(s, i)
  /\ current' = [current EXCEPT ![s] = i + 1]
  /\ Goto(1, FALSE)
  /\ UNCHANGED <<task, face, fed, emitted, failures, computed, processed, jobs, made, queue, verdict>>

(* After one child ran, Fallbacks stops for good on its first solution, moves
   on when the child is out of input, and otherwise resumes it next pass. *)
FallbacksTried(s, i) ==
  LET k == Kids(s)[i]
  IN  /\ Kind(s) = "fallbacks" /\ At(s, i) /\ Top.ran
      /\ Propagated(s, i)
      /\ current' = [current EXCEPT ![s] = IF Sols(k) # <<>> THEN Len(Kids(s)) + 1
                                           ELSE IF Can[k] THEN i ELSE i + 1]
      /\ Pop
      /\ UNCHANGED <<task, face, fed, emitted, failures, computed, processed, jobs, made, queue, verdict>>

Leave(s) ==
  /\ Container(s) /\ At(s, Len(Kids(s)) + 1) /\ jobs = <<>>
  /\ Pop
  /\ UNCHANGED <<task, face, pulls, starts, ends, emitted, failures, progress, jobs, made, queue, verdict>>

-----------------------------------------------------------------------------
(* Leaf computation. *)
Attempt(s, from, to) == [stage |-> s, from |-> from, to |-> to]
Leaf(s, a, b) == [stage |-> s, start |-> a, end |-> b, leaves |-> <<Attempt(s, a, b)>>]

(* The objects reached from the states of `work`: outcome[j] are the keys of
   the solves from work[j] that succeeded. *)
Reached(work, outcome) ==
  LET pairs == FlattenSeq([j \in DOMAIN work |->
                 LET ks == Ascending(outcome[j]) IN [x \in DOMAIN ks |-> <<work[j], ks[x]>>]])
  IN  [x \in DOMAIN pairs |-> [from |-> pairs[x][1], to |-> [key |-> pairs[x][2], id |-> made + x]]]
Failed(s, work, outcome) ==
  {Attempt(s, work[j], NoState) : j \in {i \in DOMAIN work : outcome[i] = {}}}

(* GeneratorStage: runs once per task and spawns zero-length solutions, the
   same object on both interfaces. *)
Generate(g) ==
  \E keys \in SUBSET Keys :
    LET new == Reached(<<NoState>>, <<keys>>)
        states == [x \in DOMAIN new |-> new[x].to]
    IN  /\ computed' = computed \cup {g}
        /\ starts' = [starts EXCEPT ![g] = @ \o states]
        /\ ends' = [ends EXCEPT ![g] = @ \o states]
        /\ queue' = [x \in DOMAIN states |-> Leaf(g, states[x], states[x])]
        /\ failures' = failures \cup Failed(g, <<NoState>>, <<keys>>)
        /\ made' = made + Len(states)
        /\ UNCHANGED <<pulls, processed, jobs>>

(* A propagator consumes its pull and writes the opposite interface; a motion
   stage inside a batch only builds its requests. *)
Forward(k) ==
  LET work == startPull[k]
      most == IF Kind(k) = "motion" THEN 1 ELSE MaxOutputs
  IN  /\ startPull' = [startPull EXCEPT ![k] = <<>>]
      /\ \E outcome \in [DOMAIN work -> {ks \in SUBSET Keys : Cardinality(ks) <= most}] :
           \E new \in {Reached(work, outcome)} :
               /\ ends' = [ends EXCEPT ![k] = @ \o [x \in DOMAIN new |-> new[x].to]]
               /\ queue' = [x \in DOMAIN new |-> Leaf(k, new[x].from, new[x].to)]
               /\ failures' = failures \cup Failed(k, work, outcome)
               /\ made' = made + Len(new)
      /\ UNCHANGED <<endPull, fed, starts, computed, processed, jobs>>

Backward(k) ==
  LET work == endPull[k]
  IN  /\ endPull' = [endPull EXCEPT ![k] = <<>>]
      /\ \E outcome \in [DOMAIN work -> {ks \in SUBSET Keys : Cardinality(ks) <= MaxOutputs}] :
           \E new \in {Reached(work, outcome)} :
               /\ starts' = [starts EXCEPT ![k] = @ \o [x \in DOMAIN new |-> new[x].to]]
               /\ queue' = [x \in DOMAIN new |-> Leaf(k, new[x].to, new[x].from)]
               /\ failures' = failures \cup Failed(k, work, outcome)
               /\ made' = made + Len(new)
      /\ UNCHANGED <<startPull, fed, ends, computed, processed, jobs>>

Defer(k) ==
  /\ jobs' = jobs \o [j \in DOMAIN startPull[k] |-> [stage |-> k, from |-> startPull[k][j]]]
  /\ startPull' = [startPull EXCEPT ![k] = <<>>]
  /\ UNCHANGED <<endPull, fed, starts, ends, failures, computed, processed, made, queue>>

(* Connect tries every pair it holds and consumes both sides. *)
Join(k) ==
  LET n == Len(endPull[k])
      pairs == [x \in 1 .. Len(startPull[k]) * n |->
                  <<startPull[k][((x - 1) \div n) + 1], endPull[k][((x - 1) % n) + 1]>>]
  IN  /\ \E good \in SUBSET DOMAIN pairs :
           /\ LET joined == Picked(pairs, good)
              IN  queue' = [x \in DOMAIN joined |-> Leaf(k, joined[x][1], joined[x][2])]
           /\ failures' = failures \cup {Attempt(k, pairs[x][1], pairs[x][2]) : x \in DOMAIN pairs \ good}
      /\ startPull' = [startPull EXCEPT ![k] = <<>>]
      /\ endPull' = [endPull EXCEPT ![k] = <<>>]
      /\ UNCHANGED <<fed, starts, ends, computed, processed, jobs, made>>

ComputeLeaf(s, i) ==
  LET k == Kids(s)[i]
  IN  /\ \/ Kind(k) = "generator" /\ Generate(k)
         \/ Kind(k) = "connect" /\ Join(k)
         \/ Kind(k) = "motion" /\ ~Batched(s) /\ Forward(k)
         \/ Kind(k) = "motion" /\ Batched(s) /\ Defer(k)
         \/ Kind(k) = "either" /\ Reads(k, 1) /\ Forward(k)
         \/ Kind(k) = "either" /\ Writes(k, 1) /\ Backward(k)
      /\ Goto(i, TRUE)
      /\ UNCHANGED <<task, face, emitted, verdict>>

RunChild(s, i) == Runs(s, i) /\ (Call(s, i) \/ ComputeLeaf(s, i))

(* A service call outside the stage's own try (fk, ik, a pose lookup) raises
   out of compute(), of every container and of TaskExecutor.plan. *)
StageRaises(s, i) ==
  /\ Runs(s, i) /\ Kind(Kids(s)[i]) \in {"generator", "either"}
  /\ verdict' = "raised" /\ stack' = <<>>
  /\ UNCHANGED <<task, face, pulls, starts, ends, emitted, failures, computed, processed, jobs, made, queue>>

(* _BatchSession.flush, in the finally of Alternatives.compute: every child
   has been propagated by then. *)
Flush(s) ==
  /\ Container(s) /\ At(s, Len(Kids(s)) + 1) /\ jobs # <<>>
  /\ \E outcome \in [DOMAIN jobs -> {ks \in SUBSET Keys : Cardinality(ks) <= 1}] :
       LET new == Reached(jobs, outcome)
           of(k) == Picked(new, {x \in DOMAIN new : new[x].from.stage = k})
       IN  /\ ends' = [k \in Stages |-> ends[k] \o [x \in DOMAIN of(k) |-> of(k)[x].to]]
           /\ queue' = [x \in DOMAIN new |-> Leaf(new[x].from.stage, new[x].from.from, new[x].to)]
           /\ failures' = failures \cup {Attempt(jobs[j].stage, jobs[j].from, NoState) :
                                           j \in {i \in DOMAIN jobs : outcome[i] = {}}}
           /\ made' = made + Len(new)
  /\ jobs' = <<>>
  /\ UNCHANGED <<task, face, pulls, starts, emitted, progress, stack, verdict>>

(* ComputeIK: run the wrapped generator once, then solve its candidates until
   the cap on solutions is met. *)
IkChild(s) ==
  /\ Kind(s) = "ik" /\ At(s, 0)
  /\ IF Can[Kids(s)[1]] THEN Generate(Kids(s)[1])
     ELSE UNCHANGED <<pulls, starts, ends, computed, processed, failures, jobs, made, queue>>
  /\ Goto(1, FALSE)
  /\ UNCHANGED <<task, face, emitted, current, verdict>>

IkCandidates(s) ==
  LET todo == SubSeq(Sols(Kids(s)[1]), processed[s] + 1, Len(Sols(Kids(s)[1])))
      full(good) == task.cap[s] > 0 /\ Len(Sols(s)) + Cardinality(good) >= task.cap[s]
  IN  /\ Kind(s) = "ik" /\ At(s, 1)
      /\ \E taken \in 0 .. Len(todo), good \in SUBSET (1 .. Len(todo)) :
           /\ good \subseteq 1 .. taken
           /\ \A t \in 0 .. taken - 1 : ~full(good \cap 1 .. t)
           /\ taken = Len(todo) \/ full(good)
           /\ LET solved == Picked(todo, good)
                  new == [x \in DOMAIN solved |-> [key |-> solved[x].start.key, id |-> made + x]]
              IN  /\ starts' = [starts EXCEPT ![s] = Merge(@, new)]
                  /\ ends' = [ends EXCEPT ![s] = Merge(@, new)]
                  /\ queue' = [x \in DOMAIN new |-> Leaf(s, new[x], new[x])]
                  /\ made' = made + Len(new)
           /\ failures' = failures \cup {Attempt(s, todo[t].start, NoState) : t \in (1 .. taken) \ good}
           /\ processed' = [processed EXCEPT ![s] = @ + taken]
      /\ Pop
      /\ UNCHANGED <<task, face, pulls, emitted, computed, current, jobs, verdict>>

-----------------------------------------------------------------------------
(* Emission and chain composition. *)

(* Which solutions of p's children meet: x ends at the object y, of a later
   child, starts at. *)
Place(p, all, x) == Pos(p, all[x].stage)
Links(p, all) ==
  LET children == {x \in DOMAIN all : all[x].stage \in ToSet(Kids(p))}
  IN  {link \in children \X children :
         /\ all[link[1]].end = all[link[2]].start
         /\ Place(p, all, link[1]) < Place(p, all, link[2])}

(* _traces: the paths along the links that lead from a solution on to child
   `edge`, outward. *)
Traces(p, all, links, edge) ==
  LET paths[x \in DOMAIN all] ==
        IF Place(p, all, x) = edge THEN {<<>>}
        ELSE UNION {{<<link[2]>> \o rest : rest \in paths[link[2]]} : link \in {l \in links : l[1] = x}}
  IN  paths[Len(all)]

Composed(all, path) ==
  LET at == Reverse(path[1]) \o <<Len(all)>> \o path[2]
  IN  [stage |-> Parent(Last(all).stage), start |-> all[at[1]].start, end |-> all[Last(at)].end,
       leaves |-> FlattenSeq([x \in DOMAIN at |-> all[at[x]].leaves])]

(* The order of the nested loops: paths are tried as their solutions came. *)
Earlier(a, b) ==
  LET u == a[1] \o a[2]  v == b[1] \o b[2]
  IN  \E n \in DOMAIN u \cap DOMAIN v : u[n] < v[n] /\ \A m \in 1 .. n - 1 : u[m] = v[m]

Lifted(all, paths) ==
  \E order \in [1 .. Cardinality(paths) -> paths] :
    /\ \A m, n \in DOMAIN order : m < n => Earlier(order[m], order[n])
    /\ queue' = [n \in DOMAIN order |-> Composed(all, order[n])] \o Tail(queue)

(* Mutant: chains are composed when the last child's solution arrives, never
   when an earlier child's does. *)
OnLastSolution(p, all) ==
  \E links \in {Links(p, all)} :
  \E paths \in {IF Last(all).stage # Last(Kids(p)) THEN {}
                 ELSE Traces(p, all, {<<l[2], l[1]>> : l \in links}, 1) \X {<<>>}} :
    Lifted(all, paths)

(* _on_child_solution: a serial container lifts every complete chain through
   the newest solution. *)
OnChildSolution(p, all) ==
  \E links \in {Links(p, all)} :
  \E paths \in {Traces(p, all, {<<l[2], l[1]>> : l \in links}, 1)
                  \X Traces(p, all, links, Len(Kids(p)))} :
    Lifted(all, paths)

Lift(all) ==
  LET sol == Last(all)
      p == Parent(sol.stage)
  IN  IF sol.stage = Root THEN queue' = Tail(queue)
      ELSE IF Serial(p) THEN OnChildSolution(p, all)
      ELSE queue' = IF Parallel(p) THEN <<[sol EXCEPT !.stage = p]>> \o Tail(queue)
                    ELSE Tail(queue)

(* Mutant: every emission counts, the dedup by key forgotten. *)
KnownNever(sol) == sol \in ToSet(emitted)

(* Stage._emit: a stage's second solution between equal keys is dropped. *)
Known(sol) == \E x \in ToSet(emitted) :
  /\ x.stage = sol.stage
  /\ x.start.key = sol.start.key /\ x.end.key = sol.end.key

Emit ==
  /\ verdict = "planning" /\ queue # <<>>
  /\ IF Known(Head(queue)) THEN queue' = Tail(queue) /\ UNCHANGED emitted
     ELSE \E all \in {Append(emitted, Head(queue))} : emitted' = all /\ Lift(all)
  /\ UNCHANGED <<task, face, pulls, starts, ends, failures, progress, jobs, made, stack, verdict>>

ContainerStep(s) == EnterSolved(s) \/ Enter(s) \/ Exhausted(s) \/ Leave(s) \/ Flush(s)
ChildStep(s, i) == Skip(s, i) \/ RunChild(s, i) \/ Propagate(s, i) \/ FallbacksTried(s, i)
Plan ==
  \/ InitTask \/ Pass \/ Conclude \/ Emit
  \/ \E s \in Stages : ContainerStep(s) \/ IkChild(s) \/ IkCandidates(s)
  \/ \E s \in Stages : \E i \in DOMAIN Kids(s) : ChildStep(s, i)
Next == Plan \/ \E s \in Stages : \E i \in DOMAIN Kids(s) : StageRaises(s, i)

(* One thread runs the task, and every solver call returns: the services it
   awaits have a timeout. *)
Spec == Init /\ [][Next]_vars
FairSpec == Spec /\ WF_vars(Plan)

-----------------------------------------------------------------------------
(* The task's data is well formed: interfaces hold one state per key, and the
   counters of what was already taken stay inside what there is. *)
Distinct(xs) == \A i, j \in DOMAIN xs : i # j => xs[i].key # xs[j].key
TaskTypeOK ==
  /\ verdict \in {"built", "invalid", "planning", "solved", "failed", "raised"}
  /\ \A s \in Stages :
       /\ Distinct(startPull[s]) /\ Distinct(endPull[s])
       /\ Container(s) => Distinct(starts[s]) /\ Distinct(ends[s])
       /\ fed[s][1] <= Len(startPull[s]) /\ fed[s][2] <= Len(endPull[s])
       /\ current[s] \in 1 .. Len(Kids(s)) + 1
       /\ Kind(s) = "ik" => processed[s] <= Len(Sols(Kids(s)[1]))
  /\ queue # <<>> \/ stack # <<>> => verdict = "planning"

(* A stage and the containers around it, and what is under a stage. *)
Line[s \in Stages] == {s} \cup IF s = Root THEN {} ELSE Line[Parent(s)]
Subtree(s) == {k \in Stages : s \in Line[k]}

(* The leaves of a solution that are under child k. *)
From(sol, k) == {x \in DOMAIN sol.leaves : k \in Line[sol.leaves[x].stage]}

(* A solution can be executed: each segment starts at the very object the one
   before it ended at, and a serial container's children come in order. *)
SolutionsAreLinked == \A sol \in ToSet(emitted) :
  LET L == sol.leaves
      kids == Kids(sol.stage)
  IN  /\ L # <<>> /\ L[1].from = sol.start /\ Last(L).to = sol.end
      /\ \A x \in 1 .. Len(L) - 1 : L[x].to = L[x + 1].from
      /\ Serial(sol.stage) => \A i, j \in DOMAIN kids : j < i =>
           \A x \in From(sol, kids[j]), y \in From(sol, kids[i]) : x < y

(* Every solution is an executable chain, and a serial container's solution
   holds a contribution of each of its children.  The lookup by object also
   finds paths that jump over a zero-length generator; only the order of
   emission and the dedup by key keep them out. *)
SolutionsAreChains ==
  /\ SolutionsAreLinked
  /\ \A sol \in ToSet(emitted) : Serial(sol.stage) =>
       \A k \in ToSet(Kids(sol.stage)) : From(sol, k) # {}

(* Fallbacks commits: its solutions come from one child, and no child after
   that one has attempted anything. *)
Attempted(s) == \E k \in Subtree(s) :
  (\E f \in failures : f.stage = k) \/ Sols(k) # <<>>
FallbacksCommits == \A s \in Stages : Kind(s) = "fallbacks" =>
  \A i \in DOMAIN Kids(s) : Sols(Kids(s)[i]) # <<>> =>
    \A j \in i + 1 .. Len(Kids(s)) : ~Attempted(Kids(s)[j])

(* A child of a container received a state when it holds it or has attempted
   something from it (to it). *)
Received[x \in Stages \X {1, 2} \X Keys] ==
  LET k == x[1]  side == x[2]  key == x[3]
  IN  CASE Serial(k) -> Received[<<IF side = 1 THEN Kids(k)[1] ELSE Last(Kids(k)), side, key>>]
        [] Parallel(k) -> \A c \in ToSet(Kids(k)) : Received[<<c, side, key>>]
        [] OTHER -> \/ \E y \in ToSet(IF side = 1 THEN startPull[k] ELSE endPull[k]) : y.key = key
                    \/ \E f \in failures : f.stage = k /\ key \in {f.from.key, f.to.key}
                    \/ \E y \in ToSet(Sols(k)) : key = IF side = 1 THEN y.start.key ELSE y.end.key

(* Planning gives up only when nothing was withheld: every state a child of a
   serial container wrote reached the neighbour that reads it.  Batched
   Alternatives are not counted: the ends of a batch are written after its
   children were propagated, and nobody gets them. *)
NothingWithheld == verdict = "failed" =>
  \A s \in Stages : Serial(s) => \A i \in 1 .. Len(Kids(s)) - 1 :
    LET a == Kids(s)[i]  b == Kids(s)[i + 1]
    IN  /\ Writes(a, 2) /\ (\A k \in Subtree(a) : ~Batched(k)) =>
             \A x \in ToSet(Sols(a)) : Received[<<b, 1, x.end.key>>]
        /\ Writes(b, 1) => \A x \in ToSet(Sols(b)) : Received[<<a, 2, x.start.key>>]

(* A child of the root has written two objects with one key, one of which a
   solution of it leads to: its neighbour is handed one of them, and a chain
   through the other one is cut. *)
Merged == \E k \in ToSet(Kids(Root)) : \E x \in ToSet(Sols(k)) :
  \/ Writes(k, 1) /\ \E o \in ToSet(starts[k]) : o.key = x.start.key /\ o # x.start
  \/ Writes(k, 2) /\ \E o \in ToSet(ends[k]) : o.key = x.end.key /\ o # x.end

(* Planning gives up only when there is no solution: the states a serial root's
   children reach, each from where the one before it ends, die out; one key is
   as good as another object with it, unless states were merged.  A parallel
   root gives up only when none of its children has a solution. *)
Reach[i \in DOMAIN Kids(Root)] ==
  {x.end : x \in {y \in ToSet(Sols(Kids(Root)[i])) :
     i = 1 \/ \E r \in Reach[i - 1] : r = y.start \/ (~Merged /\ r.key = y.start.key)}}
FailureIsReal == verdict = "failed" =>
  IF Serial(Root) THEN Reach[Len(Kids(Root))] = {}
  ELSE \A k \in ToSet(Kids(Root)) : Sols(k) = <<>>

(* Input nobody will take: the stage, or a container around it, is committed
   to a solution, is a ComputeIK at its cap, or is a variant Fallbacks has
   moved past. *)
Abandoned[s \in Stages] ==
  \/ Kind(s) \in {"serial", "fallbacks"} /\ Sols(s) # <<>>
  \/ Kind(s) = "ik" /\ task.cap[s] > 0 /\ Len(Sols(s)) >= task.cap[s]
  \/ s # Root /\ Abandoned[Parent(s)]
  \/ s # Root /\ Kind(Parent(s)) = "fallbacks" /\ Pos(Parent(s), s) < current[Parent(s)]
Starved == verdict = "planning" /\ \E s \in Stages : Abandoned[s] /\ Can[s]

(* Planning ends, unless a committed container leaves input behind. *)
PlanEndsUnlessStarved == <>(verdict \notin {"built", "planning"} \/ Starved)
=============================================================================
