----------------------------- MODULE MCTaskGraph -----------------------------
(* TaskGraph on small trees.  Stage 1 is the root; stages are numbered depth
   first, as TaskExecutor.init numbers them. *)
EXTENDS TaskGraph

Tree(kind, kids, cap) == [kind |-> kind, kids |-> kids, cap |-> [s \in DOMAIN kind |-> cap]]

(* current state, connect, grasp candidates under ComputeIK, lift *)
Pick == Tree(
  <<"serial", "generator", "connect", "ik", "generator", "either">>,
  << <<2, 3, 4, 6>>, <<>>, <<>>, <<5>>, <<>>, <<>> >>, 0)

(* ComputeIK stopped at its first solution *)
Capped == Tree(<<"serial", "generator", "connect", "ik", "generator">>,
               << <<2, 3, 4>>, <<>>, <<>>, <<5>>, <<>> >>, 1)

(* the grasp container between two motions: its approach runs backward *)
Approach == Tree(
  <<"serial", "generator", "connect", "serial", "either", "generator">>,
  << <<2, 3, 4>>, <<>>, <<>>, <<5, 6>>, <<>>, <<>> >>, 0)

(* variants of one move, then nothing after them *)
Variants == Tree(
  <<"serial", "generator", "fallbacks", "serial", "either", "motion", "motion">>,
  << <<2, 3>>, <<>>, <<4, 7>>, <<5, 6>>, <<>>, <<>>, <<>> >>, 0)

(* parallel children in the middle of a task, and batched at its end *)
Independent == Tree(
  <<"serial", "generator", "independent", "either", "motion", "motion">>,
  << <<2, 3, 6>>, <<>>, <<4, 5>>, <<>>, <<>>, <<>> >>, 0)
Batch == Tree(
  <<"serial", "generator", "alternatives", "motion", "motion">>,
  << <<2, 3>>, <<>>, <<4, 5>>, <<>>, <<>> >>, 0)

Choose == Tree(
  <<"serial", "generator", "alternatives", "serial", "either", "motion", "serial", "motion">>,
  << <<2, 3>>, <<>>, <<4, 7>>, <<5, 6>>, <<>>, <<>>, <<8>>, <<>> >>, 0)

(* two generators do not connect *)
Malformed == Tree(<<"serial", "generator", "generator">>, << <<2, 3>>, <<>>, <<>> >>, 0)

(* variants with a stage after them that may fail *)
Trailing == Tree(
  <<"serial", "generator", "fallbacks", "motion", "motion", "motion">>,
  << <<2, 3, 6>>, <<>>, <<4, 5>>, <<>>, <<>>, <<>> >>, 0)

(* the ends a connect and a backward Fallbacks receive arrive in two passes *)
Late == Tree(
  <<"serial", "generator", "connect", "fallbacks", "either",
    "alternatives", "ik", "generator", "serial", "either", "generator">>,
  << <<2, 3, 4, 6>>, <<>>, <<>>, <<5>>, <<>>,
     <<7, 9>>, <<8>>, <<>>, <<10, 11>>, <<>>, <<>> >>, 0)

(* a move that reaches one place from every grasp *)
Home == Tree(
  <<"serial", "generator", "connect", "generator", "motion", "motion">>,
  << <<2, 3, 4, 5, 6>>, <<>>, <<>>, <<>>, <<>>, <<>> >>, 0)

(* a stage after a batch *)
Starving == Tree(
  <<"serial", "generator", "alternatives", "motion", "motion", "motion">>,
  << <<2, 3, 6>>, <<>>, <<4, 5>>, <<>>, <<>>, <<>> >>, 0)

(* two whole plans, the second only if the first fails *)
Plans == Tree(
  <<"fallbacks", "serial", "generator", "motion", "serial", "generator", "motion">>,
  << <<2, 5>>, <<3, 4>>, <<>>, <<>>, <<6, 7>>, <<>>, <<>> >>, 0)

MCTasks == {Pick, Capped, Approach, Variants, Independent, Batch, Choose,
            Malformed, Trailing, Late, Home, Starving, Plans}
=============================================================================
