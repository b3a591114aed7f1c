---------------------------- MODULE MCTaskServer ----------------------------
(* Two tasks: one adds an object, takes it up and moves; the other, whose first
   motion is planned in a batch with another planner and in contact, picks up
   what is there already, sets it down and clears the rest.  And a task that
   picks the same object up again after it set it down. *)
EXTENDS TaskServer, TLC

Do(what, name) == [do |-> what, name |-> name]
Move(ops, by, batch, contacts) ==
  [ops |-> ops, moves |-> TRUE, planner |-> by, batch |-> batch, contacts |-> contacts]
Still(ops) ==
  [ops |-> ops, moves |-> FALSE, planner |-> Nothing, batch |-> {}, contacts |-> {}]

MCProgram ==
  "prepare" :> << Still(<<Do("add", "tray")>>),
                  Move(<<Do("attach", "tray")>>, Nothing, {}, {}) >> @@
  "pick"    :> << Move(<<Do("attach", "part")>>, "joint", {"joint", "pose"}, {"hand", "ghost"}),
                  Move(<<Do("detach", "part"), Do("remove", "tray")>>, "pose", {}, {}) >>

MCRegrasp ==
  "regrasp" :> << Move(<<Do("attach", "part")>>, Nothing, {}, {}),
                  Move(<<Do("detach", "part")>>, Nothing, {}, {}),
                  Move(<<Do("attach", "part")>>, Nothing, {}, {}) >>
=============================================================================
