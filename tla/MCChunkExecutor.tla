--------------------------- MODULE MCChunkExecutor ---------------------------
(* A small instance of ChunkExecutor: chunks of up to three waypoints.        *)
EXTENDS ChunkExecutor

Way(dist, frames, grip) == [dist |-> dist, frames |-> frames, grip |-> grip]

Plain == [kind |-> "cartesian", ways |-> <<Way(1, 1, None)>>, execute |-> None,
          speed |-> None, allow |-> 0, guard |-> None, gated |-> FALSE]

\* Closes that follow each other at once, after a while, and an opening in between.
Grasping == [Plain EXCEPT !.gated = TRUE, !.speed = 3,
             !.ways = <<Way(0, 1, "close"), Way(0, 2, "close"), Way(1, 1, "grasp")>>]
Placing  == [Plain EXCEPT !.gated = TRUE, !.allow = 3,
             !.ways = <<Way(0, 1, "close"), Way(0, 4, "open"), Way(0, 4, "grasp")>>]
Blind    == [Plain EXCEPT !.ways = <<Way(1, 1, "grasp"), Way(0, 1, "close")>>, !.execute = 1]
Carrying == [Plain EXCEPT !.allow = 1, !.guard = 4, !.speed = 1, !.ways = <<Way(1, 1, None)>>]
Swing    == [Plain EXCEPT !.kind = "joint", !.allow = 1, !.ways = <<Way(2, 1, None), Way(0, 1, None)>>]

Handed == {Grasping, Placing, Blind, Carrying, Swing}
Known  == {[speed |-> 2, guard |-> 2, allow |-> 2], [speed |-> 1, guard |-> 5, allow |-> 0]}
Felt   == {0, 3, 9}
==============================================================================
