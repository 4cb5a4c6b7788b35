------------------------------ MODULE MCRosNode ------------------------------
(* A small instance of RosNode; its threads are interchangeable. *)
EXTENDS RosNode, TLC

Asked == {"NRT_JOINT", "RT_CARTESIAN"}
Alike == Permutations(Workers)
===============================================================================
