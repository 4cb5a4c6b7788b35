------------------------------ MODULE MCRtServer ------------------------------
(* A small instance of RtServer: an arm that starts outside the box. *)
EXTENDS RtServer

Sent   == {[pose |-> 0, ff |-> 1], [pose |-> 3, ff |-> 2], [pose |-> 2, ff |-> 0]}
Starts == {3}
================================================================================
