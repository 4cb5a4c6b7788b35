---------------------------- MODULE MCSafetyFilter ----------------------------
(* A small instance of SafetyFilter: a slow and a fast profile without a ramp,
   one that rejects, and one with a ramp.                                      *)
EXTENDS SafetyFilter

Base == [lo |-> 1, hi |-> 4, jump |-> 3, speed |-> 2, reject |-> FALSE,
         ramp |-> FALSE, accel |-> 0, angle |-> 1, turn |-> 1,
         qlo |-> 1, qhi |-> 3, qspeed |-> 1]

Reach  == 0 .. 5
Shipped == {Base,
            [Base EXCEPT !.lo = 2, !.hi = 3, !.jump = 1, !.speed = 3, !.reject = TRUE],
            [Base EXCEPT !.hi = 3, !.jump = 4, !.speed = 3, !.ramp = TRUE, !.accel = 1]}
===============================================================================
