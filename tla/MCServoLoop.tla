----------------------------- MODULE MCServoLoop -----------------------------
(* A small instance of ServoLoop: three positions, one step per tick.        *)
EXTENDS ServoLoop

Line == 0 .. 2
Near == {0}
Far  == {2}

Watchful == [lo |-> 0, hi |-> 2, jump |-> 1, speed |-> 1, reject |-> FALSE,
             ramp |-> FALSE, accel |-> 0, qlo |-> 0, qhi |-> 2, qspeed |-> 1,
             watch |-> TRUE, escalate |-> TRUE, watchState |-> TRUE]

Shipped == {Watchful,
            [Watchful EXCEPT !.lo = 1, !.reject = TRUE, !.watchState = FALSE, !.escalate = FALSE]}
==============================================================================
