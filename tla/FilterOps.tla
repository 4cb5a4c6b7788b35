------------------------------ MODULE FilterOps ------------------------------
(***************************************************************************)
(* The arithmetic of class SafetyFilter (safety.py), one axis at a time,   *)
(* in units of one control period and one grid step.  On an axis, scaling  *)
(* a step to a cap is clamping it.  A profile p carries                    *)
(*   lo, hi    the workspace box         jump, speed  caps on a step       *)
(*   reject    workspace_action          ramp, accel  the optional cap on  *)
(*   qlo, qhi  joint limits less margin               a change of velocity *)
(*   qspeed    cap on a joint step       angle, turn  caps on a rotation   *)
(***************************************************************************)
EXTENDS Integers

Clip(x, lo, hi) == IF x < lo THEN lo ELSE IF x > hi THEN hi ELSE x

\* The step from ref to x, scaled down to cap.
Toward(ref, x, cap) == ref + Clip(x - ref, -cap, cap)

\* Faulty: a box that is only ever looked at, never applied.
Boxed_Skipped(p, x) == x

\* 2. The workspace box.
Boxed(p, x) == Clip(x, p.lo, p.hi)

\* Faulty: the speed cap taken for redundant after the jump cap.
Paced_JumpOnly(p, ref, x) == Toward(ref, x, p.jump)

\* 3., 4. Pose jump and speed, both against the previous command.
Paced(p, ref, x) == Toward(ref, Toward(ref, x, p.jump), p.speed)

\* Faulty: the velocity is ramped from the step asked for.
Ramped_FromRest(p, ref, vel, x) ==
  IF p.ramp THEN ref + Clip(x - ref, -p.accel, p.accel) ELSE x

\* 4c. The acceleration cap, last: the velocity changes by at most accel.
Ramped(p, ref, vel, x) == IF p.ramp THEN ref + Toward(vel, x - ref, p.accel) ELSE x

\* filter_cartesian: what is commanded for the target x.
Commanded(p, ref, vel, x) == Ramped(p, ref, vel, Paced(p, ref, Boxed(p, x)))

\* 1., 2. A hard stop on contact, or on leaving a box that rejects.
Refuses(p, x, contact) == contact \/ (p.reject /\ Boxed(p, x) # x)

\* The two caps on a rotation.
Turned(p, ref, a) == Toward(ref, Toward(ref, a, p.angle), p.turn)

\* Faulty: joint targets paced, but not kept within the limits.
JointCommanded_Unlimited(p, ref, x) == Toward(ref, x, p.qspeed)

\* filter_joint: the limits less their margin, then the step from the last.
JointCommanded(p, ref, x) == Toward(ref, Clip(x, p.qlo, p.qhi), p.qspeed)
==============================================================================
