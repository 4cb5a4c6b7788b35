----------------------------- MODULE SafetyFilter -----------------------------
(***************************************************************************)
(* class SafetyFilter (safety.py): the stream of commands it lets through  *)
(* as motions are begun (reset), setpoints are filtered and profiles are   *)
(* swapped, in any order.  A target and a measured state are arbitrary:    *)
(* they come from clients and from the arm.                                *)
(***************************************************************************)
EXTENDS FilterOps

CONSTANTS Targets,   \* positions that clients ask for, and that the arm can be in
          Profiles   \* safety profiles that may be selected

FilterProfile ==
  [lo : Int, hi : Int, jump : Nat, speed : Nat, reject : BOOLEAN,
   ramp : BOOLEAN, accel : Nat, angle : Nat, turn : Nat,
   qlo : Int, qhi : Int, qspeed : Nat]

ASSUME FilterAssumption ==
  /\ Targets \subseteq Int
  /\ Profiles \subseteq FilterProfile
  /\ \A d \in Profiles : d.lo <= d.hi /\ d.qlo <= d.qhi

VARIABLES p,         \* the profile
          anchored,  \* which of _prev_pose and _prev_q are set
          pos, ang,  \* _prev_pose
          vel,       \* _prev_lin_vel
          q,         \* _prev_q
          limit,     \* history: the fastest profile since the velocity was zero
          op         \* history: the method that was called last

vars == <<p, anchored, pos, ang, vel, q, limit, op>>

TypeOK ==
  /\ p \in Profiles
  /\ anchored \subseteq {"pose", "joint"}
  /\ pos \in Int /\ ang \in Int /\ vel \in Int /\ q \in Int
  /\ limit \in Nat
  /\ op \in {"reset", "profile", "cartesian", "joint"}

Init ==
  /\ p \in Profiles
  /\ anchored = {}
  /\ pos = 0 /\ ang = 0 /\ vel = 0 /\ q = 0
  /\ limit = p.speed /\ op = "reset"

-----------------------------------------------------------------------------
\* Faulty: re-anchoring that leaves the old velocity to ramp from.
Reset_KeepsVelocity(x, a, j) ==
  /\ anchored' = {"pose", "joint"}
  /\ pos' = x /\ ang' = a /\ q' = j
  /\ limit' = p.speed /\ op' = "reset"
  /\ UNCHANGED <<p, vel>>

\* reset(state): anchored to where the arm is, at rest.
Reset(x, a, j) ==
  /\ anchored' = {"pose", "joint"}
  /\ pos' = x /\ ang' = a /\ q' = j
  /\ vel' = 0 /\ limit' = p.speed /\ op' = "reset"
  /\ UNCHANGED p

SetProfile ==
  /\ p' \in Profiles
  /\ limit' = IF p'.speed > limit THEN p'.speed ELSE limit
  /\ op' = "profile"
  /\ UNCHANGED <<anchored, pos, ang, vel, q>>

\* The reference: the previous command or, before there is one, the live pose.
RefPos(live) == IF "pose" \in anchored THEN pos ELSE live
RefAng(live) == IF "pose" \in anchored THEN ang ELSE live
RefJoint(live) == IF "joint" \in anchored THEN q ELSE live

\* filter_cartesian for the target <<x, a>>, the arm at <<lx, la>>.
FilterCartesian(x, a, lx, la, contact) ==
  /\ ~Refuses(p, x, contact)
  /\ anchored' = anchored \cup {"pose"}
  /\ pos' = Commanded(p, RefPos(lx), vel, x)
  /\ ang' = Turned(p, RefAng(la), a)
  /\ vel' = pos' - RefPos(lx)
  /\ op' = "cartesian"
  /\ UNCHANGED <<p, q, limit>>

\* A refused setpoint leaves the filter as it was.
Refuse(x, contact) ==
  /\ Refuses(p, x, contact)
  /\ UNCHANGED vars

FilterJoint(x, live) ==
  /\ anchored' = anchored \cup {"joint"}
  /\ q' = JointCommanded(p, RefJoint(live), x)
  /\ op' = "joint"
  /\ UNCHANGED <<p, pos, ang, vel, limit>>

Next ==
  \/ SetProfile
  \/ \E x, a, j \in Targets : Reset(x, a, j)
  \/ \E x, a, lx, la \in Targets, contact \in BOOLEAN : FilterCartesian(x, a, lx, la, contact)
  \/ \E x \in Targets, contact \in BOOLEAN : Refuse(x, contact)
  \/ \E x, live \in Targets : FilterJoint(x, live)

Spec == Init /\ [][Next]_vars

-----------------------------------------------------------------------------
(* Properties *)

\* How far x is outside lo .. hi.
Outside(x, lo, hi) == IF x < lo THEN lo - x ELSE IF x > hi THEN x - hi ELSE 0

\* A command of filter_cartesian that follows an earlier command or a reset.
Follows == op' = "cartesian" /\ "pose" \in anchored

\* However profiles are swapped and targets jump, with or without the ramp, a
\* commanded velocity is never above the fastest profile it was ramped under
\* (safety.py:355-360, 378-391).
SpeedBounded == -limit <= vel /\ vel <= limit

\* Without the ramp a command is within both caps of the one before, the pose
\* jump and the speed, whichever is tighter (safety.py:337-360).
StepsBounded ==
  [][Follows /\ ~p.ramp =>
       /\ pos' - pos <= p.jump /\ pos - pos' <= p.jump
       /\ pos' - pos <= p.speed /\ pos - pos' <= p.speed]_vars

\* With the ramp the velocity of the stream has no step in it above the cap
\* (safety.py:374-377).
AccelBounded ==
  [][Follows /\ p.ramp => vel' - vel <= p.accel /\ vel - vel' <= p.accel]_vars

\* A command is never further outside the workspace than the one before, and
\* never outside once inside, although the caps are applied after the box
\* (safety.py:316-360); with a ramp that does not hold (StaysInBox).
BoxKept ==
  [][Follows /\ ~p.ramp => Outside(pos', p.lo, p.hi) <= Outside(pos, p.lo, p.hi)]_vars

\* The same of the joint limits less their margin (safety.py:404-422).
JointLimitsKept ==
  [][op' = "joint" /\ "joint" \in anchored
       => Outside(q', p.qlo, p.qhi) <= Outside(q, p.qlo, p.qhi)]_vars

-----------------------------------------------------------------------------
(* What is documented and does not hold; no run checks it (README, section 3).  *)

\* Workspace box: "TCP position clipped back into the box" (docs/safety.md:39),
\* whatever the profile.
StaysInBox ==
  [][Follows /\ Outside(pos, p.lo, p.hi) = 0 => Outside(pos', p.lo, p.hi) = 0]_vars
==============================================================================
