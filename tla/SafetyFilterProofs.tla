-------------------------- MODULE SafetyFilterProofs --------------------------
(***************************************************************************)
(* Theorems about the safety filter, for any profiles and any targets.     *)
(***************************************************************************)
EXTENDS SafetyFilter, TLAPS

-----------------------------------------------------------------------------
(* The clamps *)

\* A clamp stays in its range and moves its argument no further than it must.
LEMMA ClipRange ==
  ASSUME NEW x \in Int, NEW lo \in Int, NEW hi \in Int, lo <= hi
  PROVE  /\ Clip(x, lo, hi) \in Int
         /\ lo <= Clip(x, lo, hi) /\ Clip(x, lo, hi) <= hi
         /\ x <= hi => Clip(x, lo, hi) >= x
         /\ x >= lo => Clip(x, lo, hi) <= x
  BY DEF Clip

\* A capped step (safety.py:339-340, 356-358) is within the cap of ref, and on
\* the way from ref to x.
LEMMA TowardRange ==
  ASSUME NEW ref \in Int, NEW x \in Int, NEW cap \in Nat
  PROVE  /\ Toward(ref, x, cap) \in Int
         /\ Toward(ref, x, cap) - ref <= cap
         /\ ref - Toward(ref, x, cap) <= cap
         /\ x >= ref => ref <= Toward(ref, x, cap) /\ Toward(ref, x, cap) <= x
         /\ x <= ref => x <= Toward(ref, x, cap) /\ Toward(ref, x, cap) <= ref
  BY DEF Toward, Clip

\* A step within both caps, on the way from ref to x.
LEMMA PacedRange ==
  ASSUME NEW d \in FilterProfile, NEW ref \in Int, NEW x \in Int
  PROVE  /\ Paced(d, ref, x) \in Int
         /\ Paced(d, ref, x) - ref <= d.jump /\ ref - Paced(d, ref, x) <= d.jump
         /\ Paced(d, ref, x) - ref <= d.speed /\ ref - Paced(d, ref, x) <= d.speed
         /\ x >= ref => ref <= Paced(d, ref, x) /\ Paced(d, ref, x) <= x
         /\ x <= ref => x <= Paced(d, ref, x) /\ Paced(d, ref, x) <= ref
<1>1. d.jump \in Nat /\ d.speed \in Nat
  BY DEF FilterProfile
<1> DEFINE y == Toward(ref, x, d.jump)
           z == Toward(ref, y, d.speed)
<1>2. /\ y \in Int /\ y - ref <= d.jump /\ ref - y <= d.jump
      /\ x >= ref => ref <= y /\ y <= x
      /\ x <= ref => x <= y /\ y <= ref
  BY <1>1, TowardRange
<1>3. /\ z \in Int /\ z - ref <= d.speed /\ ref - z <= d.speed
      /\ y >= ref => ref <= z /\ z <= y
      /\ y <= ref => y <= z /\ z <= ref
  <2> HIDE DEF y
  <2> QED
    BY <1>1, <1>2, TowardRange
<1>4. Paced(d, ref, x) = z
  BY DEF Paced
<1> HIDE DEF y, z
<1>5. QED
  BY <1>1, <1>2, <1>3, <1>4

\* What filter_cartesian commands: without a ramp the paced step, with one a
\* step whose velocity is between the last one and the paced one.
LEMMA CommandedRange ==
  ASSUME NEW d \in FilterProfile, d.lo <= d.hi,
         NEW ref \in Int, NEW v \in Int, NEW x \in Int
  PROVE  LET b == Boxed(d, x)
             y == Paced(d, ref, b)
             z == Commanded(d, ref, v, x)
         IN  /\ b \in Int /\ d.lo <= b /\ b <= d.hi
             /\ z \in Int
             /\ ~d.ramp => z = y
             /\ d.ramp => /\ (z - ref) - v <= d.accel /\ v - (z - ref) <= d.accel
                          /\ y - ref >= v => v <= z - ref /\ z - ref <= y - ref
                          /\ y - ref <= v => y - ref <= z - ref /\ z - ref <= v
<1>1. d.lo \in Int /\ d.hi \in Int /\ d.accel \in Nat
  BY DEF FilterProfile
<1> DEFINE b == Boxed(d, x)
           y == Paced(d, ref, b)
           z == Commanded(d, ref, v, x)
           w == Toward(v, y - ref, d.accel)
<1>2. b \in Int /\ d.lo <= b /\ b <= d.hi
  BY <1>1, ClipRange DEF Boxed
<1>3. y \in Int
  <2> HIDE DEF b
  <2> QED
    BY <1>2, PacedRange
<1>4. z = IF d.ramp THEN ref + w ELSE y
  BY DEF Commanded, Ramped
<1>5. /\ w \in Int /\ w - v <= d.accel /\ v - w <= d.accel
      /\ y - ref >= v => v <= w /\ w <= y - ref
      /\ y - ref <= v => y - ref <= w /\ w <= v
  <2> HIDE DEF y
  <2>1. y - ref \in Int
    BY <1>3
  <2> QED
    BY <1>1, <2>1, TowardRange
<1> HIDE DEF b, y, z, w
<1>6. d.ramp => z - ref = w
  BY <1>4, <1>5
<1>7. /\ z \in Int
      /\ ~d.ramp => z = y
      /\ d.ramp => /\ (z - ref) - v <= d.accel /\ v - (z - ref) <= d.accel
                   /\ y - ref >= v => v <= z - ref /\ z - ref <= y - ref
                   /\ y - ref <= v => y - ref <= z - ref /\ z - ref <= v
  BY <1>3, <1>4, <1>5, <1>6
<1>8. QED
  BY <1>2, <1>7 DEF b, y, z

-----------------------------------------------------------------------------
(* The filter *)

Inv == TypeOK /\ SpeedBounded /\ p.speed <= limit

\* The references a step starts from are numbers.
LEMMA Refs ==
  ASSUME TypeOK, NEW live \in Targets
  PROVE  RefPos(live) \in Int /\ RefAng(live) \in Int /\ RefJoint(live) \in Int
  BY FilterAssumption DEF TypeOK, RefPos, RefAng, RefJoint

\* A step of filter_cartesian, in the terms of CommandedRange.
LEMMA CartesianStep ==
  ASSUME TypeOK, NEW x \in Targets, NEW a \in Targets, NEW lx \in Targets,
         NEW la \in Targets, NEW contact \in BOOLEAN,
         FilterCartesian(x, a, lx, la, contact)
  PROVE  /\ pos' \in Int /\ ang' \in Int /\ vel' \in Int
         /\ vel' = pos' - RefPos(lx)
         /\ \E b \in Int :
              /\ p.lo <= b /\ b <= p.hi
              /\ ~p.ramp => pos' = Paced(p, RefPos(lx), b)
              /\ p.ramp =>
                   /\ vel' - vel <= p.accel /\ vel - vel' <= p.accel
                   /\ \/ vel <= vel' /\ vel' <= Paced(p, RefPos(lx), b) - RefPos(lx)
                      \/ Paced(p, RefPos(lx), b) - RefPos(lx) <= vel' /\ vel' <= vel
<1> DEFINE ref == RefPos(lx)
           b   == Boxed(p, x)
<1>1. p \in FilterProfile /\ p.lo <= p.hi /\ x \in Int /\ a \in Int /\ vel \in Int
  BY FilterAssumption DEF TypeOK
<1>2. ref \in Int /\ RefAng(la) \in Int
  BY Refs
<1>3. pos' = Commanded(p, ref, vel, x) /\ vel' = pos' - ref /\ ang' = Turned(p, RefAng(la), a)
  BY DEF FilterCartesian
<1>4. ang' \in Int
  <2>1. p.angle \in Nat /\ p.turn \in Nat
    BY <1>1 DEF FilterProfile
  <2>2. Toward(RefAng(la), a, p.angle) \in Int
    BY <1>1, <1>2, <2>1, TowardRange
  <2>3. QED
    BY <1>2, <1>3, <2>1, <2>2, TowardRange DEF Turned
<1> HIDE DEF ref
<1>5. /\ b \in Int /\ p.lo <= b /\ b <= p.hi
      /\ pos' \in Int
      /\ ~p.ramp => pos' = Paced(p, ref, b)
      /\ p.ramp => /\ (pos' - ref) - vel <= p.accel /\ vel - (pos' - ref) <= p.accel
                   /\ Paced(p, ref, b) - ref >= vel =>
                        vel <= pos' - ref /\ pos' - ref <= Paced(p, ref, b) - ref
                   /\ Paced(p, ref, b) - ref <= vel =>
                        Paced(p, ref, b) - ref <= pos' - ref /\ pos' - ref <= vel
  BY <1>1, <1>2, <1>3, CommandedRange
<1> HIDE DEF b
<1>6. Paced(p, ref, b) \in Int
  BY <1>1, <1>2, <1>5, PacedRange
<1>7. QED
  BY <1>1, <1>2, <1>3, <1>4, <1>5, <1>6 DEF ref

\* Type correctness of the filter, and the velocity bound it needs to hold.
LEMMA Start == Init => Inv
<1> SUFFICES ASSUME Init PROVE Inv
  OBVIOUS
<1>1. p \in FilterProfile
  BY FilterAssumption DEF Init
<1>2. p.speed \in Nat
  BY <1>1 DEF FilterProfile
<1>3. QED
  BY <1>2 DEF Init, Inv, TypeOK, SpeedBounded

LEMMA Step == ASSUME Inv, [Next]_vars PROVE Inv'
<1>1. p \in FilterProfile /\ p.speed \in Nat /\ limit \in Nat
  BY FilterAssumption DEF Inv, TypeOK, FilterProfile
<1>2. CASE SetProfile
  <2>1. p' \in Profiles /\ p' \in FilterProfile
    BY <1>2, FilterAssumption DEF SetProfile
  <2>2. p'.speed \in Nat
    BY <2>1 DEF FilterProfile
  <2>3. limit' \in Nat /\ limit <= limit' /\ p'.speed <= limit'
    BY <1>1, <1>2, <2>2 DEF SetProfile
  <2>4. QED
    BY <1>1, <1>2, <2>1, <2>2, <2>3 DEF SetProfile, Inv, TypeOK, SpeedBounded
<1>3. ASSUME NEW x \in Targets, NEW a \in Targets, NEW j \in Targets, Reset(x, a, j)
      PROVE  Inv'
  BY <1>1, <1>3, FilterAssumption DEF Reset, Inv, TypeOK, SpeedBounded
<1>4. ASSUME NEW x \in Targets, NEW a \in Targets, NEW lx \in Targets, NEW la \in Targets,
             NEW contact \in BOOLEAN, FilterCartesian(x, a, lx, la, contact)
      PROVE  Inv'
  <2> TypeOK
    BY DEF Inv
  <2>1. /\ pos' \in Int /\ ang' \in Int /\ vel' \in Int
        /\ vel' = pos' - RefPos(lx)
    BY <1>4, CartesianStep
  <2>2. PICK b \in Int :
          /\ ~p.ramp => pos' = Paced(p, RefPos(lx), b)
          /\ p.ramp => \/ vel <= vel' /\ vel' <= Paced(p, RefPos(lx), b) - RefPos(lx)
                       \/ Paced(p, RefPos(lx), b) - RefPos(lx) <= vel' /\ vel' <= vel
    BY <1>4, CartesianStep
  <2>3. RefPos(lx) \in Int
    BY Refs
  <2>4. /\ Paced(p, RefPos(lx), b) \in Int
        /\ Paced(p, RefPos(lx), b) - RefPos(lx) <= p.speed
        /\ RefPos(lx) - Paced(p, RefPos(lx), b) <= p.speed
    BY <1>1, <2>3, PacedRange
  <2>5. p.ramp \in BOOLEAN
    BY <1>1 DEF FilterProfile
  <2>6. p.speed <= limit
    BY DEF Inv
  <2>7. -limit <= vel' /\ vel' <= limit
    BY <1>1, <2>1, <2>2, <2>3, <2>4, <2>5, <2>6 DEF Inv, TypeOK, SpeedBounded
  <2>8. QED
    BY <1>4, <2>1, <2>6, <2>7 DEF FilterCartesian, Inv, TypeOK, SpeedBounded
<1>5. ASSUME NEW x \in Targets, NEW contact \in BOOLEAN, Refuse(x, contact)
      PROVE  Inv'
  BY <1>5 DEF Refuse, vars, Inv, TypeOK, SpeedBounded
<1>6. ASSUME NEW x \in Targets, NEW live \in Targets, FilterJoint(x, live)
      PROVE  Inv'
  <2>1. RefJoint(live) \in Int
    BY Refs DEF Inv
  <2>2. p.qlo \in Int /\ p.qhi \in Int /\ p.qlo <= p.qhi /\ p.qspeed \in Nat /\ x \in Int
    BY <1>1, FilterAssumption DEF FilterProfile, Inv, TypeOK
  <2>3. Clip(x, p.qlo, p.qhi) \in Int
    BY <2>2, ClipRange
  <2>4. q' \in Int
    BY <1>6, <2>1, <2>2, <2>3, TowardRange DEF FilterJoint, JointCommanded
  <2>5. QED
    BY <1>6, <2>4 DEF FilterJoint, Inv, TypeOK, SpeedBounded
<1>7. CASE UNCHANGED vars
  BY <1>7 DEF vars, Inv, TypeOK, SpeedBounded
<1>8. QED
  BY <1>2, <1>3, <1>4, <1>5, <1>6, <1>7 DEF Next

LEMMA Inductive == Spec => []Inv
  BY Start, Step, PTL DEF Spec

\* Type correctness of the filter, for any profiles and targets.
THEOREM FilterTypeCorrect == Spec => []TypeOK
<1>1. Inv => TypeOK
  BY DEF Inv
<1>2. QED
  BY <1>1, Inductive, PTL

\* A commanded velocity is within the fastest profile since the last reset
\* (safety.py:355-360, 378-391), for any profiles, targets and swaps.
THEOREM SpeedIsBounded == Spec => []SpeedBounded
<1>1. Inv => SpeedBounded
  BY DEF Inv
<1>2. QED
  BY <1>1, Inductive, PTL

\* A step whose command is of filter_cartesian, after an anchor.
LEMMA FollowsStep ==
  ASSUME Inv, [Next]_vars, ~UNCHANGED vars, Follows
  PROVE  \E x, a, lx, la \in Targets, contact \in BOOLEAN :
           FilterCartesian(x, a, lx, la, contact) /\ RefPos(lx) = pos
  BY DEF Next, Follows, SetProfile, Reset, Refuse, FilterJoint, vars, RefPos

\* What a step of filter_cartesian from an anchored filter commands.
LEMMA FollowsRange ==
  ASSUME Inv, [Next]_vars, ~UNCHANGED vars, Follows
  PROVE  /\ pos \in Int /\ pos' \in Int /\ vel' \in Int /\ vel \in Int
         /\ p \in FilterProfile /\ p.lo <= p.hi
         /\ \E b \in Int : /\ p.lo <= b /\ b <= p.hi
                           /\ ~p.ramp => pos' = Paced(p, pos, b)
         /\ p.ramp => vel' - vel <= p.accel /\ vel - vel' <= p.accel
<1>1. TypeOK
  BY DEF Inv
<1>2. PICK x \in Targets, a \in Targets, lx \in Targets, la \in Targets, contact \in BOOLEAN :
        FilterCartesian(x, a, lx, la, contact) /\ RefPos(lx) = pos
  BY FollowsStep
<1>3. QED
  BY <1>1, <1>2, CartesianStep, FilterAssumption DEF TypeOK

\* Without the ramp each command is within both caps of the last (safety.py:337-360).
THEOREM StepsAreBounded == Spec => StepsBounded
<1>1. ASSUME Inv, [Next]_vars
      PROVE  [Follows /\ ~p.ramp =>
                /\ pos' - pos <= p.jump /\ pos - pos' <= p.jump
                /\ pos' - pos <= p.speed /\ pos - pos' <= p.speed]_vars
  <2> SUFFICES ASSUME ~UNCHANGED vars, Follows, ~p.ramp
               PROVE  /\ pos' - pos <= p.jump /\ pos - pos' <= p.jump
                      /\ pos' - pos <= p.speed /\ pos - pos' <= p.speed
    OBVIOUS
  <2>1. PICK b \in Int : pos' = Paced(p, pos, b)
    BY <1>1, FollowsRange
  <2>2. pos \in Int /\ p \in FilterProfile
    BY <1>1, FollowsRange
  <2>3. QED
    BY <2>1, <2>2, PacedRange
<1>2. QED
  BY <1>1, Inductive, PTL DEF Spec, StepsBounded

\* With the ramp the velocity never steps by more than its cap (safety.py:374-387).
THEOREM AccelIsBounded == Spec => AccelBounded
<1>1. ASSUME Inv, [Next]_vars
      PROVE  [Follows /\ p.ramp => vel' - vel <= p.accel /\ vel - vel' <= p.accel]_vars
  BY <1>1, FollowsRange
<1>2. QED
  BY <1>1, Inductive, PTL DEF Spec, AccelBounded

\* A step that is capped on its way from ref into lo .. hi does not end further
\* out than ref.
LEMMA NoFurther ==
  ASSUME NEW ref \in Int, NEW b \in Int, NEW z \in Int, NEW lo \in Int, NEW hi \in Int,
         lo <= b, b <= hi,
         b >= ref => ref <= z /\ z <= b,
         b <= ref => b <= z /\ z <= ref
  PROVE  Outside(z, lo, hi) <= Outside(ref, lo, hi)
  BY DEF Outside

\* Without the ramp no command is further outside the box than the one before
\* (safety.py:316-360), though the caps are applied after the box.
THEOREM BoxIsKept == Spec => BoxKept
<1>1. ASSUME Inv, [Next]_vars
      PROVE  [Follows /\ ~p.ramp =>
                Outside(pos', p.lo, p.hi) <= Outside(pos, p.lo, p.hi)]_vars
  <2> SUFFICES ASSUME ~UNCHANGED vars, Follows, ~p.ramp
               PROVE  Outside(pos', p.lo, p.hi) <= Outside(pos, p.lo, p.hi)
    OBVIOUS
  <2>1. PICK b \in Int : p.lo <= b /\ b <= p.hi /\ pos' = Paced(p, pos, b)
    BY <1>1, FollowsRange
  <2>2. pos \in Int /\ pos' \in Int /\ p \in FilterProfile
    BY <1>1, FollowsRange
  <2>3. p.lo \in Int /\ p.hi \in Int
    BY <2>2 DEF FilterProfile
  <2>4. /\ b >= pos => pos <= pos' /\ pos' <= b
        /\ b <= pos => b <= pos' /\ pos' <= pos
    BY <2>1, <2>2, PacedRange
  <2>5. QED
    BY <2>1, <2>2, <2>3, <2>4, NoFurther
<1>2. QED
  BY <1>1, Inductive, PTL DEF Spec, BoxKept

\* The same of the joint limits (safety.py:404-422).
THEOREM JointLimitsAreKept == Spec => JointLimitsKept
<1>1. ASSUME Inv, [Next]_vars
      PROVE  [op' = "joint" /\ "joint" \in anchored
                => Outside(q', p.qlo, p.qhi) <= Outside(q, p.qlo, p.qhi)]_vars
  <2> SUFFICES ASSUME ~UNCHANGED vars, op' = "joint", "joint" \in anchored
               PROVE  Outside(q', p.qlo, p.qhi) <= Outside(q, p.qlo, p.qhi)
    OBVIOUS
  <2>1. PICK x \in Targets, live \in Targets : FilterJoint(x, live)
    BY <1>1 DEF Next, SetProfile, Reset, Refuse, FilterCartesian, vars
  <2>2. p \in FilterProfile /\ p.qlo <= p.qhi /\ x \in Int /\ q \in Int
    BY <1>1, FilterAssumption DEF Inv, TypeOK
  <2>3. p.qlo \in Int /\ p.qhi \in Int /\ p.qspeed \in Nat
    BY <2>2 DEF FilterProfile
  <2> DEFINE b == Clip(x, p.qlo, p.qhi)
  <2>4. b \in Int /\ p.qlo <= b /\ b <= p.qhi
    BY <2>2, <2>3, ClipRange
  <2>5. q' = Toward(q, b, p.qspeed)
    BY <2>1 DEF FilterJoint, JointCommanded, RefJoint
  <2> HIDE DEF b
  <2>6. /\ q' \in Int
        /\ b >= q => q <= q' /\ q' <= b
        /\ b <= q => b <= q' /\ q' <= q
    BY <2>2, <2>3, <2>4, <2>5, TowardRange
  <2>7. QED
    BY <2>2, <2>3, <2>4, <2>6, NoFurther
<1>2. QED
  BY <1>1, Inductive, PTL DEF Spec, JointLimitsKept
==============================================================================
