--------------------------- MODULE ServoLoopProofs ---------------------------
(***************************************************************************)
(* What ServoLoop guarantees for any positions, targets and profiles.      *)
(***************************************************************************)
EXTENDS ServoLoop, TLAPS

\* In a motion mode, the filter's reference for that mode is where the arm is.
Anchored ==
  /\ mode = "cartesian" => fpos = arm
  /\ mode = "joint" => fq = arm

\* Unless it went idle, the arm is where the tick under way saw it; and a thread
\* about to pull a setpoint has an iterator to pull it from.
Seen ==
  /\ pc \in {"advance", "snapshot", "write"} /\ mode # "idle" => sight.arm = arm
  /\ pc = "advance" => citer # None

\* A tick past its fault gate has seen the fault a setpoint already went out in.
Gated ==
  /\ blind => fault
  /\ pc = "write" /\ blind => snap.fault

Inv == TypeOK /\ Anchored /\ Seen /\ Gated

-----------------------------------------------------------------------------
(* The filter's step *)

LEMMA TowardStep ==
  ASSUME NEW ref \in Int, NEW x \in Int, NEW cap \in Nat
  PROVE  Toward(ref, x, cap) \in Int /\ Distance(ref, Toward(ref, x, cap)) <= cap
BY DEF Toward, Clip, Distance

LEMMA CommandedStep ==
  ASSUME NEW p \in LoopProfile, NEW ref \in Int, NEW x \in Int
  PROVE  /\ Commanded(p, ref, 0, x) \in Int
         /\ Distance(ref, Commanded(p, ref, 0, x)) <= p.speed
<1> DEFINE y == Toward(ref, Boxed(p, x), p.jump)
<1>1. p.ramp = FALSE /\ p.lo \in Int /\ p.hi \in Int /\ p.jump \in Nat /\ p.speed \in Nat
  BY DEF LoopProfile
<1>2. Boxed(p, x) \in Int
  BY <1>1 DEF Boxed, Clip
<1>3. y \in Int
  BY <1>1, <1>2, TowardStep
<1>4. Commanded(p, ref, 0, x) = Toward(ref, y, p.speed)
  BY <1>1 DEF Commanded, Ramped, Paced
<1> HIDE DEF y
<1> QED BY <1>1, <1>3, <1>4, TowardStep

LEMMA JointStep ==
  ASSUME NEW p \in LoopProfile, NEW ref \in Int, NEW x \in Int
  PROVE  /\ JointCommanded(p, ref, x) \in Int
         /\ Distance(ref, JointCommanded(p, ref, x)) <= p.qspeed
<1>1. p.qlo \in Int /\ p.qhi \in Int /\ p.qspeed \in Nat
  BY DEF LoopProfile
<1>2. Clip(x, p.qlo, p.qhi) \in Int
  BY <1>1 DEF Clip
<1> QED BY <1>1, <1>2, TowardStep DEF JointCommanded

LEMMA ProfileStep ==
  ASSUME TypeOK
  PROVE  profile \in LoopProfile /\ profile.speed \in Nat /\ profile.qspeed \in Nat
BY LoopAssumption DEF TypeOK, LoopProfile

-----------------------------------------------------------------------------
(* The invariant.  Its types are stated in two parts, for two provers. *)

Flags ==
  /\ fault \in BOOLEAN /\ cart \in BOOLEAN /\ old \in BOOLEAN
  /\ running \in BOOLEAN /\ preempted \in BOOLEAN /\ blind \in BOOLEAN

Values ==
  /\ arm \in Int /\ mode \in Modes
  /\ profile \in Profiles /\ fpos \in Int /\ fq \in Int
  /\ pose \in Int /\ goal \in Int
  /\ iter \in Chunk \cup {None} /\ citer \in Chunk \cup {None}
  /\ pc \in Points /\ status \in {"ok", "holding", "stopped"}
  /\ sight \in [arm : Int, mode : Modes]
  /\ snap \in [cart : BOOLEAN, to : Int, old : BOOLEAN, fault : BOOLEAN]

LEMMA TypeParts == TypeOK <=> Flags /\ Values
BY DEF TypeOK, Flags, Values

LEMMA InitInv == Init => Inv
<1> SUFFICES ASSUME Init PROVE Inv
  OBVIOUS
<1>1. Positions \subseteq Int
  BY LoopAssumption
<1>2. Flags
  BY DEF Init, Flags
<1>3. Values
  <2>1. sight \in [arm : Int, mode : Modes]
    BY DEF Init, NoSight, Modes
  <2>2. snap \in [cart : BOOLEAN, to : Int, old : BOOLEAN, fault : BOOLEAN]
    BY DEF Init, NoSnap
  <2> QED BY <1>1, <2>1, <2>2 DEF Init, Values, Modes, Points
<1>4. Anchored /\ Seen /\ Gated
  BY DEF Init, Anchored, Seen, Gated
<1> QED BY <1>2, <1>3, <1>4, TypeParts DEF Inv

\* Producers leave the robot, the filter and the thread's sight alone.
LEMMA ProduceInv == Inv /\ Produce => Inv'
<1> SUFFICES ASSUME Inv, Produce PROVE Inv'
  OBVIOUS
<1>1. PICK x \in Targets : \/ SetCartesianTarget(x)
                           \/ SetJointTarget(x)
                           \/ \E from \in Positions : EnqueueChunk(from, x)
  BY DEF Produce
<1>2. x \in Int /\ profile.speed \in Nat /\ Positions \subseteq Int
  BY LoopAssumption, ProfileStep DEF Inv
<1>3. \E new : Preempt(new)
  BY <1>1 DEF SetCartesianTarget, SetJointTarget, EnqueueChunk
<1>4. \E new \in Chunk \cup {None} : iter' = new
  <2>1. \A from \in Positions : [at |-> from, to |-> x, step |-> profile.speed] \in Chunk
    BY <1>2 DEF Chunk
  <2> QED BY <1>1, <2>1 DEF SetCartesianTarget, SetJointTarget, EnqueueChunk, Preempt
<1>5. pose' \in Int /\ goal' \in Int
  <2>1. pose' \in {pose, x} /\ goal' \in {0, x}
    BY <1>1 DEF SetCartesianTarget, SetJointTarget, EnqueueChunk
  <2> QED BY <1>2, <2>1 DEF Inv, TypeOK
<1>6. TypeOK'
  <2>1. cart' \in BOOLEAN
    BY <1>1 DEF SetCartesianTarget, SetJointTarget, EnqueueChunk
  <2>2. Flags'
    BY <1>3, <2>1, TypeParts DEF Preempt, Inv, Flags, backendVars
  <2>3. Values'
    BY <1>3, <1>4, <1>5, TypeParts DEF Preempt, Inv, Values, backendVars, filterVars
  <2> QED BY <2>2, <2>3 DEF TypeOK, Flags, Values
<1>7. (Anchored /\ Seen /\ Gated)'
  BY <1>3 DEF Preempt, Inv, Anchored, Seen, Gated, backendVars, filterVars
<1> QED BY <1>6, <1>7 DEF Inv

LEMMA LifeInv == Inv /\ (SetProfile \/ Start \/ StopFlag \/ StopJoined) => Inv'
<1> SUFFICES ASSUME Inv, SetProfile \/ Start \/ StopFlag \/ StopJoined PROVE Inv'
  OBVIOUS
<1> USE DEF Inv, backendVars, filterVars, bufferVars, localVars
<1>1. CASE SetProfile
  <2>1. TypeOK'
    BY <1>1 DEF SetProfile, TypeOK
  <2>2. (Anchored /\ Seen /\ Gated)'
    BY <1>1 DEF SetProfile, Anchored, Seen, Gated
  <2> QED BY <2>1, <2>2
<1>2. CASE Start
  <2>1. TypeOK'
    <3>1. Flags'
      BY <1>2, TypeParts DEF Start, Flags
    <3>2. Values'
      BY <1>2, TypeParts DEF Start, Values, Modes, Points
    <3> QED BY <3>1, <3>2 DEF TypeOK, Flags, Values
  <2>2. (Anchored /\ Seen /\ Gated)'
    BY <1>2 DEF Start, Anchored, Seen, Gated
  <2> QED BY <2>1, <2>2
<1>3. CASE StopFlag
  <2>1. TypeOK'
    BY <1>3 DEF StopFlag, TypeOK
  <2>2. (Anchored /\ Seen /\ Gated)'
    BY <1>3 DEF StopFlag, Anchored, Seen, Gated
  <2> QED BY <2>1, <2>2
<1>4. CASE StopJoined
  <2>1. TypeOK'
    BY <1>4 DEF StopJoined, Modes, Points, TypeOK
  <2>2. (Anchored /\ Seen /\ Gated)'
    BY <1>4 DEF StopJoined, Anchored, Seen, Gated
  <2> QED BY <2>1, <2>2
<1> QED BY <1>1, <1>2, <1>3, <1>4

LEMMA EnvironmentInv == Inv /\ (Pass \/ Trip \/ Recover \/ HandGuide) => Inv'
<1> SUFFICES ASSUME Inv, Pass \/ Trip \/ Recover \/ HandGuide PROVE Inv'
  OBVIOUS
<1>0. Guided \subseteq Int
  BY LoopAssumption
<1> USE DEF Inv, backendVars, filterVars, bufferVars, localVars
<1>1. CASE Pass
  <2>1. TypeOK'
    BY <1>1 DEF Pass, TypeOK
  <2>2. (Anchored /\ Seen /\ Gated)'
    BY <1>1 DEF Pass, Anchored, Seen, Gated
  <2> QED BY <2>1, <2>2
<1>2. CASE Trip
  <2>1. TypeOK'
    <3>1. Flags'
      BY <1>2, TypeParts DEF Trip, Flags
    <3>2. Values'
      BY <1>2, TypeParts DEF Trip, Values, Modes
    <3> QED BY <3>1, <3>2 DEF TypeOK, Flags, Values
  <2>2. (Anchored /\ Seen /\ Gated)'
    BY <1>2 DEF Trip, Anchored, Seen, Gated
  <2> QED BY <2>1, <2>2
<1>3. CASE Recover
  <2>1. TypeOK'
    BY <1>3 DEF Recover, TypeOK
  <2>2. (Anchored /\ Seen /\ Gated)'
    BY <1>3 DEF Recover, Anchored, Seen, Gated
  <2> QED BY <2>1, <2>2
<1>4. CASE HandGuide
  <2>1. TypeOK'
    BY <1>0, <1>4 DEF HandGuide, TypeOK
  <2>2. (Anchored /\ Seen /\ Gated)'
    BY <1>4 DEF HandGuide, Anchored, Seen, Gated
  <2> QED BY <2>1, <2>2
<1> QED BY <1>1, <1>2, <1>3, <1>4

\* The thread up to its write.
Prepare == Leave \/ Read \/ Advance \/ Exhausted \/ Snapshot

LEMMA PrepareInv == Inv /\ Prepare => Inv'
<1> SUFFICES ASSUME Inv, Prepare PROVE Inv'
  OBVIOUS
<1> USE DEF Inv, Goto, backendVars, filterVars, bufferVars, localVars
<1>1. CASE Leave
  <2>1. TypeOK'
    BY <1>1 DEF Leave, Points, TypeOK
  <2>2. (Anchored /\ Seen /\ Gated)'
    BY <1>1 DEF Leave, Anchored, Seen, Gated
  <2> QED BY <2>1, <2>2
<1>2. CASE Read
  <2>1. TypeOK'
    BY <1>2 DEF Read, Points, TypeOK
  <2>2. (Anchored /\ Seen /\ Gated)'
    BY <1>2 DEF Read, Anchored, Seen, Gated
  <2> QED BY <2>1, <2>2
<1>3. CASE Advance
  <2> DEFINE next == Toward(citer.at, citer.to, citer.step)
  <2>1. citer \in Chunk
    BY <1>3 DEF Advance, TypeOK, Seen
  <2>2. next \in Int /\ [citer EXCEPT !.at = next] \in Chunk
    BY <2>1, TowardStep DEF Chunk
  <2>3. iter' \in Chunk \cup {None} /\ pose' \in Int
    BY <1>3, <2>2 DEF Advance, TypeOK
  <2>4. TypeOK'
    <3>1. Flags'
      BY <1>3, TypeParts DEF Advance, Pulled, Flags
    <3>2. Values'
      BY <1>3, <2>3, TypeParts DEF Advance, Pulled, Values, Points
    <3> QED BY <3>1, <3>2 DEF TypeOK, Flags, Values
  <2>5. (Anchored /\ Seen /\ Gated)'
    BY <1>3 DEF Advance, Pulled, Anchored, Seen, Gated
  <2> QED BY <2>4, <2>5
<1>4. CASE Exhausted
  <2>1. TypeOK'
    BY <1>4 DEF Exhausted, Pulled, Points, TypeOK
  <2>2. (Anchored /\ Seen /\ Gated)'
    BY <1>4 DEF Exhausted, Pulled, Anchored, Seen, Gated
  <2> QED BY <2>1, <2>2
<1>5. CASE Snapshot
  <2>1. TypeOK'
    BY <1>5 DEF Snapshot, Points, TypeOK
  <2>2. (Anchored /\ Seen /\ Gated)'
    BY <1>5 DEF Snapshot, Anchored, Seen, Gated
  <2> QED BY <2>1, <2>2
<1> QED BY <1>1, <1>2, <1>3, <1>4, <1>5 DEF Prepare

Write == WriteStop \/ WriteHold \/ WriteCartesian \/ WriteJoint \/ WriteRaises

LEMMA WriteInv == Inv /\ Write => Inv'
<1> SUFFICES ASSUME Inv, Write PROVE Inv'
  OBVIOUS
<1>0. profile \in LoopProfile /\ fpos \in Int /\ fq \in Int /\ snap.to \in Int
  BY ProfileStep DEF Inv, TypeOK
<1> USE DEF Inv, Goto, EndTick, NoSight, NoSnap, filterVars, bufferVars
<1>1. CASE WriteStop
  <2>1. TypeOK'
    BY <1>1 DEF WriteStop, Modes, Points, TypeOK
  <2>2. (Anchored /\ Seen /\ Gated)'
    BY <1>1 DEF WriteStop, Anchored, Seen, Gated
  <2> QED BY <2>1, <2>2
<1>2. CASE WriteHold
  <2>1. TypeOK'
    BY <1>2 DEF WriteHold, Stream, EnsuredMode, Kind, Modes, Points, TypeOK
  <2>2. (Anchored /\ Seen /\ Gated)'
    BY <1>2 DEF WriteHold, Stream, EnsuredMode, Kind, Anchored, Seen, Gated
  <2> QED BY <2>1, <2>2
<1>3. CASE WriteCartesian
  <2>0. fpos' \in Int
    BY <1>0, <1>3, CommandedStep DEF WriteCartesian
  <2>1. TypeOK'
    BY <1>3, <2>0 DEF WriteCartesian, Stream, Kind, Modes, Points, TypeOK
  <2>2. (Anchored /\ Seen /\ Gated)'
    BY <1>3 DEF WriteCartesian, Stream, Kind, Anchored, Seen, Gated
  <2> QED BY <2>1, <2>2
<1>4. CASE WriteJoint
  <2>0. fq' \in Int
    BY <1>0, <1>4, JointStep DEF WriteJoint
  <2>1. TypeOK'
    BY <1>4, <2>0 DEF WriteJoint, Stream, Kind, Modes, Points, TypeOK
  <2>2. (Anchored /\ Seen /\ Gated)'
    BY <1>4 DEF WriteJoint, Stream, Kind, Anchored, Seen, Gated
  <2> QED BY <2>1, <2>2
<1>5. CASE WriteRaises
  <2>1. TypeOK'
    <3>1. Flags'
      BY <1>5, TypeParts DEF WriteRaises, Flags
    <3>2. Values'
      BY <1>5, TypeParts DEF WriteRaises, Values, Modes, Points
    <3> QED BY <3>1, <3>2 DEF TypeOK, Flags, Values
  <2>2. (Anchored /\ Seen /\ Gated)'
    BY <1>5 DEF WriteRaises, Anchored, Seen, Gated
  <2> QED BY <2>1, <2>2
<1> QED BY <1>1, <1>2, <1>3, <1>4, <1>5 DEF Write

LEMMA StepInv == Inv /\ [Next]_vars => Inv'
<1>1. Inv /\ UNCHANGED vars => Inv'
  BY DEF Inv, TypeOK, Anchored, Seen, Gated, vars, backendVars, filterVars,
         bufferVars, localVars
<1> QED BY <1>1, ProduceInv, LifeInv, EnvironmentInv, PrepareInv, WriteInv
        DEF Next, Thread, Prepare, Write

\* Type correctness of the servo loop, for any positions, targets and profiles.
THEOREM LoopTypeCorrect == Spec => []TypeOK
<1>1. Inv => TypeOK
  BY DEF Inv
<1> QED BY InitInv, StepInv, <1>1, PTL DEF Spec

-----------------------------------------------------------------------------
(* The action properties *)

\* What moves the thread from its write to its next tick is one of its writes.
LEMMA StreamsAre ==
  ASSUME Inv, [Next]_vars, Streams
  PROVE  WriteHold \/ WriteCartesian \/ WriteJoint
<1> USE DEF Streams
<1>1. ~UNCHANGED vars
  BY DEF vars
<1>2. ~Produce
  BY DEF Produce, SetCartesianTarget, SetJointTarget, EnqueueChunk, Preempt
<1>3. ~(SetProfile \/ Start \/ StopFlag \/ StopJoined)
  BY DEF SetProfile, Start, StopFlag, StopJoined
<1>4. ~(Pass \/ Trip \/ Recover \/ HandGuide)
  BY DEF Pass, Trip, Recover, HandGuide
<1>5. ~Prepare
  BY DEF Prepare, Leave, Read, Advance, Exhausted, Snapshot
<1>6. ~(WriteStop \/ WriteRaises)
  BY DEF WriteStop, WriteRaises
<1> QED BY <1>1, <1>2, <1>3, <1>4, <1>5, <1>6 DEF Next, Thread, Prepare

LEMMA SteadyStep ==
  ASSUME Inv, [Next]_vars, Streams, mode' = mode
  PROVE  Distance(arm, arm') <= IF mode = "cartesian" THEN profile.speed ELSE profile.qspeed
<1>0. /\ profile \in LoopProfile /\ profile.speed \in Nat /\ profile.qspeed \in Nat
      /\ arm \in Int /\ fpos \in Int /\ fq \in Int /\ snap.to \in Int
  BY ProfileStep DEF Inv, TypeOK
<1>1. CASE WriteHold
  <2>1. arm' = arm
    BY <1>1 DEF WriteHold, Stream, Streams, Inv, Seen
  <2> QED BY <1>0, <2>1 DEF Distance
<1>2. CASE WriteCartesian
  <2>1. mode = "cartesian" /\ arm = fpos
    BY <1>2 DEF WriteCartesian, Stream, Kind, Inv, Anchored
  <2>2. arm' = Commanded(profile, fpos, 0, snap.to)
    BY <1>2 DEF WriteCartesian, Stream
  <2> QED BY <1>0, <2>1, <2>2, CommandedStep
<1>3. CASE WriteJoint
  <2>1. mode = "joint" /\ arm = fq
    BY <1>3 DEF WriteJoint, Stream, Kind, Inv, Anchored
  <2>2. arm' = JointCommanded(profile, fq, snap.to)
    BY <1>3 DEF WriteJoint, Stream
  <2> QED BY <1>0, <2>1, <2>2, JointStep
<1> QED BY <1>1, <1>2, <1>3, StreamsAre

\* In one mode, every setpoint is within the filter's step of the arm.
THEOREM SetpointsAreSteady == Spec => SteadyWithinStep
<1>1. Inv /\ [Next]_vars =>
        [Streams /\ mode' = mode =>
           Distance(arm, arm') <= IF mode = "cartesian" THEN profile.speed
                                                        ELSE profile.qspeed]_vars
  BY SteadyStep
<1> QED BY InitInv, StepInv, <1>1, PTL DEF Spec, SteadyWithinStep

\* Once a setpoint went out in a fault, no other does until the fault is over.
THEOREM FaultStopsTheStream == Spec => FaultStopsStream
<1>1. ASSUME Inv, [Next]_vars, Streams PROVE ~blind
  <2>1. pc = "write" /\ ~snap.fault
    BY <1>1, StreamsAre DEF Streams, WriteHold, WriteCartesian, WriteJoint
  <2> QED BY <1>1, <2>1 DEF Inv, Gated
<1>2. Inv /\ [Next]_vars => [Streams /\ fault => ~blind]_vars
  BY <1>1
<1> QED BY InitInv, StepInv, <1>2, PTL DEF Spec, FaultStopsStream
==============================================================================
